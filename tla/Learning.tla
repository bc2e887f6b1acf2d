------------------------------ MODULE Learning ------------------------------
(***************************************************************************)
(* What agents learn about one person, one named detail at a time          *)
(* (runtime/profile_learn.go, profile_host.go, postgres/                   *)
(* profile_details.go): the background learning of finished exchanges, on  *)
(* several servers that share the store, the person's answers, and the     *)
(* details the person changes by hand, or an older note brings, meanwhile. *)
(*                                                                         *)
(* The model that reads an exchange proposes any detail; the judge that    *)
(* compares details may be wrong, or fail.  A slot is a detail's scope and *)
(* its key; slots of one kind hold the same information under two names.   *)
(***************************************************************************)
EXTENDS Integers, FiniteSets

CONSTANTS Servers,      \* processes that share the store
          Exchanges,    \* finished exchanges of the person with an agent
          Server,       \* [Exchanges -> Servers]
          Apps,         \* [Exchanges -> sets of scopes]: the apps the agent works with
          Slots,        \* details the person may have
          Scope,        \* [Slots -> scopes], "personal" or an app
          Kind,         \* [Slots -> kinds of information]
          Owned,        \* slots kept as fields of their own (TypedDetails.Owns)
          Values,       \* values
          Wordless,     \* values without a letter or a digit (ComparableValue is empty)
          Invalid,      \* values an owned slot cannot hold
          Never,        \* values that look like a secret or a permission (NeverLearned)
          MaxDetails,   \* MaxDetailsPerScope
          MaxQuestions, \* maxQuestionsPerExchange
          Proposals,    \* [Exchanges -> how much the model proposes at most]
          MaxEdits      \* bound: changes the person makes by hand

NoValue == "none"

LearningConstants ==
  /\ Server \in [Exchanges -> Servers]
  /\ Owned \subseteq {s \in Slots : Scope[s] = "personal"} /\ Wordless \subseteq Values
  /\ NoValue \notin Values /\ "hand" \notin Exchanges /\ Proposals \in [Exchanges -> Nat]
  /\ {MaxDetails, MaxQuestions, MaxEdits} \subseteq Nat

VARIABLES
  held,     \* profile_details and the typed fields: [Slots -> value, or NoValue]
  declined, \* profile_declined, in the last declinedMemory: set of <<slot, value>>
  learn,    \* [Exchanges -> [step, seen, left, questions, item]]: Learn and its learnState
  edits,    \* changes by hand
  past      \* history: [other, apart, noes]

vars == <<held, declined, learn, edits, past>>

Item(s, v, old, yes, doubt) == [slot |-> s, value |-> v, old |-> old, yes |-> yes, doubt |-> doubt]
NoItem == Item(NoValue, NoValue, NoValue, FALSE, FALSE)

Steps == {"none", "queued", "locked", "considering", "propose", "asked", "refused", "write", "insert", "done"}
Locked(e) == learn[e].step \notin {"none", "queued", "done"}

\* The history of a write: who did not see it, and whether two slots of a kind may come of it.
Noted(writer, s, apart) ==
  [past EXCEPT !.other = [e \in Exchanges |-> IF e = writer THEN @[e] ELSE @[e] \cup {s}],
               !.apart = IF apart THEN @ \cup {s} ELSE @]

(***************************************************************************)
(* Learn                                                                   *)
(***************************************************************************)
Reach(e) == {s \in Slots : Scope[s] \in {"personal"} \cup Apps[e]}

\* learnState.find, among the details of the scope
SeenIn(e, scope) == {s \in Reach(e) : Scope[s] = scope /\ learn[e].seen[s] # NoValue}

\* maybeLearn: a goroutine, with nothing kept of it.
MaybeLearn(e) ==
  /\ learn[e].step = "none"
  /\ learn' = [learn EXCEPT ![e].step = "queued"]
  /\ UNCHANGED <<held, declined, edits, past>>

\* lockFor: a process learns one thing at a time of a person.
Locks(e) ==
  /\ learn[e].step = "queued"
  /\ \A x \in Exchanges : Server[x] = Server[e] => ~Locked(x)
  /\ learn' = [learn EXCEPT ![e].step = "locked"]
  /\ UNCHANGED <<held, declined, edits, past>>

\* The details of the person and of the agent's apps are read, then the model proposes.
Reads(e) ==
  /\ learn[e].step = "locked"
  /\ \E n \in 0..Proposals[e] :
       learn' = [learn EXCEPT ![e].step = "considering", ![e].left = n,
                              ![e].seen = [s \in Slots |-> IF s \in Reach(e) THEN held[s] ELSE NoValue]]
  /\ past' = [past EXCEPT !.other[e] = {}]
  /\ UNCHANGED <<held, declined, edits>>

\* Everything is considered, or the details or the proposals could not be had.
Ends(e) ==
  /\ \/ learn[e].step = "locked"
     \/ learn[e].step = "considering" /\ learn[e].left = 0
  /\ learn' = [learn EXCEPT ![e] = [step |-> "done", seen |-> [s \in Slots |-> NoValue], left |-> 0,
                                    questions |-> 0, item |-> NoItem]]
  /\ past' = [past EXCEPT !.other[e] = {}]
  /\ UNCHANGED <<held, declined, edits>>

\* The slots a proposal may be taken for: its own, or a held one the judge calls the same kind.
Taken(e, s) == {s} \cup (IF learn[e].seen[s] = NoValue THEN SeenIn(e, Scope[s]) ELSE {})

\* SameDetailValue: nothing is the same as a value without words.
SameDetailValue(v, w) == v = w /\ v \notin Wordless

\* A detail not held is written, if the statement is a lasting one.
LearnsNew(e, s, k, v) ==
  /\ learn[e].seen[k] = NoValue
  /\ learn' = [learn EXCEPT ![e].step = "write", ![e].left = @ - 1,
       ![e].item = Item(k, v, NoValue, FALSE, \E x \in SeenIn(e, Scope[s]) : Kind[x] = Kind[k])]

\* A mistake: a value that adds to the one held is written without a question.
AddsUnasked(e, k, v, unknown) ==
  /\ learn[e].seen[k] # NoValue /\ ~SameDetailValue(learn[e].seen[k], v)
  /\ learn' = [learn EXCEPT ![e].step = "write", ![e].left = @ - 1,
                            ![e].item = Item(k, v, learn[e].seen[k], FALSE, FALSE)]
\* proposeChange: a value that could not be kept, or is known to be refused, is not asked about.
ProposesChange(e, k, v, unknown) ==
  /\ learn[e].seen[k] # NoValue /\ ~SameDetailValue(learn[e].seen[k], v)
  /\ ~(k \in Owned /\ v \in Invalid)
  /\ unknown \/ <<k, v>> \notin declined
  /\ learn' = [learn EXCEPT ![e].step = "propose", ![e].left = @ - 1,
                            ![e].item = Item(k, v, learn[e].seen[k], FALSE, unknown)]

\* consider: the judge may fail, call the value the same, or the statement a passing one.
Skips(e) == learn' = [learn EXCEPT ![e].left = @ - 1]

Considers(e, s, v) ==
  /\ learn[e].step = "considering" /\ learn[e].left > 0
  /\ s \in Reach(e) /\ v \notin Never
  /\ \/ \E k \in Taken(e, s) : LearnsNew(e, s, k, v) \/ \E unknown \in BOOLEAN : ProposesChange(e, k, v, unknown)
     \/ Skips(e)
  /\ UNCHANGED <<held, declined, edits, past>>

\* Lasting, and a messenger that can ask, and a question left; or the value stays as it is.
Asks(e) ==
  /\ learn[e].step = "propose"
  /\ \/ /\ learn[e].questions < MaxQuestions
        /\ learn' = [learn EXCEPT ![e].step = "asked", ![e].questions = @ + 1]
     \/ learn' = [learn EXCEPT ![e].step = "considering", ![e].item = NoItem]
  /\ UNCHANGED <<held, declined, edits, past>>

\* Yes, No, or neither: a time-out, or a message of the person's instead.
Answers(e, step) ==
  /\ learn[e].step = "asked"
  /\ learn' = [learn EXCEPT ![e].step = step,
                            ![e].item = IF step = "considering" THEN NoItem ELSE [@ EXCEPT !.yes = step = "write"]]
  /\ UNCHANGED <<held, declined, edits, past>>

\* DeclineProfileValue, which keeps nothing of a value without words; or it fails.
Refusal(q) == {<<q.slot, q.value>>}

Declines(e) ==
  /\ learn[e].step = "refused"
  /\ LET q == learn[e].item
     IN  \/ /\ declined' = IF q.value \in Wordless THEN declined ELSE declined \cup Refusal(q)
            /\ past' = [past EXCEPT !.noes = @ \cup {<<q.slot, q.value>>}]
         \/ UNCHANGED <<declined, past>>
  /\ learn' = [learn EXCEPT ![e].step = "considering", ![e].item = NoItem]
  /\ UNCHANGED <<held, edits>>

\* The INSERT counts the scope's details as it starts; a key that is there is replaced.
HasRoom(s) ==
  held[s] # NoValue \/ Cardinality({x \in Slots \ Owned : Scope[x] = Scope[s] /\ held[x] # NoValue}) < MaxDetails

Counts(e) ==
  /\ learn[e].step = "write"
  /\ LET s == learn[e].item.slot
         written == IF s \in Owned THEN learn[e].item.value \notin Invalid ELSE HasRoom(s)
     IN  learn' = IF written THEN [learn EXCEPT ![e].step = "insert"]
                  ELSE [learn EXCEPT ![e].step = "considering", ![e].item = NoItem]
  /\ UNCHANGED <<held, declined, edits, past>>

\* A mistake: what was learned is not kept for the rest of the exchange.
Forgotten(e, s, v) == learn[e].seen
\* learnState.put
Put(e, s, v) == [learn[e].seen EXCEPT ![s] = v]

\* ON CONFLICT DO UPDATE: whatever is there by now is replaced; or the write fails.
Inserts(e) ==
  /\ learn[e].step = "insert"
  /\ LET q == learn[e].item
     IN  \/ /\ held' = [held EXCEPT ![q.slot] = q.value]
            /\ past' = Noted(e, q.slot, q.doubt \/ past.other[e] # {})
            /\ learn' = [learn EXCEPT ![e].step = "considering", ![e].item = NoItem,
                                      ![e].seen = Put(e, q.slot, q.value)]
         \/ /\ learn' = [learn EXCEPT ![e].step = "considering", ![e].item = NoItem]
            /\ UNCHANGED <<held, past>>
  /\ UNCHANGED <<declined, edits>>

\* declinedMemory after it was said
Outdated(s, v) ==
  /\ <<s, v>> \in declined \cup past.noes
  /\ declined' = declined \ {<<s, v>>}
  /\ past' = [past EXCEPT !.noes = @ \ {<<s, v>>}]
  /\ UNCHANGED <<held, learn, edits>>

(***************************************************************************)
(* The person, and the server.                                             *)
(***************************************************************************)
\* SetProfileDetail, SetTyped or RemoveProfileDetail, by the person's own hand, or the move of a note.
EditsByHand(s, v) ==
  /\ edits < MaxEdits /\ held[s] # v
  /\ IF s \in Owned THEN v \notin Invalid ELSE v # NoValue => HasRoom(s)
  /\ held' = [held EXCEPT ![s] = v]
  /\ edits' = edits + 1
  /\ past' = Noted("hand", s, TRUE)
  /\ UNCHANGED <<declined, learn>>

\* A server restarts: its goroutines, locks and maps are gone.
Restarts(x) ==
  /\ \E e \in Exchanges : Server[e] = x /\ learn[e].step \notin {"none", "done"}
  /\ learn' = [e \in Exchanges |->
       IF Server[e] = x /\ learn[e].step # "none"
       THEN [step |-> "done", seen |-> [s \in Slots |-> NoValue], left |-> 0, questions |-> 0, item |-> NoItem]
       ELSE learn[e]]
  /\ UNCHANGED <<held, declined, edits, past>>

(***************************************************************************)
(* Specification                                                           *)
(***************************************************************************)
Init ==
  /\ held = [s \in Slots |-> NoValue]
  /\ declined = {}
  /\ learn = [e \in Exchanges |-> [step |-> "none", seen |-> [s \in Slots |-> NoValue], left |-> 0,
                                   questions |-> 0, item |-> NoItem]]
  /\ edits = 0
  /\ past = [other |-> [e \in Exchanges |-> {}], apart |-> {}, noes |-> {}]

Learn(e) ==
  \/ MaybeLearn(e) \/ Locks(e) \/ Reads(e) \/ Ends(e) \/ Asks(e) \/ Declines(e) \/ Counts(e) \/ Inserts(e)
  \/ \E s \in Slots, v \in Values : Considers(e, s, v)
  \/ \E step \in {"write", "refused", "considering"} : Answers(e, step)

Next ==
  \/ \E e \in Exchanges : Learn(e)
  \/ \E s \in Slots, v \in Values : Outdated(s, v)
  \/ \E s \in Slots, v \in Values \cup {NoValue} : EditsByHand(s, v)
  \/ \E x \in Servers : Restarts(x)

Spec == Init /\ [][Next]_vars

(***************************************************************************)
(* Properties                                                              *)
(***************************************************************************)
TypeOK ==
  /\ held \in [Slots -> Values \cup {NoValue}]
  /\ declined \subseteq Slots \X Values
  /\ \A e \in Exchanges : learn[e].step \in Steps /\ learn[e].questions \in 0..MaxQuestions
  /\ edits \in 0..MaxEdits

\* The same information is not kept twice under two names of a scope, unless the judge did not see
\* that they are the same, or a name was written by hand, or by a server that did
\* not know of the other (consider, SameKind; learnState is "kept current as the exchange goes").
NotTwice ==
  \A s, t \in Slots :
    s # t /\ Scope[s] = Scope[t] /\ Kind[s] = Kind[t] /\ held[s] # NoValue /\ held[t] # NoValue
      => {s, t} \cap past.apart # {}

LearningInv == TypeOK /\ NotTwice

\* A value that is held is replaced by what was said in a conversation only after the person said
\* Yes to a question that named the value that is replaced, unless the value was written by
\* somebody else since the exchange read it (consider, proposeChange, SetProfileDetail).
ReplacesWith(e, s) ==
  /\ learn[e].step = "insert" /\ learn'[e].step # "insert"
  /\ held[s] # NoValue /\ held'[s] \notin {NoValue, held[s]}
OnlyYesChanges ==
  \A e \in Exchanges, s \in Slots : ReplacesWith(e, s) =>
    (learn[e].item.yes /\ learn[e].item.old = held[s]) \/ s \in past.other[e]

\* A value the person refused is not proposed again within declinedMemory, by whatever agent or
\* server, as long as the refusal could be kept, and looked up (proposeChange, DeclinedProfileValue).
Proposed(e) == learn[e].step = "considering" /\ learn'[e].step = "propose"
RefusedOnce ==
  \A e \in Exchanges : Proposed(e) =>
    \/ <<learn'[e].item.slot, learn'[e].item.value>> \notin past.noes
    \/ learn'[e].item.doubt
    \/ learn'[e].item.value \in Wordless

\* What the person said Yes and No to stands: each step keeps both.
DecidesStep   == OnlyYesChanges /\ RefusedOnce
PersonDecides == [][DecidesStep]_vars

(***************************************************************************)
(* Said of this code and not kept (README, Disagreements).                 *)
(***************************************************************************)
\* profile_learn.go: "never replaced on the strength of a conversation alone: ... only Yes changes it".
OnlyYesAlways ==
  [][\A e \in Exchanges, s \in Slots : ReplacesWith(e, s) => learn[e].item.yes]_vars

\* The question said what the value is; "I have your ... as".
YesToWhatIsHeld ==
  [][\A e \in Exchanges, s \in Slots : ReplacesWith(e, s) /\ learn[e].item.yes => learn[e].item.old = held[s]]_vars

\* profile_learn.go, proposeChange: "they said no to this already, in whatever words".
RefusedOnceAlways ==
  [][\A e \in Exchanges : Proposed(e) => <<learn'[e].item.slot, learn'[e].item.value>> \notin past.noes]_vars

\* domain/profile_details.go: "MaxDetailsPerScope bounds one map, so nothing can flood it".
MapIsBounded ==
  \A c \in {Scope[s] : s \in Slots} :
    Cardinality({s \in Slots \ Owned : Scope[s] = c /\ held[s] # NoValue}) <= MaxDetails
=============================================================================

------------------------------- MODULE Proposals -------------------------------
(***************************************************************************)
(* Choices offered under an agent's message, kept until one is chosen       *)
(* (runtime/proposal_host.go, postgres/proposal.go), in one chat of one      *)
(* person.                                                                  *)
(*                                                                         *)
(* Three kinds of goroutine meet in the proposals table: the chat's line,   *)
(* which handles what the person wrote one message at a time (a choice's    *)
(* own words choose it, anything else ends the choices offered before, and  *)
(* the turn may offer new ones); a tap's, which is never in line; and those *)
(* that take buttons off.  Each of their statements is a step.              *)
(***************************************************************************)
EXTENDS Integers, Sequences, FiniteSets

CONSTANTS
  MaxProposals, MaxTyped, MaxTaps,  \* bounds of the model
  Choices                           \* the positions of the buttons

ProposalsConstants ==
  /\ {MaxProposals, MaxTyped, MaxTaps} \subseteq Nat
  /\ IsFiniteSet(Choices) /\ Choices # {} /\ Choices \subseteq Nat \ {0}

Props == 1..MaxProposals       \* by created_at
None  == 0

(* What is in the line: words, the words of a button (both with the place    *)
(* they were written in), or the sentence behind a button that was chosen,   *)
(* with the place of the words that chose it (None: a tap).                   *)
Message ==
  [kind : {"words"}, at : 1..MaxTyped, prop : {None}, choice : {None}] \cup
  [kind : {"label"}, at : 1..MaxTyped, prop : Props, choice : Choices] \cup
  [kind : {"say"}, at : 0..MaxTyped, prop : Props, choice : Choices]
Nothing == [kind |-> "none"]

VARIABLES
  elsewhere, \* fixed: whether choices are offered outside a turn too (OfferChoices)
  state,     \* [Props -> "none", "open", "chosen", "closed"]: the row
  pick,      \* [Props -> the choice, or None]: the row's chosen
  look,      \* [Props -> what the message shows: "none", "buttons", "chosen", "expired", "plain"]
  line,      \* the chat's line
  step,      \* where its worker is
  msg,       \* the message it handles
  found,     \* the proposal it found
  before,    \* history: what was open when it took the message
  taps,      \* {[prop, choice, step]}: taps under way
  removing,  \* proposals whose buttons are being taken off
  typed, tapped,
  heard      \* history: the messages that reached the agent

vars  == <<elsewhere, state, pick, look, line, step, msg, found, before, taps, removing, typed, tapped, heard>>
rows  == <<state, pick>>
here  == <<elsewhere, step, msg, found, before>>
hands == <<taps, removing, tapped>>

TypeOK ==
  /\ elsewhere \in BOOLEAN
  /\ state \in [Props -> {"none", "open", "chosen", "closed"}]
  /\ pick \in [Props -> Choices \cup {None}]
  /\ \A p \in Props : pick[p] # None <=> state[p] = "chosen"
  /\ look \in [Props -> {"none", "buttons", "chosen", "expired", "plain"}]
  /\ \A i \in DOMAIN line : line[i] \in Message
  /\ step \in {"idle", "choose", "retire", "close", "turn", "attach"}
  /\ msg \in Message \cup {Nothing} /\ before \subseteq Props /\ found \in Props \cup {None}
  /\ taps \subseteq [prop : Props, choice : Choices, step : {"choose", "show", "say"}]
  /\ removing \subseteq Props /\ typed \in 0..MaxTyped /\ tapped \in 0..MaxTaps
  /\ \A i \in DOMAIN heard : heard[i] \in Message

Init ==
  /\ elsewhere \in BOOLEAN
  /\ state = [p \in Props |-> "none"] /\ pick = [p \in Props |-> None]
  /\ look = [p \in Props |-> "none"]
  /\ line = <<>> /\ step = "idle" /\ msg = Nothing /\ found = None /\ before = {}
  /\ taps = {} /\ removing = {} /\ typed = 0 /\ tapped = 0 /\ heard = <<>>

-----------------------------------------------------------------------------
(* The statements on the table. *)

Open   == {p \in Props : state[p] = "open"}
Latest == IF Open = {} THEN None ELSE CHOOSE p \in Open : \A q \in Open : q <= p

Choose(p, i) ==
  IF state[p] = "open"
  THEN state' = [state EXCEPT ![p] = "chosen"] /\ pick' = [pick EXCEPT ![p] = i]
  ELSE UNCHANGED rows
Chose(p) == rows' # rows

Close(p) ==
  IF state[p] = "open" THEN state' = [state EXCEPT ![p] = "closed"] /\ UNCHANGED pick
                       ELSE UNCHANGED rows

New == {p \in Props : state[p] = "none" /\ \A q \in 1..(p - 1) : state[q] # "none"}

(* expires_at passes. *)
Expire(p) ==
  /\ state[p] = "open"
  /\ Close(p)
  /\ UNCHANGED <<look, line, here, hands, typed, heard>>

Say(p, i, at) == [kind |-> "say", at |-> at, prop |-> p, choice |-> i]

-----------------------------------------------------------------------------
(* The line. *)

(* The person writes. *)
Type ==
  /\ typed < MaxTyped
  /\ typed' = typed + 1
  /\ \/ line' = Append(line, [kind |-> "words", at |-> typed', prop |-> None, choice |-> None])
     \/ \E p \in Props, i \in Choices :
          /\ look[p] # "none"
          /\ line' = Append(line, [kind |-> "label", at |-> typed', prop |-> p, choice |-> i])
  /\ UNCHANGED <<rows, look, here, hands, heard>>

(* takeTypedChoice: the newest that is open, if these are its words. *)
Take ==
  /\ step = "idle" /\ line # <<>>
  /\ msg' = Head(line) /\ line' = Tail(line)
  /\ found' = Latest /\ before' = Open
  /\ step' = IF msg'.kind = "label" /\ found' = msg'.prop THEN "choose" ELSE "retire"
  /\ UNCHANGED <<elsewhere, rows, look, hands, typed, heard>>

(* A mistake: the words go to the agent as well. *)
ChooseTypedAndGoOn ==
  /\ step = "choose"
  /\ Choose(found, msg.choice)
  /\ line' = IF Chose(found) THEN Append(line, Say(found, msg.choice, msg.at)) ELSE line
  /\ step' = "retire"
  /\ UNCHANGED <<elsewhere, msg, found, before, look, hands, typed, heard>>
ChooseTyped ==
  /\ step = "choose"
  /\ Choose(found, msg.choice)
  /\ IF Chose(found)
     THEN step' = "idle" /\ line' = Append(line, Say(found, msg.choice, msg.at))
     ELSE step' = "retire" /\ UNCHANGED line
  /\ UNCHANGED <<elsewhere, msg, found, before, look, hands, typed, heard>>

(* retireChoices. *)
RetireLook ==
  /\ step = "retire"
  /\ found' = Latest
  /\ step' = IF found' = None THEN "turn" ELSE "close"
  /\ UNCHANGED <<elsewhere, rows, look, line, msg, before, hands, typed, heard>>

Retire ==
  /\ step = "close"
  /\ Close(found)
  /\ step' = "turn" /\ removing' = removing \cup {found}
  /\ UNCHANGED <<elsewhere, look, line, msg, found, before, taps, tapped, typed, heard>>

(* The turn, whose reply may carry choices: they are saved, then shown. *)
Turn ==
  /\ step = "turn"
  /\ heard' = Append(heard, msg)
  /\ \/ step' = "idle" /\ UNCHANGED <<rows, found>>
     \/ \E p \in New : /\ state' = [state EXCEPT ![p] = "open"]
                       /\ step' = "attach" /\ found' = p
                       /\ UNCHANGED pick
  /\ UNCHANGED <<elsewhere, look, line, msg, before, hands, typed>>

Attach ==
  /\ step = "attach"
  /\ step' = "idle"
  /\ look' = [look EXCEPT ![found] = "buttons"]
  /\ UNCHANGED <<elsewhere, rows, line, msg, found, before, hands, typed, heard>>

(* OfferChoices, to a conversation nobody is in right now. *)
Offer(p) ==
  /\ elsewhere /\ p \in New
  /\ state' = [state EXCEPT ![p] = "open"]
  /\ look' = [look EXCEPT ![p] = "buttons"]
  /\ UNCHANGED <<pick, line, here, hands, typed, heard>>

-----------------------------------------------------------------------------
(* Taps, on buttons that are there or were a moment ago. *)

Tap(p, i) ==
  /\ tapped < MaxTaps /\ look[p] # "none"
  /\ tapped' = tapped + 1
  /\ taps' = taps \cup {[prop |-> p, choice |-> i, step |-> "choose"]}
  /\ UNCHANGED <<rows, look, line, here, removing, typed, heard>>

To(t, s) == (taps \ {t}) \cup {[t EXCEPT !.step = s]}

TapChoose(t) ==
  /\ t \in taps /\ t.step = "choose"
  /\ Choose(t.prop, t.choice)
  /\ IF Chose(t.prop)
     THEN taps' = To(t, "show") /\ UNCHANGED look
     ELSE /\ taps' = taps \ {t}
          /\ look' = IF state[t.prop] = "closed" THEN [look EXCEPT ![t.prop] = "expired"] ELSE look
  /\ UNCHANGED <<line, here, removing, tapped, typed, heard>>

TapShow(t) ==
  /\ t \in taps /\ t.step = "show"
  /\ look' = [look EXCEPT ![t.prop] = "chosen"]
  /\ taps' = To(t, "say")
  /\ UNCHANGED <<rows, line, here, removing, tapped, typed, heard>>

TapSay(t) ==
  /\ t \in taps /\ t.step = "say"
  /\ line' = Append(line, Say(t.prop, t.choice, None))
  /\ taps' = taps \ {t}
  /\ UNCHANGED <<rows, look, here, removing, tapped, typed, heard>>

RemoveButtons(p) ==
  /\ p \in removing
  /\ look' = [look EXCEPT ![p] = "plain"]
  /\ removing' = removing \ {p}
  /\ UNCHANGED <<rows, line, here, taps, tapped, typed, heard>>

Works == Take \/ ChooseTyped \/ RetireLook \/ Retire \/ Turn \/ Attach
Taps(t) == TapChoose(t) \/ TapShow(t) \/ TapSay(t)

Next ==
  \/ Type \/ Works
  \/ \E p \in Props : Expire(p) \/ Offer(p) \/ RemoveButtons(p)
  \/ \E p \in Props, i \in Choices : Tap(p, i)
  \/ \E t \in taps : Taps(t)

Spec == Init /\ [][Next]_vars

-----------------------------------------------------------------------------
(* Properties. *)

Says(s, p) == {i \in DOMAIN s : s[i].kind = "say" /\ s[i].prop = p}

(* "Once and only once: of any number of taps at the same moment, exactly one *)
(* gets the proposal back" (domain/proposal.go), and however it was chosen:    *)
(* the sentence of a message's choices goes to the agent once, and it is that  *)
(* of the choice the row keeps.  None is lost between the row and the line.   *)
ChosenOnce ==
  \A p \in Props :
    LET on == Says(line, p)  was == Says(heard, p)  now == step # "idle" /\ msg.kind = "say" /\ msg.prop = p
               /\ step # "attach" IN
    /\ Cardinality(on) + Cardinality(was) + (IF now THEN 1 ELSE 0)
         + Cardinality({t \in taps : t.prop = p /\ t.step # "choose"})
         = IF state[p] = "chosen" THEN 1 ELSE 0
    /\ \A i \in on : line[i].choice = pick[p]
    /\ \A i \in was : heard[i].choice = pick[p]

(* What a person writes reaches the agent once: as it is, or as the sentence   *)
(* of the choice it was.                                                      *)
HeardOnce ==
  \A i, j \in DOMAIN heard : heard[i].at = heard[j].at /\ heard[i].at # None => i = j

(* "Anything else they write ends the choices offered before" (listen.go):     *)
(* when words reach the agent none of the choices offered before are open,     *)
(* where all choices come with replies (retireChoices ends the newest only).   *)
EndsThoseBefore == ~elsewhere /\ step = "turn" => Open \cap before = {}

(* A row says which choice was made exactly if one was, which is said once, and *)
(* what is typed is heard once and ends the choices of the reply before       *)
(* (ChooseProposal, handleChoice, retireChoices).                             *)
ProposalsInv == TypeOK /\ EndsThoseBefore /\ ChosenOnce /\ HeardOnce
-----------------------------------------------------------------------------
(* Said of the code, and not kept by it (README, "Disagreements"). *)

(* "Messages in the SAME conversation are still handled strictly in order"     *)
(* (inbound.go): the words of a choice are heard where they were written.      *)
HeardInOrder ==
  \A i, j \in DOMAIN heard :
    i < j /\ heard[i].at # None /\ heard[j].at # None => heard[i].at < heard[j].at

(* "The message shows what was chosen" (proposal_test.go), and keeps it.       *)
StaysShown == [][\A p \in Props : look[p] = "chosen" => look'[p] = "chosen"]_vars
=============================================================================

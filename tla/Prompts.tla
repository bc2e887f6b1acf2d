-------------------------------- MODULE Prompts --------------------------------
(***************************************************************************)
(* A question with buttons put to a person, and the turn that waits for     *)
(* the answer: choices (runtime/choice.go) and approvals                    *)
(* (runtime/approval.go), which are the same but that words typed instead   *)
(* cut a choice short.                                                      *)
(*                                                                         *)
(* The turn's goroutine registers a token and a channel under the           *)
(* requester's lock, posts the prompt, and waits for the channel or its     *)
(* timeout.  A tap's goroutine takes the token out under the lock and then  *)
(* sends on the channel; so does the goroutine of words typed instead,      *)
(* which has looked the token up first.  A restart forgets all of it; the   *)
(* prompts stay in the chats, and so do their buttons.                      *)
(*                                                                         *)
(* The agent's loop runs one action at a time and a conversation one turn   *)
(* at a time, so a conversation has one question under way at most.         *)
(***************************************************************************)
EXTENDS Integers, FiniteSets

CONSTANTS
  Chats,          \* conversations
  MaxQuestions,   \* bound of the model: questions asked
  Answers,        \* what the buttons say: positions, or yes and no
  CutByWords      \* TRUE: choices; FALSE: approvals

PromptsConstants ==
  /\ IsFiniteSet(Chats) /\ Answers # {} /\ MaxQuestions \in Nat \ {0}
  /\ CutByWords \in BOOLEAN

Questions == 1..MaxQuestions
Tokens    == 1..MaxQuestions
None      == 0
Words     == "words"      \* ChoiceSuperseded, instead of an answer

VARIABLES
  seq,        \* the tokens given out since the server started
  waiters,    \* [Tokens -> the question waiting for it, or None]
  byConv,     \* [Chats -> the token of the question waiting in it, or None]
  question,   \* [Questions -> [step, chat, token, chan, result]], by the order asked
  sends,      \* resolve calls that took a token and have not sent yet: [to, what, from]
  cutting,    \* Supersede calls that have looked a token up
  restarted,
  mayBeLate,  \* fixed: whether a timeout passes between an answer's two steps
  accepted,   \* history: questions one of whose taps was told TRUE
  mixed       \* history: questions that got an answer to another one's prompt

vars == <<seq, waiters, byConv, question, sends, cutting, restarted, mayBeLate, accepted, mixed>>

NotAsked == [step |-> "idle", chat |-> None, token |-> None, chan |-> {}, result |-> {}]
Open     == {"registered", "shown", "posted", "late"}

TypeOK ==
  /\ seq \in 0..MaxQuestions
  /\ waiters \in [Tokens -> Questions \cup {None}]
  /\ byConv \in [Chats -> Tokens \cup {None}]
  /\ \A q \in Questions :
       /\ question[q].step \in {"idle", "ended"} \cup Open
       /\ question[q].chat \in Chats \cup {None} /\ question[q].token \in Tokens \cup {None}
       /\ question[q].chan \subseteq Answers \cup {Words} /\ Cardinality(question[q].chan) <= 1
       /\ question[q].result \subseteq Answers \cup {Words}
  /\ sends \subseteq [to : Questions, what : Answers \cup {Words}, from : Questions \cup {None}]
  /\ cutting \subseteq Tokens
  /\ {restarted, mayBeLate} \subseteq BOOLEAN

Init ==
  /\ seq = 0 /\ waiters = [t \in Tokens |-> None] /\ byConv = [c \in Chats |-> None]
  /\ question = [q \in Questions |-> NotAsked]
  /\ sends = {} /\ cutting = {} /\ restarted = FALSE /\ mayBeLate \in BOOLEAN
  /\ accepted = {} /\ mixed = {}

-----------------------------------------------------------------------------
(* The turn that asks. *)

Asked    == {q \in Questions : question[q].step # "idle"}
Under(c) == {q \in Asked : question[q].chat = c /\ question[q].step # "ended"}
Forgets(t) ==       \* delete(waiters, token), and its byConv entry
  /\ waiters' = [waiters EXCEPT ![t] = None]
  /\ byConv' = [c \in Chats |-> IF byConv[c] = t THEN None ELSE byConv[c]]

Ask(c) ==
  LET q == Cardinality(Asked) + 1 IN
  /\ q \in Questions /\ Under(c) = {}
  /\ seq' = seq + 1
  /\ waiters' = [waiters EXCEPT ![seq'] = q]
  /\ byConv' = IF CutByWords THEN [byConv EXCEPT ![c] = seq'] ELSE byConv
  /\ question' = [question EXCEPT ![q] = [NotAsked EXCEPT !.step = "registered", !.chat = c, !.token = seq']]
  /\ UNCHANGED <<sends, cutting, restarted, mayBeLate, accepted, mixed>>

(* The prompt is in the chat before the call that posts it returns. *)
Post(q) ==
  /\ \/ /\ question[q].step = "registered"
        /\ question' = [question EXCEPT ![q].step = "shown"]
     \/ /\ question[q].step = "shown"
        /\ question' = [question EXCEPT ![q].step = "posted"]
  /\ UNCHANGED <<seq, waiters, byConv, sends, cutting, restarted, mayBeLate, accepted, mixed>>

PostFails(q) ==
  /\ question[q].step = "registered"
  /\ question' = [question EXCEPT ![q].step = "ended"]
  /\ Forgets(question[q].token)
  /\ UNCHANGED <<seq, sends, cutting, restarted, mayBeLate, accepted, mixed>>

(* The two ways out of the wait; after the timeout, cleanup. *)
Answered(q) ==
  /\ question[q].step = "posted" /\ question[q].chan # {}
  /\ question' = [question EXCEPT ![q].step = "ended", ![q].result = question[q].chan]
  /\ UNCHANGED <<seq, waiters, byConv, sends, cutting, restarted, mayBeLate, accepted, mixed>>

TimeOut(q) ==
  /\ question[q].step = "posted"
  /\ mayBeLate \/ (question[q].chan = {} /\ \A s \in sends : s.to # q)
  /\ question' = [question EXCEPT ![q].step = IF mayBeLate THEN "late" ELSE "ended"]
  /\ IF mayBeLate THEN UNCHANGED <<waiters, byConv>> ELSE Forgets(question[q].token)
  /\ UNCHANGED <<seq, sends, cutting, restarted, mayBeLate, accepted, mixed>>

CleanUp(q) ==
  /\ question[q].step = "late"
  /\ question' = [question EXCEPT ![q].step = "ended"]
  /\ Forgets(question[q].token)
  /\ UNCHANGED <<seq, sends, cutting, restarted, mayBeLate, accepted, mixed>>

-----------------------------------------------------------------------------
(* resolve: the token is taken out under the lock; the answer is sent after.  *)

(* A mistake: a tap is told TRUE whatever was found. *)
TakeTrue(t, what, from) ==
  /\ accepted' = IF from = None THEN accepted ELSE accepted \cup {from}
  /\ IF waiters[t] = None
     THEN UNCHANGED <<waiters, byConv, sends>>
     ELSE sends' = sends \cup {[to |-> waiters[t], what |-> what, from |-> from]} /\ Forgets(t)
Take(t, what, from) ==
  IF waiters[t] = None
  THEN UNCHANGED <<waiters, byConv, sends, accepted>>
  ELSE /\ sends' = sends \cup {[to |-> waiters[t], what |-> what, from |-> from]}
       /\ accepted' = IF from = None THEN accepted ELSE accepted \cup {from}
       /\ Forgets(t)

(* A button of a prompt that was posted, whatever has become of the question. *)
Tap(q, a) ==
  /\ question[q].step \in {"shown", "posted", "late", "ended"}
  /\ Take(question[q].token, a, q)
  /\ UNCHANGED <<seq, question, cutting, restarted, mayBeLate, mixed>>

(* The channel has room for one. *)
Send(s) ==
  /\ s \in sends /\ question[s.to].chan = {}
  /\ sends' = sends \ {s}
  /\ question' = [question EXCEPT ![s.to].chan = {s.what}]
  /\ mixed' = IF s.from \in {None, s.to} THEN mixed ELSE mixed \cup {s.to}
  /\ UNCHANGED <<seq, waiters, byConv, cutting, restarted, mayBeLate, accepted>>

(* Supersede: the look, and then resolve. *)

Type(c) ==
  /\ CutByWords /\ byConv[c] # None
  /\ cutting' = cutting \cup {byConv[c]}
  /\ UNCHANGED <<seq, waiters, byConv, question, sends, restarted, mayBeLate, accepted, mixed>>

(* A mistake: the question is forgotten without a word to it. *)
CutSilently(t) ==
  /\ t \in cutting
  /\ cutting' = cutting \ {t} /\ Forgets(t)
  /\ UNCHANGED <<seq, question, sends, restarted, mayBeLate, accepted, mixed>>
Cut(t) ==
  /\ t \in cutting
  /\ cutting' = cutting \ {t}
  /\ Take(t, Words, None)
  /\ UNCHANGED <<seq, question, restarted, mayBeLate, mixed>>

-----------------------------------------------------------------------------
Restart ==
  /\ ~restarted
  /\ restarted' = TRUE
  /\ seq' = 0
  /\ waiters' = [t \in Tokens |-> None] /\ byConv' = [c \in Chats |-> None]
  /\ sends' = {} /\ cutting' = {}
  /\ question' = [q \in Questions |->
       IF question[q].step \in Open THEN [question[q] EXCEPT !.step = "ended"] ELSE question[q]]
  /\ UNCHANGED <<mayBeLate, accepted, mixed>>

Next ==
  \/ \E c \in Chats : Ask(c) \/ Type(c)
  \/ \E q \in Questions : Post(q) \/ PostFails(q) \/ Answered(q) \/ TimeOut(q) \/ CleanUp(q)
  \/ \E q \in Questions, a \in Answers : Tap(q, a)
  \/ \E s \in sends : Send(s)
  \/ \E t \in Tokens : Cut(t)
  \/ Restart

Spec == Init /\ [][Next]_vars

(* The turn goes on, and so do resolve calls.  Nobody has to tap or to type,  *)
(* and no timeout need ever pass: CutShort does not lean on one.              *)
Fairness ==
  /\ WF_vars(\E s \in sends : Send(s)) /\ WF_vars(\E t \in Tokens : Cut(t))
  /\ \A q \in Questions : WF_vars(Post(q) \/ PostFails(q) \/ Answered(q) \/ CleanUp(q))

FairSpec == Spec /\ Fairness

-----------------------------------------------------------------------------
(* Properties. *)

(* Nothing is left of a question that has ended, and what waits in a chat is  *)
(* a question of that chat: the maps do not grow with the questions asked.    *)
NothingLeft ==
  /\ \A t \in Tokens : waiters[t] # None =>
       question[waiters[t]].token = t /\ question[waiters[t]].step \in Open
  /\ \A c \in Chats : byConv[c] # None =>
       waiters[byConv[c]] # None /\ question[waiters[byConv[c]]].chat = c

(* A channel has room for the one answer that is sent on it: no tap's         *)
(* goroutine hangs on a second.                                               *)
NobodyHangs ==
  \A s \in sends : question[s.to].chan = {} /\ \A r \in sends : r.to = s.to => r = s

(* "Words typed while a question is waiting for this person cut the question  *)
(* short" (inbound.go): every question that is shown and open can be found.   *)
CanBeCut ==
  CutByWords => \A q \in Questions :
    question[q].step = "posted" /\ question[q].chan = {} /\ (\A s \in sends : s.to # q)
      => byConv[question[q].chat] = question[q].token

(* "It reports false when no wait matches the token (already answered, timed  *)
(* out, or from before a restart)" (choice.go): an answer is to the question  *)
(* whose button was tapped.                                                   *)
RightAnswer == mixed = {}

(* The same, as long as the server has not restarted: whatever is tapped late *)
(* or twice, no answer reaches a question that another chat, or the same one  *)
(* a moment later, asked.                                                     *)
RightAnswerSince == ~restarted => mixed = {}

(* A tap that was told TRUE is the answer its question got: one that timed    *)
(* out was told FALSE (approval.go: "already resolved, already timed out"),   *)
(* unless the timeout passes between the answer's two steps.                  *)
TrueCounts ==
  ~mayBeLate /\ ~restarted =>
    \A q \in accepted : question[q].step = "ended" => question[q].result # {}

(* Words typed while a question waits end it, however long its timeout: it is *)
(* found and told, or it has just been answered (Supersede); and what was told *)
(* ends.                                                                      *)
Decided(q) ==
  question[q].step \in {"late", "ended"} \/ question[q].chan # {} \/ \E s \in sends : s.to = q
CutShort ==
  /\ [][\A q \in Questions :
          question[q].token \in cutting \ cutting' /\ question[q].step \in Open => Decided(q)']_vars
  /\ []<>(cutting = {} /\ \A q \in Questions : question[q].step \in Open => ~Decided(q))

(* The requester's maps and the open questions agree, both ways, whatever is  *)
(* tapped late, twice or while words cut the question short; no goroutine     *)
(* hangs, and an answer is to its own question (register, cleanUp, resolve). *)
PromptsInv ==
  TypeOK /\ NothingLeft /\ CanBeCut /\ NobodyHangs /\ RightAnswerSince /\ TrueCounts
=============================================================================

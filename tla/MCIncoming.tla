----------------------------- MODULE MCIncoming -----------------------------
(***************************************************************************)
(* Four modules of what comes in, each on an instance of its own: the line  *)
(* of a conversation's messages, the questions a turn waits with, the       *)
(* listeners that feed the line, and the connections of a named worker with  *)
(* the tasks handed to it.  They share no variable, so one behaviour takes   *)
(* the steps of one of them.                                                *)
(***************************************************************************)
EXTENDS Integers, Sequences, FiniteSets

CONSTANTS
  N, MaxEdits, Edits,  \* ConversationLine
  Chats, MaxQuestions, Answers, CutByWords,  \* Prompts
  Identities, Boots, Room, MaxListeners, MaxMessages, Early, Hasty, MayStop,  \* Listeners
  MaxTasks, MaxConns, Deaf  \* Peers

VARIABLES
  part,  \* the module whose steps are taken; the others stay as they began
  words, inbox, disp, line, turn, editors, history, last, stopped, calm, begun, out,
  forgotten,
  seq, waiters, byConv, question, resolving, cutting, restarted, mayBeLate, accepted,
  mixed,
  boot, stopping, cut, wanted, attached, stored, inboxes, listeners, cancels, starts,
  received, handled,
  peer, conn, put, task, work, call, past

Line == INSTANCE ConversationLine
Questions == INSTANCE Prompts WITH sends <- resolving
Listen == INSTANCE Listeners
Peer == INSTANCE Peers

lineVars == <<words, inbox, disp, line, turn, editors, history, last, stopped, calm,
              begun, out, forgotten>>
questionsVars == <<seq, waiters, byConv, question, resolving, cutting, restarted,
                   mayBeLate, accepted, mixed>>
listenVars == <<boot, stopping, cut, wanted, attached, stored, inboxes, listeners,
                cancels, starts, received, handled>>
peersVars == <<peer, conn, put, task, work, call, past>>
vars == <<part, lineVars, questionsVars, listenVars, peersVars>>

ASSUME IncomingConstants ==
  Line!LineConstants /\ Questions!PromptsConstants /\ Listen!ListenersConstants /\ Peer!PeersConstants

Init ==
  /\ part \in {"line", "questions", "listen", "peers"}
  /\ Line!Init /\ Questions!Init /\ Listen!Init /\ Peer!Init
  /\ part # "line" => calm
  /\ part # "questions" => mayBeLate
  /\ part # "listen" => wanted = {}

Next ==
  \/ part = "line" /\ Line!Next /\ UNCHANGED <<part, questionsVars, listenVars, peersVars>>
  \/ part = "questions" /\ Questions!Next /\ UNCHANGED <<part, lineVars, listenVars, peersVars>>
  \/ part = "listen" /\ Listen!Next /\ UNCHANGED <<part, lineVars, questionsVars, peersVars>>
  \/ part = "peers" /\ Peer!Next /\ UNCHANGED <<part, lineVars, questionsVars, listenVars>>

(* The modules' own fairness.  What is fair can be done in the state a module  *)
(* begins in only where it is said that the module takes its steps.          *)
Fairness ==
  /\ Line!Fairness /\ Questions!Fairness /\ Peer!Fairness
  /\ WF_listenVars(part = "listen" /\ Listen!Serve)
  /\ WF_listenVars(Listen!Start) /\ WF_listenVars(Listen!Work)
  /\ \A l \in 1..MaxListeners : WF_listenVars(Listen!Goes(l))

FairSpec == Init /\ [][Next]_vars /\ Fairness

(* The line keeps its order; in a calm world the latest message is answered.  *)
LineInv == part = "line" => Line!LineInv
(* No words are answered twice, though turns are cut and begun again.        *)
NotAnsweredTwice == Line!NotAnsweredTwice
(* Every message gets its turn, and a quiet line is given up.                *)
EveryTurn == Line!EveryTurn

(* The maps of the open questions agree, and answers are to their questions.  *)
PromptsInv == part = "questions" => Questions!PromptsInv
(* Words typed while a question waits end it (Supersede).                    *)
CutShort == Questions!CutShort

(* What listens is wanted, once, in reach, and read.                         *)
ListenersInv == part = "listen" => Listen!ListenersInv
(* No message is lost between a listener, its inbox and its handling, and a  *)
(* server that stops comes to its end.                                       *)
AllHeard == Listen!AllHeard

(* A Dispatch returns its own result only, and a worker that is connected can *)
(* be given tasks (register, unregister).                                    *)
PeersInv == part = "peers" => Peer!PeersInv
(* A task the worker runs is answered while its connection holds (handleConn). *)
Answered == Peer!Answered
=============================================================================

--------------------------- MODULE ConversationLine ---------------------------
(***************************************************************************)
(* One conversation of an agent with a person: its line of messages         *)
(* (runtime/inbound.go), what an edited message does to it                  *)
(* (runtime/editing.go), and the steps of a turn that an edit may meet      *)
(* (Host.handleTurn, runtime/host.go).                                      *)
(*                                                                         *)
(* Three kinds of goroutine share the line under convMu, and the            *)
(* conversation's history and last exchange in the database without a       *)
(* lock: the dispatcher, which takes events off the agent's inbox one at a  *)
(* time; the line's own goroutine, which handles one message after another; *)
(* and one answerEdit for each edit of a message that was answered.         *)
(*                                                                         *)
(* A message is a number, in the order sent; its words are how often it has *)
(* been edited.  A turn whose context is cancelled can neither send nor     *)
(* write to the database any more.                                          *)
(***************************************************************************)
EXTENDS Integers, Sequences, FiniteSets

CONSTANTS
  N,            \* messages are 1..N
  MaxEdits,     \* bound of the model: edits of one message
  Edits         \* messages that are edited

LineConstants ==
  /\ N \in Nat \ {0} /\ MaxEdits \in Nat /\ Edits \subseteq 1..N

Ids   == 1..N
Words == 0..MaxEdits
NoId  == 0
Said  == [id : Ids, words : Words]

VARIABLES
  words,     \* [Ids -> Words or -1]: what the person sees they wrote; -1: not sent yet
  inbox,     \* what the chat app handed on: sequence of [id, words, edited]
  disp,      \* the edit the dispatcher looked up and found not answered, as a set
  line,      \* convQueue: [on, msgs, current]; not on: not in convQueues
  turn,      \* the line's goroutine: [step, msg, cut, changed, fails]
  editors,   \* answerEdit goroutines: set of [step, id, words, changed]
  history,   \* what the memory holds: sequence of Said
  last,      \* the last exchange: [id, words, changed]; id NoId: none
  stopped,   \* CancelTurns was called
  calm,      \* fixed; TRUE: nothing fails or stops, a turn begins the moment its
             \* message leaves the line, and only the last message is edited
  (* History, for the properties: *)
  begun,     \* sequence of Said: turns in the order they began
  out,       \* replies that reached the person: set of Said
  forgotten  \* set of <<forgotten, for the edit of>>: what RewindLastExchange deleted

vars == <<words, inbox, disp, line, turn, editors, history, last, stopped, calm,
          begun, out, forgotten>>

Msg    == [id : Ids, words : Words, lookUps : BOOLEAN]
NoTurn == [step |-> "none", msg |-> {}, cut |-> FALSE, changed |-> FALSE, fails |-> FALSE]
NoLine == [on |-> FALSE, msgs |-> <<>>, current |-> NoId]
NoLast == [id |-> NoId, words |-> 0, changed |-> FALSE]
What(m) == [id |-> m.id, words |-> m.words]

TypeOK ==
  /\ words \in [Ids -> Words \cup {-1}]
  /\ \A i \in DOMAIN inbox : inbox[i] \in [id : Ids, words : Words, edited : BOOLEAN]
  /\ disp \subseteq Said /\ Cardinality(disp) <= 1
  /\ line.on \in BOOLEAN /\ line.current \in Ids \cup {NoId}
  /\ \A i \in DOMAIN line.msgs : line.msgs[i] \in Msg
  /\ turn.step \in {"none", "taken", "running", "keeping", "sending", "noting", "ending"}
  /\ turn.msg \subseteq Msg
  /\ line.on <=> turn.step # "none"
  /\ editors \subseteq [step : {"read", "rewind", "clear", "enqueue"}, id : Ids, words : Words,
                        changed : BOOLEAN]
  /\ \A i \in DOMAIN history : history[i] \in Said
  /\ stopped \in BOOLEAN /\ calm \in BOOLEAN
  /\ last \in [id : Ids \cup {NoId}, words : Words, changed : BOOLEAN]

Init ==
  /\ words = [m \in Ids |-> -1]
  /\ inbox = <<>> /\ disp = {} /\ editors = {}
  /\ line = NoLine /\ turn = NoTurn
  /\ history = <<>> /\ last = NoLast
  /\ stopped = FALSE /\ calm \in BOOLEAN
  /\ begun = <<>> /\ out = {} /\ forgotten = {}

-----------------------------------------------------------------------------
(* The person writes, and changes what they wrote. *)

Write(m) ==
  /\ words[m] = -1 /\ \A k \in Ids : k < m => words[k] # -1
  /\ words' = [words EXCEPT ![m] = 0]
  /\ inbox' = Append(inbox, [id |-> m, words |-> 0, edited |-> FALSE])
  /\ UNCHANGED <<disp, line, turn, editors, history, last, stopped, begun, out, forgotten, calm>>

Edit(m) ==
  /\ m \in Edits /\ (calm => m = N) /\ words[m] \in 0..(MaxEdits - 1)
  /\ words' = [words EXCEPT ![m] = @ + 1]
  /\ inbox' = Append(inbox, [id |-> m, words |-> words[m] + 1, edited |-> TRUE])
  /\ UNCHANGED <<disp, line, turn, editors, history, last, stopped, begun, out, forgotten, calm>>

-----------------------------------------------------------------------------
(* enqueueInbound: a busy line is joined, an idle one is started.           *)

Begin(m) == [NoTurn EXCEPT !.step = IF calm THEN "running" ELSE "taken", !.msg = {m}]
CurrentOf(m) == IF calm THEN m.id ELSE NoId
Begun(m) == IF calm THEN Append(begun, What(m)) ELSE begun

Enqueue(m) ==
  IF line.on
  THEN /\ line' = [line EXCEPT !.msgs = Append(@, m)]
       /\ UNCHANGED <<turn, begun>>
  ELSE /\ line' = [on |-> TRUE, msgs |-> <<>>, current |-> CurrentOf(m)]
       /\ turn' = Begin(m)
       /\ begun' = Begun(m)

Plain(e)  == [id |-> e.id, words |-> e.words, lookUps |-> FALSE]
Editor(e) == [step |-> "read", id |-> e.id, words |-> e.words, changed |-> FALSE]

(* dispatchInbound; for an edit, the first half of dispatchEdit: what the    *)
(* database says was answered last.                                          *)
Dispatch ==
  LET e == Head(inbox) IN
  /\ inbox # <<>> /\ disp = {}
  /\ inbox' = Tail(inbox)
  /\ IF ~e.edited
     THEN Enqueue(Plain(e)) /\ UNCHANGED <<disp, editors>>
     ELSE /\ IF last.id = e.id /\ ~stopped
             THEN editors' = editors \cup {Editor(e)} /\ UNCHANGED disp
             ELSE disp' = {What(e)} /\ UNCHANGED editors
          /\ UNCHANGED <<line, turn, begun>>
  /\ UNCHANGED <<words, history, last, stopped, out, forgotten, calm>>

Waiting(e) == {i \in DOMAIN line.msgs : line.msgs[i].id = e.id}
FirstOf(S) == CHOOSE i \in S : \A j \in S : i <= j

(* The second half of dispatchEdit, under convMu: the message waits, or is   *)
(* being handled, or neither.                                                *)
(* A mistake: the new words of a waiting message join the end of the line. *)
DispatchEditLast ==
  \E e \in disp :
    /\ disp' = {}
    /\ IF Waiting(e) # {}
       THEN line' = [line EXCEPT !.msgs = Append(SelectSeq(@, LAMBDA x : x.id # e.id), Plain(e))]
       ELSE UNCHANGED line
    /\ UNCHANGED <<words, inbox, turn, editors, history, last, stopped, begun, out, forgotten, calm>>
(* A mistake: no return once the turn was cut. *)
DispatchEditBoth ==
  \E e \in disp :
    /\ disp' = {}
    /\ editors' = editors \cup {Editor(e)}
    /\ IF line.on /\ line.current = e.id
       THEN /\ line' = [line EXCEPT !.msgs = <<Plain(e)>> \o @]
            /\ turn' = [turn EXCEPT !.cut = TRUE]
       ELSE UNCHANGED <<line, turn>>
    /\ UNCHANGED <<words, inbox, history, last, stopped, begun, out, forgotten, calm>>
DispatchEdit ==
  \E e \in disp :
    /\ disp' = {}
    /\ IF Waiting(e) # {}
       THEN /\ line' = [line EXCEPT !.msgs[FirstOf(Waiting(e))].words = e.words]
            /\ UNCHANGED <<turn, editors>>
       ELSE IF line.on /\ line.current = e.id
       THEN /\ line' = [line EXCEPT !.msgs = <<Plain(e)>> \o @]
            /\ turn' = [turn EXCEPT !.cut = TRUE]
            /\ UNCHANGED editors
       ELSE /\ editors' = editors \cup {Editor(e)}
            /\ UNCHANGED <<line, turn>>
    /\ UNCHANGED <<words, inbox, history, last, stopped, begun, out, forgotten, calm>>

-----------------------------------------------------------------------------
(* The line's goroutine. *)

Ctx == ~turn.cut /\ ~stopped     \* the turn's context still stands

StartTurn ==
  /\ turn.step = "taken"
  /\ turn' = [turn EXCEPT !.step = "running"]
  /\ \E m \in turn.msg : line' = [line EXCEPT !.current = m.id] /\ begun' = Append(begun, What(m))
  /\ UNCHANGED <<words, inbox, disp, editors, history, last, stopped, out, forgotten, calm>>

(* The agent's loop, up to the first question whether the turn was edited.   *)
(* A turn with look-ups only changes nothing.                                *)
Run ==
  \E m \in turn.msg, changed, fails \in BOOLEAN :
    /\ turn.step = "running"
    /\ m.lookUps => ~changed
    /\ fails => ~calm \/ ~Ctx
    /\ stopped /\ ~turn.cut => fails
    /\ turn' = [turn EXCEPT !.step = IF turn.cut THEN "ending" ELSE "keeping",
                            !.changed = changed, !.fails = fails]
    /\ UNCHANGED <<words, inbox, disp, line, editors, history, last, stopped, begun, out, forgotten, calm>>

(* Memory.Append. *)
Keep ==
  \E m \in turn.msg :
    /\ turn.step = "keeping"
    /\ history' = IF Ctx THEN Append(history, What(m)) ELSE history
    /\ turn' = [turn EXCEPT !.step = "sending"]
    /\ UNCHANGED <<words, inbox, disp, line, editors, last, stopped, begun, out, forgotten, calm>>

(* The second question whether it was edited, and the reply; a turn that     *)
(* failed sends words saying so, and notes no exchange.                      *)
Send ==
  \E m \in turn.msg :
    /\ turn.step = "sending"
    /\ out' = IF Ctx /\ ~turn.fails THEN out \cup {What(m)} ELSE out
    /\ turn' = [turn EXCEPT !.step = IF Ctx /\ ~turn.fails THEN "noting" ELSE "ending"]
    /\ UNCHANGED <<words, inbox, disp, line, editors, history, last, stopped, begun, forgotten, calm>>

(* noteExchange. *)
Note ==
  \E m \in turn.msg :
    /\ turn.step = "noting"
    /\ last' = IF Ctx THEN [id |-> m.id, words |-> m.words, changed |-> turn.changed] ELSE last
    /\ turn' = [turn EXCEPT !.step = "ending"]
    /\ UNCHANGED <<words, inbox, disp, line, editors, history, stopped, begun, out, forgotten, calm>>

(* A mistake: the line ends with its message, whatever waits. *)
EndTurnAlways ==
  /\ turn.step = "ending"
  /\ line' = NoLine /\ turn' = NoTurn /\ UNCHANGED begun
  /\ UNCHANGED <<words, inbox, disp, editors, history, last, stopped, out, forgotten, calm>>
(* The next message, or the end of the line. *)
EndTurn ==
  /\ turn.step = "ending"
  /\ IF line.msgs = <<>> \/ stopped
     THEN line' = NoLine /\ turn' = NoTurn /\ UNCHANGED begun
     ELSE LET m == Head(line.msgs) IN
          /\ line' = [line EXCEPT !.msgs = Tail(@), !.current = CurrentOf(m)]
          /\ turn' = Begin(m)
          /\ begun' = Begun(m)
  /\ UNCHANGED <<words, inbox, disp, editors, history, last, stopped, out, forgotten, calm>>

-----------------------------------------------------------------------------
(* answerEdit, a goroutine for each edit. *)

Becomes(x, y) == editors' = (editors \ {x}) \cup {y}

(* LastExchange: not the last message any more, or the same words, ends it;  *)
(* else the old exchange is forgotten, unless it changed something.          *)
ReadLast(x) ==
  /\ x.step = "read"
  /\ IF last.id # x.id \/ last.words = x.words \/ stopped
     THEN editors' = editors \ {x}
     ELSE Becomes(x, [x EXCEPT !.step = IF last.changed THEN "enqueue" ELSE "rewind",
                               !.changed = last.changed])
  /\ UNCHANGED <<words, inbox, disp, line, turn, history, last, stopped, begun, out, forgotten, calm>>

(* RewindLastExchange, its two statements: from the person's latest message  *)
(* on, and the exchange itself.                                              *)
Rewind(x) ==
  /\ x.step = "rewind"
  /\ \/ /\ ~stopped
        /\ history' = SubSeq(history, 1, Len(history) - 1)
        /\ forgotten' = forgotten \cup {<<history[i], x.id>> : i \in DOMAIN history \cap {Len(history)}}
        /\ Becomes(x, [x EXCEPT !.step = "clear"])
     \/ /\ ~calm \/ stopped
        /\ editors' = editors \ {x}
        /\ UNCHANGED <<history, forgotten>>
  /\ UNCHANGED <<words, inbox, disp, line, turn, last, stopped, begun, out, calm>>

Clear(x) ==
  /\ x.step = "clear"
  /\ \/ ~stopped /\ last' = NoLast /\ Becomes(x, [x EXCEPT !.step = "enqueue"])
     \/ (~calm \/ stopped) /\ editors' = editors \ {x} /\ UNCHANGED last
  /\ UNCHANGED <<words, inbox, disp, line, turn, history, stopped, begun, out, forgotten, calm>>

Requeue(x) ==
  /\ x.step = "enqueue"
  /\ editors' = editors \ {x}
  /\ Enqueue([id |-> x.id, words |-> x.words, lookUps |-> x.changed])
  /\ UNCHANGED <<words, inbox, disp, history, last, stopped, out, forgotten, calm>>

CancelTurns ==
  /\ ~calm /\ ~stopped
  /\ stopped' = TRUE
  /\ UNCHANGED <<words, inbox, disp, line, turn, editors, history, last, begun, out, forgotten, calm>>

Turn == StartTurn \/ Run \/ Keep \/ Send \/ Note \/ EndTurn
AnswerEdit == \E x \in editors : ReadLast(x) \/ Rewind(x) \/ Clear(x) \/ Requeue(x)

Next ==
  \/ \E m \in Ids : Write(m) \/ Edit(m)
  \/ Dispatch \/ DispatchEdit
  \/ Turn
  \/ AnswerEdit
  \/ CancelTurns

Spec == Init /\ [][Next]_vars

(* The host's goroutines go on; nobody has to write, edit or stop.           *)
Fairness == WF_vars(Dispatch) /\ WF_vars(DispatchEdit) /\ WF_vars(Turn) /\ WF_vars(AnswerEdit)

FairSpec == Spec /\ Fairness

-----------------------------------------------------------------------------
(* Properties. *)

Quiet == inbox = <<>> /\ disp = {} /\ ~line.on /\ editors = {}

(* "Messages in the SAME conversation are still handled strictly in order"   *)
(* (inbound.go): a message first gets its turn after all that were sent      *)
(* before it, whatever is edited meanwhile.                                  *)
First(m) == {i \in DOMAIN begun : begun[i].id = m /\ \A j \in 1..(i - 1) : begun[j].id # m}
InOrder ==
  \A m, k \in Ids : m < k => \A i \in First(m), j \in First(k) : i < j

(* No words of the person's are answered twice, though turns are cut and     *)
(* begun again.                                                              *)
NotAnsweredTwice ==
  [][\A m \in turn.msg : turn.step = "sending" /\ turn'.step = "noting" => What(m) \notin out]_vars

(* Every message gets its turn, and a line that has gone quiet is given up   *)
(* ("a conversation that has gone quiet holds nothing", inbound.go).         *)
EveryTurn ==
  []<>(Quiet /\ \A m \in Ids : words[m] # -1 => stopped \/ \E i \in DOMAIN begun : begun[i].id = m)

(* "Still waiting, the new words take its place; being answered, that reply  *)
(* is dropped and the new words answered" (domain/editing.go), and so on: in *)
(* a calm world, when all is quiet, the latest message has been answered as  *)
(* it now reads, if it was edited once at most.                              *)
Latest(m) == words[m] # -1 /\ \A k \in Ids : k > m => words[k] = -1
AsItReads(m) == [id |-> m, words |-> words[m]] \in out
LatestAnswered == calm /\ Quiet => \A m \in Ids : Latest(m) /\ words[m] <= 1 => AsItReads(m)

(* The line keeps its types and its order, and the latest message is answered *)
(* as it reads in the end (enqueueInbound, dispatchEdit, answerEdit).        *)
LineInv == TypeOK /\ InOrder /\ LatestAnswered
-----------------------------------------------------------------------------
(* Said of the code, and not kept by it (README, "Disagreements"). *)

(* An edit makes the host forget nothing but the exchange it edits           *)
(* (RewindLastExchange: "an edit's new answer takes their place").           *)
OnlyEditedForgotten == \A f \in forgotten : f[1].id = f[2]

(* "Answered with look-ups only, answered again in the old reply's place"    *)
(* (domain/editing.go:13): so the latest message is answered as it reads     *)
(* however often it was edited.  But the edit that is read while the one     *)
(* before it has its exchange forgotten and is not in line yet, finds no     *)
(* exchange, and answerEdit returns.                                         *)
LatestAnsweredAlways == calm /\ Quiet => \A m \in Ids : Latest(m) => AsItReads(m)
=============================================================================

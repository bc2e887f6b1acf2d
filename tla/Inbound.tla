------------------------------- MODULE Inbound -------------------------------
(***************************************************************************)
(* What becomes of a message a person writes to an agent, before and       *)
(* around its turn: recognised or not, welcomed, taken as the reply to     *)
(* something the chat was asked, held back until an account is connected,  *)
(* or answered (runtime/listen.go); and the connect gate with the requests *)
(* it holds and replays (runtime/host.go, getting_started.go, postgres/    *)
(* pending_turn.go, domain/hydrate.go).                                    *)
(*                                                                         *)
(* One person writes to one agent in several chats.  A chat's messages are *)
(* handled one at a time; taps, the callback of a sign-in and a replayed   *)
(* request run beside them.  What is kept in memory is lost when the       *)
(* server stops, and so is what was being handled.                         *)
(***************************************************************************)
EXTENDS Integers, FiniteSets

CONSTANTS Chats,
          Kinds,       \* what may be written: of AllKinds
          TapKinds,    \* what may be tapped: of "link", "instructions", "app"
          MaxMessages,   \* bound: messages written
          MaxEvents,     \* bound: taps, sign-ins, long waits, restarts, and statements that fail
          MaxCalls,      \* bound: calls of a turn to tools that need the connection
          NoMsg

AllKinds == {"hello", "start", "elsewhere", "email", "skip", "words", "settings"}
Ids == 1 .. MaxMessages

\* A message is not a chat, and none of them is no message.
ASSUME InboundConstants ==
  /\ Kinds \subseteq AllKinds
  /\ TapKinds \subseteq {"link", "instructions", "app"}
  /\ {MaxMessages, MaxEvents, MaxCalls} \subseteq Nat
  /\ Chats \cap Ids = {}
  /\ NoMsg \notin Ids \cup {0}

Procs == Chats \cup Ids      \* a chat's line, and the goroutine that replays a held request

VARIABLES db,      \* what is stored about the person and their chats
          mem,     \* what this process remembers
          run,     \* [Procs -> handling a message]
          tap,     \* [Chats -> a button's callback]
          conn,    \* OnIntegrationConnected
          past     \* history, and the counters that bound it

vars == <<db, mem, run, tap, conn, past>>

Idle == [pc |-> "idle"]
Busy(p) == run[p].pc # "idle"
At(p, pc) == run[p].pc = pc
Go(p, pc) == run' = [run EXCEPT ![p].pc = pc]
Done(p) == run' = [run EXCEPT ![p] = Idle]
Kind(p) == run[p].kind
Chat(p) == run[p].chat
NothingHeld == [msg |-> NoMsg]

\* A statement that fails, its error logged and nothing done about it.
Room == past.events < MaxEvents
Failed == past' = [past EXCEPT !.events = @ + 1, !.faults = TRUE]

\* Who answered a message, or what became of it.
Fate(p, what) == past' = [past EXCEPT !.fate[run[p].msg] = @ \cup {what}]

(***************************************************************************)
(* handleInboundSafely, for what a person writes.                          *)
(***************************************************************************)
\* "due": written after this chat was asked for an email address.
Write(c, k) ==
  /\ ~Busy(c)
  /\ past.sent < MaxMessages
  /\ past' = [past EXCEPT !.sent = @ + 1]
  /\ run' = [run EXCEPT ![c] = [pc |-> "who", msg |-> past.sent + 1, kind |-> k, chat |-> c, due |-> past.asked[c],
                                notice |-> FALSE, signedIn |-> FALSE, calls |-> 0]]
  /\ UNCHANGED <<db, mem, tap, conn>>

\* Not ready, a redeemed link code, or unknown and not provisioned: told so, and no more.
TurnAway(c) ==
  /\ At(c, "who")
  /\ \E linked \in {db.linked[c], TRUE} : db' = [db EXCEPT !.linked[c] = linked]
  /\ Done(c)
  /\ UNCHANGED <<mem, tap, conn, past>>

\* A handed-over chat's code or a typed choice (elsewhere in this development), then takeLinkElsewhere.
FirstEars(c) ==
  /\ At(c, "who")                                            \* known: userChannelResolver or autoProvisioner
  /\ \/ /\ Kind(c) = "words"
        /\ Fate(c, "choice")
        /\ Done(c)
        /\ db' = [db EXCEPT !.linked[c] = TRUE] /\ UNCHANGED mem
     \/ /\ Kind(c) = "elsewhere"
        /\ mem' = [mem EXCEPT !.email[c] = "fresh"]
        /\ db' = [db EXCEPT !.linked[c] = TRUE, !.email[c] = "awaiting"]
        /\ past' = [past EXCEPT !.fate[run[c].msg] = @ \cup {"elsewhere"}, !.asked[c] = TRUE]
        /\ Done(c)
     \/ /\ Kind(c) # "elsewhere"
        /\ db' = [db EXCEPT !.linked[c] = TRUE]
        /\ Go(c, "welcome")
        /\ UNCHANGED <<mem, past>>
  /\ UNCHANGED <<tap, conn>>

\* noticeFor gives the notice the first time only; it goes into the welcome, or is sent on its own, but to Start,
\* pressed again, nothing is answered.
Welcome(c) ==
  /\ At(c, "welcome")
  /\ \/ /\ db.onboarded[c]
        /\ db' = [db EXCEPT !.noticed = TRUE]
        /\ IF Kind(c) = "start" THEN Done(c) /\ UNCHANGED past
           ELSE Go(c, "look") /\ past' = [past EXCEPT !.told = @ \/ ~db.noticed]
     \/ /\ ~db.onboarded[c]                                 \* the completer comes before the greeting
        /\ \E ok \in BOOLEAN :
             /\ ok \/ Room
             /\ db' = [db EXCEPT !.onboarded[c] = ok, !.noticed = TRUE]
             /\ run' = [run EXCEPT ![c].notice = ~db.noticed, ![c].pc = "greet"]
             /\ IF ok THEN UNCHANGED past ELSE Failed
  /\ UNCHANGED <<mem, tap, conn>>

\* The welcome is answer enough for a hello, or for Start.
Greet(c) ==
  /\ At(c, "greet")
  /\ run' = IF Kind(c) \in {"hello", "start"} THEN [run EXCEPT ![c] = Idle]
            ELSE [run EXCEPT ![c].notice = FALSE, ![c].pc = "look"]
  /\ past' = [past EXCEPT !.told = @ \/ run[c].notice, !.greeted[c] = @ + 1]
  /\ UNCHANGED <<db, mem, tap, conn>>

(***************************************************************************)
(* "Send me your email": awaitingEmail and handleEmailLinkReply.           *)
(***************************************************************************)
(* A mistake: what the database says is not looked at. *)
memoryOnly(c) == mem.email[c] = "fresh"

\* In this process, or as saved in the database; a wait that lapsed is forgotten.
awaitingEmail(c) == mem.email[c] = "fresh" \/ db.email[c] = "awaiting"

LookForEmail(c) ==
  /\ At(c, "look")
  /\ IF awaitingEmail(c) THEN Go(c, "take") /\ UNCHANGED past
     ELSE /\ Go(c, "active")
          /\ past' = [past EXCEPT !.missed = @ \/ run[c].due]
  /\ mem' = [mem EXCEPT !.email[c] = IF @ = "fresh" THEN @ ELSE "no"]
  /\ UNCHANGED <<db, tap, conn>>

\* "skip" and an address end the wait; anything else is asked for again, and waited for in memory alone.
handleEmailLinkReply(c) ==
  /\ At(c, "take")
  /\ \/ Kind(c) = "skip" /\ Go(c, "skipped") /\ mem' = [mem EXCEPT !.email[c] = "no"]
     \/ Kind(c) = "email" /\ Go(c, "initiate") /\ mem' = [mem EXCEPT !.email[c] = "no"]
     \/ Kind(c) \notin {"skip", "email"} /\ Done(c) /\ mem' = [mem EXCEPT !.email[c] = "fresh"]
  /\ past' = [past EXCEPT !.fate[run[c].msg] = @ \cup {"email"},
                          !.asked[c] = Kind(c) \notin {"skip", "email"},
                          !.rearmed[c] = Kind(c) \notin {"skip", "email"},
                          !.crossed = @ \/ tap[c] \in {"link-db", "link-say"}]
  /\ UNCHANGED <<db, tap, conn>>

SettleEmail(c) ==
  /\ Done(c)
  /\ \/ At(c, "skipped") /\ db' = [db EXCEPT !.email[c] = "skipped"] /\ UNCHANGED past
     \/ At(c, "initiate") /\ db' = [db EXCEPT !.email[c] = "sent"] /\ UNCHANGED past
     \/ At(c, "initiate") /\ Room /\ UNCHANGED db             \* "Please try again": the wait in the database goes on
        /\ past' = [past EXCEPT !.events = @ + 1, !.faults = TRUE, !.asked[c] = db.email[c] = "awaiting"]
  /\ UNCHANGED <<mem, tap, conn>>

(***************************************************************************)
(* What the person has to connect, replies to the instruction prompts, the *)
(* settings, and the turn.                                                 *)
(***************************************************************************)
\* setupChecker, and the link for what is missing: without one, they are told so.
SetupCheck(c) ==
  /\ At(c, "active")
  /\ IF db.required /\ ~db.connected
     THEN \/ Go(c, "hold") /\ UNCHANGED past
          \/ Done(c) /\ Fate(c, "told")
     ELSE Go(c, "reply") /\ UNCHANGED past
  /\ UNCHANGED <<db, mem, tap, conn>>

\* holdTurn: in the database, a newer one in an older one's place; in memory, if that fails.
holdTurn(p) ==
  \/ /\ db' = [db EXCEPT !.held = [msg |-> run[p].msg, chat |-> Chat(p), old |-> FALSE]]
     /\ past' = [past EXCEPT !.holds[run[p].msg] = @ + 1]
     /\ UNCHANGED mem
  \/ /\ Room
     /\ mem' = [mem EXCEPT !.held = [msg |-> run[p].msg, chat |-> Chat(p), old |-> FALSE]]
     /\ past' = [past EXCEPT !.events = @ + 1, !.faults = TRUE, !.inMemory = TRUE, !.holds[run[p].msg] = @ + 1]
     /\ UNCHANGED db

\* Held, and then asked to connect.
HoldAtSetup(c) ==
  /\ At(c, "hold")
  /\ holdTurn(c)
  /\ Done(c)
  /\ UNCHANGED <<tap, conn>>

\* handleTurn: what the person has connected is looked up once, as it begins.
Begin(p) ==
  /\ run' = [run EXCEPT ![p].signedIn = db.connected, ![p].pc = "turn"]
  /\ Fate(p, "agent")

\* pendingInstructions, else pendingAppInstructions: the next words are the reply, whether or not they can be saved.
TakeInstructions(c) ==
  /\ At(c, "reply")
  /\ \/ /\ mem.instructions[c]
        /\ mem' = [mem EXCEPT !.instructions[c] = FALSE]
        /\ \E ok \in BOOLEAN : (ok \/ Room) /\ db' = [db EXCEPT !.instructions = IF ok THEN run[c].msg ELSE @]
             /\ past' = [past EXCEPT !.fate[run[c].msg] = @ \cup {"instructions"},
                                     !.events = IF ok THEN @ ELSE @ + 1, !.faults = @ \/ ~ok]
        /\ Done(c)
     \/ /\ ~mem.instructions[c] /\ mem.app[c]
        /\ mem' = [mem EXCEPT !.app[c] = FALSE]
        /\ \E ok \in BOOLEAN : (ok \/ Room) /\ db' = [db EXCEPT !.app = IF ok THEN run[c].msg ELSE @]
             /\ past' = [past EXCEPT !.fate[run[c].msg] = @ \cup {"app"}, !.events = IF ok THEN @ ELSE @ + 1, !.faults = @ \/ ~ok]
        /\ Done(c)
     \/ /\ ~mem.instructions[c] /\ ~mem.app[c]
        /\ IF Kind(c) = "settings" THEN Done(c) /\ UNCHANGED past ELSE Begin(c)
        /\ UNCHANGED <<db, mem>>
  /\ UNCHANGED <<tap, conn>>

\* The turn of a request that was held.
HandleTurn(p) ==
  /\ At(p, "begin")
  /\ Begin(p)
  /\ UNCHANGED <<db, mem, tap, conn>>

EndTurn(p) ==
  /\ At(p, "turn")
  /\ Done(p)
  /\ UNCHANGED <<db, mem, tap, conn, past>>

(***************************************************************************)
(* The connect gate of a tool (withAuthGate, resolveConnectRequester).     *)
(***************************************************************************)
\* A call goes through; or there is no link to offer, and the agent is told so (nothing is held); or to the prompt.
withAuthGate(p) ==
  /\ At(p, "turn")
  /\ run[p].calls < MaxCalls
  /\ \E pc \in {"turn", "gate"} :
       /\ run[p].signedIn => pc = "turn"
       /\ run' = [run EXCEPT ![p].calls = @ + 1, ![p].pc = pc]
  /\ UNCHANGED <<db, mem, tap, conn, past>>

(* A mistake: what was sent is not written down. *)
notRecorded(p) ==
  /\ At(p, "gate")
  /\ ~mem.cooling
  /\ Go(p, "keep")
  /\ past' = [past EXCEPT !.again = @ \/ past.recent, !.recent = TRUE]
  /\ UNCHANGED <<db, mem, tap, conn>>

\* Under the lock: one prompt in thirty seconds, delivered before the request is held; without one it is held all
\* the same.
shouldSendConnectPrompt(p) ==
  /\ At(p, "gate")
  /\ Go(p, "keep")
  /\ IF mem.cooling THEN UNCHANGED <<mem, past>>
     ELSE /\ mem' = [mem EXCEPT !.cooling = TRUE]
          /\ past' = [past EXCEPT !.again = @ \/ past.recent, !.recent = TRUE]
  /\ UNCHANGED <<db, tap, conn>>

storePending(p) ==
  /\ At(p, "keep")
  /\ holdTurn(p)
  /\ Go(p, "turn")
  /\ UNCHANGED <<tap, conn>>

\* The person signs in, or takes the connection away; a sign-in calls OnIntegrationConnected.
SignIn ==
  /\ conn.pc = "idle" /\ ~db.connected
  /\ Room
  /\ db' = [db EXCEPT !.connected = TRUE]
  /\ conn' = [pc |-> "take"]
  /\ past' = [past EXCEPT !.events = @ + 1]
  /\ UNCHANGED <<mem, run, tap>>

Disconnect ==
  /\ db.connected /\ conn.pc = "idle"
  /\ db' = [db EXCEPT !.connected = FALSE]
  /\ UNCHANGED <<mem, run, tap, conn, past>>

\* Somebody found it not connected, and has not held the request yet.
Between(p) == run[p].pc \in {"hold", "gate", "keep"} \/ (run[p].pc = "turn" /\ ~run[p].signedIn)

\* In a goroutine of its own; dropped if the agent is not registered any more.
CarryOut(h) ==
  /\ \/ run' = [run EXCEPT ![h.msg] = [pc |-> "begin", msg |-> h.msg, kind |-> "words", chat |-> h.chat,
                                        due |-> FALSE, notice |-> FALSE, signedIn |-> FALSE, calls |-> 0]]
     \/ UNCHANGED run
  /\ past' = [past EXCEPT !.replays[h.msg] = IF run' = run THEN @ ELSE @ + 1, !.stale = @ \/ (run' # run /\ h.old),
                          !.early = @ \/ \E p \in Procs : Between(p)]

\* TakePendingTurn gives the row back unless it is older than thirty minutes.
Fresh(h) == h.msg # NoMsg /\ ~h.old

(* A mistake: the row is read, and stays. *)
ReadPendingTurn == UNCHANGED db

\* It deletes it in any case.
TakePendingTurn == db' = [db EXCEPT !.held = NothingHeld]

\* takeTurn, in the database and then in memory.  A request already being replayed is not asked for again (bound).
takeTurn ==
  /\ conn.pc \in {"take", "memory"}
  /\ \/ /\ conn.pc = "take"
        /\ TakePendingTurn
        /\ IF Fresh(db.held)
           THEN ~Busy(db.held.msg) /\ CarryOut(db.held) /\ conn' = Idle
           ELSE conn' = [pc |-> "memory"]
                /\ past' = [past EXCEPT !.early = @ \/ \E p \in Procs : Between(p)] /\ UNCHANGED run
        /\ UNCHANGED mem
     \/ /\ conn.pc = "memory"
        /\ mem' = [mem EXCEPT !.held = NothingHeld]
        /\ conn' = Idle                                     \* else the chats are told that it is connected
        /\ IF mem.held.msg = NoMsg THEN UNCHANGED <<run, past>>
           ELSE ~Busy(mem.held.msg) /\ CarryOut(mem.held)
        /\ UNCHANGED db
  /\ UNCHANGED tap

(***************************************************************************)
(* Buttons of the settings menu that ask for words.                        *)
(***************************************************************************)
Tap(c, k) ==
  /\ tap[c] = "idle"
  /\ Room
  /\ db.linked[c] /\ db.onboarded[c]                        \* the menu is there once they have chatted
  /\ tap' = [tap EXCEPT ![c] = k]
  /\ past' = [past EXCEPT !.events = @ + 1]
  /\ UNCHANGED <<db, mem, run, conn>>

InEmail(c) == run[c].pc \in {"look", "take", "skipped", "initiate"}

\* Waited for in memory, then in the database, then asked.
handleLinkAccountCallback(c) ==
  /\ \/ /\ tap[c] = "link"
        /\ mem' = [mem EXCEPT !.email[c] = "fresh"]
        /\ tap' = [tap EXCEPT ![c] = "link-db"]
        /\ UNCHANGED db
     \/ /\ tap[c] = "link-db"
        /\ db' = [db EXCEPT !.email[c] = "awaiting"]
        /\ tap' = [tap EXCEPT ![c] = "link-say"]
        /\ UNCHANGED mem
     \/ /\ tap[c] = "link-say"
        /\ tap' = [tap EXCEPT ![c] = "idle"]
        /\ UNCHANGED <<db, mem>>
  /\ past' = [past EXCEPT !.asked[c] = @ \/ tap[c] = "link-say",
                          !.rearmed[c] = @ /\ tap[c] # "link-db",
                          !.crossed = @ \/ InEmail(c)]
  /\ UNCHANGED <<run, conn>>

\* handleInstructionsSubmission: a dialog's text, in a message of its own beside the line.
handleInstructionsSubmission(c) ==
  /\ tap[c] = "submission"
  /\ tap' = [tap EXCEPT ![c] = "idle"]
  /\ \/ db' = [db EXCEPT !.instructions = 0] /\ UNCHANGED past
     \/ Room /\ Failed /\ UNCHANGED db
  /\ UNCHANGED <<mem, run, conn>>

\* Asked in a dialog; or in the chat, asked first, and waited for once that has returned.
handleInstructionsCallback(c) ==
  /\ \/ /\ tap[c] = "instructions"
        /\ \E next \in {"instructions-wait", "submission"} : tap' = [tap EXCEPT ![c] = next]
        /\ past' = [past EXCEPT !.prompted[c] = past.sent]
        /\ UNCHANGED mem
     \/ /\ tap[c] = "instructions-wait"
        /\ tap' = [tap EXCEPT ![c] = "idle"]
        /\ mem' = [mem EXCEPT !.instructions[c] = TRUE]
        /\ UNCHANGED past
  /\ UNCHANGED <<db, run, conn>>

handleAppInstructionsCallback(c) ==
  /\ \/ /\ tap[c] = "app"
        /\ tap' = [tap EXCEPT ![c] = "app-wait"]
        /\ UNCHANGED mem
     \/ /\ tap[c] = "app-wait"
        /\ tap' = [tap EXCEPT ![c] = "idle"]
        /\ mem' = [mem EXCEPT !.app[c] = TRUE]
  /\ UNCHANGED <<db, run, conn, past>>

(***************************************************************************)
(* Time, and restarts.                                                     *)
(***************************************************************************)
HalfAMinute ==
  /\ mem.cooling
  /\ mem' = [mem EXCEPT !.cooling = FALSE]
  /\ past' = [past EXCEPT !.recent = FALSE]
  /\ UNCHANGED <<db, run, tap, conn>>

\* More than thirty minutes in which nothing is handled: waits for an address lapse, and held requests grow old.
LongWait ==
  /\ Room
  /\ \A p \in Procs : ~Busy(p)
  /\ conn = Idle /\ \A c \in Chats : tap[c] = "idle"
  /\ db' = [db EXCEPT !.held = IF @.msg = NoMsg THEN @ ELSE [@ EXCEPT !.old = TRUE],
                      !.email = [c \in Chats |-> IF @[c] = "awaiting" THEN "lapsed" ELSE @[c]]]
  /\ mem' = [mem EXCEPT !.held = IF @.msg = NoMsg THEN @ ELSE [@ EXCEPT !.old = TRUE], !.cooling = FALSE,
                        !.email = [c \in Chats |-> IF @[c] = "fresh" THEN "old" ELSE @[c]]]
  /\ past' = [past EXCEPT !.events = @ + 1, !.recent = FALSE, !.asked = [c \in Chats |-> FALSE]]
  /\ UNCHANGED <<run, tap, conn>>

Fresh0 == [email |-> [c \in Chats |-> "no"], instructions |-> [c \in Chats |-> FALSE],
           app |-> [c \in Chats |-> FALSE], cooling |-> FALSE, held |-> NothingHeld]

Restart ==
  /\ Room
  /\ mem' = Fresh0
  /\ run' = [p \in Procs |-> Idle] /\ tap' = [c \in Chats |-> "idle"] /\ conn' = Idle
  /\ past' = [past EXCEPT !.events = @ + 1, !.recent = FALSE, !.cut = @ \/ conn # Idle,
                          !.asked = [c \in Chats |-> @[c] /\ ~past.rearmed[c]]]
  /\ UNCHANGED db

Init ==
  /\ \E linked, required, connected \in BOOLEAN :
       db = [linked |-> [c \in Chats |-> linked], onboarded |-> [c \in Chats |-> linked], noticed |-> FALSE,
             email |-> [c \in Chats |-> ""], instructions |-> NoMsg, app |-> NoMsg,
             required |-> required, connected |-> connected, held |-> NothingHeld]
  /\ mem = Fresh0
  /\ run = [p \in Procs |-> Idle] /\ tap = [c \in Chats |-> "idle"] /\ conn = Idle
  /\ past = [sent |-> 0, events |-> 0, faults |-> FALSE,
             fate |-> [i \in Ids |-> {}], holds |-> [i \in Ids |-> 0], replays |-> [i \in Ids |-> 0],
             asked |-> [c \in Chats |-> FALSE], rearmed |-> [c \in Chats |-> FALSE], prompted |-> [c \in Chats |-> MaxMessages],
             greeted |-> [c \in Chats |-> 0], told |-> FALSE, missed |-> FALSE, crossed |-> FALSE,
             inMemory |-> FALSE, stale |-> FALSE, early |-> FALSE, again |-> FALSE, recent |-> FALSE, cut |-> FALSE]

HandleInbound(c) ==
  \/ TurnAway(c) \/ FirstEars(c) \/ Welcome(c) \/ Greet(c) \/ LookForEmail(c)
  \/ handleEmailLinkReply(c) \/ SettleEmail(c) \/ SetupCheck(c) \/ HoldAtSetup(c) \/ TakeInstructions(c)

Turn(p) ==
  HandleTurn(p) \/ EndTurn(p) \/ withAuthGate(p) \/ shouldSendConnectPrompt(p) \/ storePending(p)

Next ==
  \/ \E c \in Chats :
       \/ \E k \in Kinds : Write(c, k)
       \/ HandleInbound(c)
       \/ \E k \in TapKinds : Tap(c, k)
       \/ handleLinkAccountCallback(c) \/ handleInstructionsCallback(c) \/ handleAppInstructionsCallback(c)
       \/ handleInstructionsSubmission(c)
  \/ \E p \in Procs : Turn(p)
  \/ SignIn \/ Disconnect \/ takeTurn
  \/ HalfAMinute \/ LongWait \/ Restart

Spec == Init /\ [][Next]_vars

(***************************************************************************)
(* Properties.                                                             *)
(***************************************************************************)
Msgs == Ids \cup {0, NoMsg}
TypeOK ==
  /\ {db.noticed, db.required, db.connected, mem.cooling} \subseteq BOOLEAN
  /\ {db.held.msg, mem.held.msg, db.instructions, db.app} \subseteq Msgs
  /\ \A c \in Chats :
       /\ db.email[c] \in {"", "awaiting", "lapsed", "skipped", "sent"}
       /\ mem.email[c] \in {"no", "fresh", "old"}
       /\ Busy(c) => run[c].chat = c /\ run[c].msg \in 1 .. past.sent
  /\ \A i \in Ids : Busy(i) => run[i].msg = i

\* What a person writes has one taker: the welcome and a notice go on to the answer, a reply to something the chat
\* was asked does not (handleInboundSafely's returns), whatever was asked of the chat at the same time.
OneTaker == \A i \in Ids : Cardinality(past.fate[i]) <= 1

\* "New users are welcomed (once) before anything else", unless what they are could not be saved.
WelcomedOnce == ~past.faults => \A c \in Chats : past.greeted[c] <= 1

\* "One prompt per person per moment": whatever asks at once, the tools of a reply, of two chats, of a replay.
OnePrompt == ~past.again

InboundInv == TypeOK /\ OneTaker /\ WelcomedOnce /\ OnePrompt

\* "A reply to 'send me your email' is taken here and never reaches the agent": what is written after the chat was
\* asked, restarts included, is taken; unless the button was tapped while an earlier reply was being taken.
EmailRepliesTaken == past.missed => past.crossed

\* "It is replayed the moment they connect", and once: what was held is not kept past a sign-in, and each request
\* is carried out as often as it was held at most; unless the sign-in came before the request was held, or the
\* server stopped before it was told of the sign-in.
HeldIsCarriedOut ==
  /\ db.connected /\ conn = Idle /\ ~past.early /\ ~past.cut => db.held = NothingHeld
  /\ \A i \in Ids : past.replays[i] <= past.holds[i]

\* "An instruction from hours ago must not be carried out as if it were fresh", where the database took it.
FreshWhenStored == past.stale => past.inMemory

\* What is held for a sign-in is carried out, once, while it is fresh (host.go, getting_started.go).
HeldAndReplayed == HeldIsCarriedOut /\ FreshWhenStored

(***************************************************************************)
(* Said, and not kept.                                                     *)
(***************************************************************************)
\* pendingTurnMaxAge: a request held in memory has no age.
FreshAlways == ~past.stale

\* "Told once each: in the welcome for someone new, else on its own before the answer": a person who is answered was told.
NoticeFirst == (\E i \in Ids : "agent" \in past.fate[i]) => past.told

\* The wait for an address, taken whenever it was asked for.
EmailRepliesAlways == ~past.missed

\* Replayed whenever they connect.
NothingHeldOnceConnected == db.connected /\ conn = Idle => db.held = NothingHeld

\* What is saved as instructions is the first thing written after they were asked for (with one chat).
FirstReply == \A i \in Ids : "instructions" \in past.fate[i] => \E c \in Chats : i = past.prompted[c] + 1
=============================================================================

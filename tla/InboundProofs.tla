---------------------------- MODULE InboundProofs ----------------------------
(***************************************************************************)
(* What holds of a message on its way in, for any chats, messages, taps    *)
(* and calls: it has one taker, replies to "send me your email" are taken, *)
(* and what is held for a sign-in is carried out once, while it is fresh.  *)
(***************************************************************************)
EXTENDS Inbound, FiniteSetTheorems, TLAPS

(***************************************************************************)
(* The inductive invariant.                                                *)
(***************************************************************************)
\* Where a chat's line is before anything has taken its message; and where a turn is.
Untaken == {"who", "welcome", "greet", "look", "take", "active", "hold", "reply"}
Turning == {"begin", "turn", "gate", "keep"}
Handling == [pc : Untaken \cup Turning \cup {"skipped", "initiate"}, msg : Ids, kind : AllKinds, chat : Chats,
             due : BOOLEAN, notice : BOOLEAN, signedIn : BOOLEAN, calls : Nat]
Held == [msg : Ids, chat : Chats, old : BOOLEAN]

\* What may become of a message.
Fates == {"choice", "elsewhere", "email", "told", "agent", "instructions", "app"}

DbType == [linked : [Chats -> BOOLEAN], onboarded : [Chats -> BOOLEAN], noticed : BOOLEAN,
           email : [Chats -> {"", "awaiting", "lapsed", "skipped", "sent"}], instructions : Msgs, app : Msgs,
           required : BOOLEAN, connected : BOOLEAN, held : Held \cup {NothingHeld}]
MemType == [email : [Chats -> {"no", "fresh", "old"}], instructions : [Chats -> BOOLEAN], app : [Chats -> BOOLEAN],
            cooling : BOOLEAN, held : Held \cup {NothingHeld}]
RunType == [Procs -> Handling \cup {Idle}]
TapType == [Chats -> {"idle", "link", "link-db", "link-say", "instructions", "instructions-wait", "submission",
                      "app", "app-wait"}]
PastType == [sent : 0 .. MaxMessages, events : Nat, faults : BOOLEAN,
             fate : [Ids -> SUBSET Fates], holds : [Ids -> Nat], replays : [Ids -> Nat],
             asked : [Chats -> BOOLEAN], rearmed : [Chats -> BOOLEAN], prompted : [Chats -> Nat],
             greeted : [Chats -> Nat], told : BOOLEAN, missed : BOOLEAN, crossed : BOOLEAN, inMemory : BOOLEAN,
             stale : BOOLEAN, early : BOOLEAN, again : BOOLEAN, recent : BOOLEAN, cut : BOOLEAN]

\* A chat's line handles a message of that chat, a replay the one it is named for, and both one that was written.
Places ==
  /\ \A c \in Chats : Busy(c) => run[c].chat = c /\ run[c].msg <= past.sent /\ run[c].pc # "begin"
  /\ \A i \in Ids : Busy(i) => run[i].msg = i /\ i <= past.sent /\ run[i].pc \in Turning
  /\ \A h \in {db.held, mem.held} : h # NothingHeld => h.msg <= past.sent

TypedState ==
  /\ db \in DbType /\ mem \in MemType /\ run \in RunType /\ tap \in TapType
  /\ conn \in {Idle, [pc |-> "take"], [pc |-> "memory"]}
  /\ past \in PastType

Types == TypedState /\ Places

\* Nobody else has the message that a line has not found a taker for, and a held or replayed one is the agent's.
Alone(c) ==
  /\ past.fate[run[c].msg] = {}
  /\ ~Busy(run[c].msg)
  /\ db.held.msg # run[c].msg /\ mem.held.msg # run[c].msg
  /\ \A d \in Chats \ {c} : Busy(d) => run[d].msg # run[c].msg

AgentsOwn(i) == past.fate[i] \subseteq {"agent"}

Takers ==
  /\ \A i \in Ids : i > past.sent => past.fate[i] = {}
  /\ \A i \in Ids : \A x, y \in past.fate[i] : x = y
  /\ \A c \in Chats : run[c].pc \in Untaken => Alone(c)
  /\ \A p \in Procs : run[p].pc \in Turning => AgentsOwn(run[p].msg)
  /\ \A h \in {db.held, mem.held} : h # NothingHeld => AgentsOwn(h.msg)

\* Who is being greeted is saved as welcomed already.
Welcomed ==
  ~past.faults => \A c \in Chats :
     /\ past.greeted[c] <= 1
     /\ ~db.onboarded[c] => past.greeted[c] = 0
     /\ At(c, "greet") => db.onboarded[c] /\ past.greeted[c] = 0

Prompted == ~past.again /\ (past.recent => mem.cooling)

\* A chat that was asked for an address waits for it, in the database if a restart is to remember; and while a reply
\* is taken nothing is asked, unless the two crossed.
MailsOf(c) ==
  /\ past.asked[c] => awaitingEmail(c) /\ (past.rearmed[c] \/ db.email[c] = "awaiting")
  /\ run[c].pc \in {"who", "welcome", "greet", "look"} /\ run[c].due => awaitingEmail(c)
  /\ tap[c] = "link-say" => db.email[c] = "awaiting"
  /\ run[c].pc \in {"skipped", "initiate"} => ~past.asked[c] /\ tap[c] \notin {"link-db", "link-say"}
Mails == ~past.crossed => ~past.missed /\ \A c \in Chats : MailsOf(c)

\* From the moment the callback of a sign-in has looked, nobody who found it not connected is left, unless it looked early.
Awaited ==
  ~past.early /\ ~past.cut /\ db.connected /\ conn.pc # "take" =>
     db.held = NothingHeld /\ \A p \in Procs : ~Between(p)

\* What is held is yet to be carried out.
One(b) == IF b THEN 1 ELSE 0
Counted ==
  \A i \in Ids : past.replays[i] + One(db.held.msg = i) + One(mem.held.msg = i) <= past.holds[i]

MemoryOnly == mem.held # NothingHeld \/ past.stale => past.inMemory

IInv ==
  Types /\ Takers /\ Welcomed /\ Prompted /\ Mails /\ Awaited /\ Counted /\ MemoryOnly

(***************************************************************************)
(* What may be put into the records.                                       *)
(***************************************************************************)
LEMMA DbSets ==
  ASSUME NEW q \in DbType
  PROVE  /\ \A c \in Chats, b \in BOOLEAN : [q EXCEPT !.linked[c] = b] \in DbType /\ [q EXCEPT !.onboarded[c] = b] \in DbType
         /\ \A c \in Chats, e \in {"awaiting", "skipped", "sent"} : [q EXCEPT !.email[c] = e] \in DbType
         /\ \A b \in BOOLEAN : [q EXCEPT !.noticed = b] \in DbType /\ [q EXCEPT !.connected = b] \in DbType
         /\ \A m \in Msgs : [q EXCEPT !.instructions = m] \in DbType /\ [q EXCEPT !.app = m] \in DbType
         /\ \A h \in Held \cup {NothingHeld} : [q EXCEPT !.held = h] \in DbType
<1>1. \A c \in Chats, b \in BOOLEAN : [q EXCEPT !.linked[c] = b] \in DbType /\ [q EXCEPT !.onboarded[c] = b] \in DbType
  BY DEF DbType
<1>2. \A c \in Chats, e \in {"awaiting", "skipped", "sent"} : [q EXCEPT !.email[c] = e] \in DbType
  BY DEF DbType
<1>3. \A b \in BOOLEAN : [q EXCEPT !.noticed = b] \in DbType /\ [q EXCEPT !.connected = b] \in DbType
  BY DEF DbType
<1>4. \A m \in Msgs : [q EXCEPT !.instructions = m] \in DbType /\ [q EXCEPT !.app = m] \in DbType
  BY DEF DbType
<1>5. \A h \in Held \cup {NothingHeld} : [q EXCEPT !.held = h] \in DbType
  BY DEF DbType
<1> QED BY <1>1, <1>2, <1>3, <1>4, <1>5

LEMMA OtherEmails ==
  ASSUME db \in DbType, NEW c \in Chats, NEW e, db' = [db EXCEPT !.email[c] = e]
  PROVE  \A d \in Chats \ {c} : db'.email[d] = db.email[d]
<1>1. db'.email = [db.email EXCEPT ![c] = e]
  BY DEF DbType
<1>2. DOMAIN db.email = Chats
  BY DEF DbType
<1> QED BY <1>1, <1>2

LEMMA MemSets ==
  ASSUME NEW q \in MemType
  PROVE  /\ \A c \in Chats, e \in {"no", "fresh", "old"} : [q EXCEPT !.email[c] = e] \in MemType
         /\ \A c \in Chats, b \in BOOLEAN : [q EXCEPT !.instructions[c] = b] \in MemType /\ [q EXCEPT !.app[c] = b] \in MemType
         /\ \A b \in BOOLEAN : [q EXCEPT !.cooling = b] \in MemType
         /\ \A h \in Held \cup {NothingHeld} : [q EXCEPT !.held = h] \in MemType
<1>1. \A c \in Chats, e \in {"no", "fresh", "old"} : [q EXCEPT !.email[c] = e] \in MemType
  BY DEF MemType
<1>2. \A c \in Chats, b \in BOOLEAN : [q EXCEPT !.instructions[c] = b] \in MemType /\ [q EXCEPT !.app[c] = b] \in MemType
  BY DEF MemType
<1>3. \A b \in BOOLEAN : [q EXCEPT !.cooling = b] \in MemType
  BY DEF MemType
<1>4. \A h \in Held \cup {NothingHeld} : [q EXCEPT !.held = h] \in MemType
  BY DEF MemType
<1> QED BY <1>1, <1>2, <1>3, <1>4

LEMMA PastSets ==
  ASSUME NEW q \in PastType
  PROVE  /\ \A n \in 0 .. MaxMessages : [q EXCEPT !.sent = n] \in PastType
         /\ \A n \in Nat : [q EXCEPT !.events = n] \in PastType
         /\ \A i \in Ids, S \in SUBSET Fates : [q EXCEPT !.fate[i] = S] \in PastType
         /\ \A i \in Ids, n \in Nat : [q EXCEPT !.holds[i] = n] \in PastType /\ [q EXCEPT !.replays[i] = n] \in PastType
         /\ \A c \in Chats, b \in BOOLEAN : [q EXCEPT !.asked[c] = b] \in PastType /\ [q EXCEPT !.rearmed[c] = b] \in PastType
         /\ \A c \in Chats, n \in Nat : [q EXCEPT !.prompted[c] = n] \in PastType /\ [q EXCEPT !.greeted[c] = n] \in PastType
         /\ \A b \in BOOLEAN : /\ [q EXCEPT !.faults = b] \in PastType /\ [q EXCEPT !.told = b] \in PastType
                               /\ [q EXCEPT !.missed = b] \in PastType /\ [q EXCEPT !.crossed = b] \in PastType
                               /\ [q EXCEPT !.inMemory = b] \in PastType /\ [q EXCEPT !.stale = b] \in PastType
                               /\ [q EXCEPT !.early = b] \in PastType /\ [q EXCEPT !.again = b] \in PastType
                               /\ [q EXCEPT !.recent = b] \in PastType /\ [q EXCEPT !.cut = b] \in PastType
<1>1. \A n \in 0 .. MaxMessages : [q EXCEPT !.sent = n] \in PastType
  BY DEF PastType
<1>2. \A n \in Nat : [q EXCEPT !.events = n] \in PastType
  BY DEF PastType
<1>3. \A i \in Ids, S \in SUBSET Fates : [q EXCEPT !.fate[i] = S] \in PastType
  BY DEF PastType
<1>4. \A i \in Ids, n \in Nat : [q EXCEPT !.holds[i] = n] \in PastType /\ [q EXCEPT !.replays[i] = n] \in PastType
  BY DEF PastType
<1>5. \A c \in Chats, b \in BOOLEAN : [q EXCEPT !.asked[c] = b] \in PastType /\ [q EXCEPT !.rearmed[c] = b] \in PastType
  BY DEF PastType
<1>6. \A c \in Chats, n \in Nat : [q EXCEPT !.prompted[c] = n] \in PastType /\ [q EXCEPT !.greeted[c] = n] \in PastType
  BY DEF PastType
<1>7. \A b \in BOOLEAN : /\ [q EXCEPT !.faults = b] \in PastType /\ [q EXCEPT !.told = b] \in PastType
                         /\ [q EXCEPT !.missed = b] \in PastType /\ [q EXCEPT !.crossed = b] \in PastType
                         /\ [q EXCEPT !.inMemory = b] \in PastType /\ [q EXCEPT !.stale = b] \in PastType
                         /\ [q EXCEPT !.early = b] \in PastType /\ [q EXCEPT !.again = b] \in PastType
                         /\ [q EXCEPT !.recent = b] \in PastType /\ [q EXCEPT !.cut = b] \in PastType
  <2> TAKE b \in BOOLEAN
  <2>1. [q EXCEPT !.faults = b] \in PastType /\ [q EXCEPT !.told = b] \in PastType
    BY DEF PastType
  <2>2. [q EXCEPT !.missed = b] \in PastType /\ [q EXCEPT !.crossed = b] \in PastType
    BY DEF PastType
  <2>3. [q EXCEPT !.inMemory = b] \in PastType /\ [q EXCEPT !.stale = b] \in PastType
    BY DEF PastType
  <2>4. [q EXCEPT !.early = b] \in PastType /\ [q EXCEPT !.again = b] \in PastType
    BY DEF PastType
  <2>5. [q EXCEPT !.recent = b] \in PastType /\ [q EXCEPT !.cut = b] \in PastType
    BY DEF PastType
  <2> QED BY <2>1, <2>2, <2>3, <2>4, <2>5
<1> QED BY <1>1, <1>2, <1>3, <1>4, <1>5, <1>6, <1>7

Pcs == Untaken \cup Turning \cup {"skipped", "initiate"}
Others(p) == \A q \in Procs \ {p} : run'[q] = run[q]

LEMMA Busies == ASSUME Types, NEW p \in Procs, run[p].pc # "idle" PROVE run[p] \in Handling
<1>1. run[p] \in Handling \cup {Idle}
  BY DEF Types, TypedState, RunType
<1> QED BY <1>1 DEF Idle

LEMMA Puts == ASSUME Types, NEW p \in Procs, NEW r \in Handling \cup {Idle}, run' = [run EXCEPT ![p] = r]
              PROVE run' \in RunType /\ run'[p] = r /\ Others(p)
  BY DEF Types, TypedState, RunType, Others

LEMMA Finishes == ASSUME Types, NEW p \in Procs, Done(p) PROVE run' \in RunType /\ run'[p] = Idle /\ Others(p)
  BY Puts DEF Done

LEMMA Goes == ASSUME Types, NEW p \in Procs, Busy(p), NEW pc \in Pcs, Go(p, pc)
              PROVE run' \in RunType /\ run'[p] = [run[p] EXCEPT !.pc = pc] /\ Others(p)
<1>1. run[p] \in Handling
  BY Busies DEF Busy
<1>2. [run[p] EXCEPT !.pc = pc] \in Handling
  BY <1>1 DEF Handling, Pcs
<1>3. run' = [run EXCEPT ![p] = [run[p] EXCEPT !.pc = pc]]
  BY DEF Go
<1> QED BY <1>2, <1>3, Puts

LEMMA Numbers == ASSUME Types
                 PROVE /\ past.events + 1 \in Nat
                       /\ past.sent \in 0 .. MaxMessages /\ past.sent \in Nat
                       /\ past.sent < MaxMessages => past.sent + 1 \in Ids /\ past.sent + 1 \in 0 .. MaxMessages
                       /\ \A i \in Ids : past.holds[i] + 1 \in Nat /\ past.replays[i] + 1 \in Nat
                       /\ \A c \in Chats : past.greeted[c] + 1 \in Nat
<1>1. past.events \in Nat /\ past.sent \in 0 .. MaxMessages
  BY DEF Types, TypedState, PastType
<1>2. \A i \in Ids : past.holds[i] \in Nat /\ past.replays[i] \in Nat
  BY DEF Types, TypedState, PastType
<1>3. \A c \in Chats : past.greeted[c] \in Nat
  BY DEF Types, TypedState, PastType
<1> QED BY <1>1, <1>2, <1>3, InboundConstants DEF Ids

LEMMA Sets == ASSUME Types
              PROVE /\ \A i \in Ids, w \in Fates : past.fate[i] \cup {w} \in SUBSET Fates
                    /\ \A c \in Chats : past.asked[c] \in BOOLEAN /\ past.rearmed[c] \in BOOLEAN
                    /\ {past.faults, past.told, past.missed, past.crossed, past.inMemory, past.stale, past.early, past.again,
                        past.recent, past.cut} \subseteq BOOLEAN
                    /\ \A c \in Chats : db.linked[c] \in BOOLEAN
<1>1. \A i \in Ids : past.fate[i] \in SUBSET Fates
  BY DEF Types, TypedState, PastType
<1>2. \A i \in Ids, w \in Fates : past.fate[i] \cup {w} \in SUBSET Fates
  BY <1>1
<1>3. \A c \in Chats : past.asked[c] \in BOOLEAN /\ past.rearmed[c] \in BOOLEAN
  BY DEF Types, TypedState, PastType
<1>4. {past.faults, past.told, past.missed, past.crossed, past.inMemory, past.stale, past.early, past.again,
        past.recent, past.cut} \subseteq BOOLEAN
  BY DEF Types, TypedState, PastType
<1>5. \A c \in Chats : db.linked[c] \in BOOLEAN
  BY DEF Types, TypedState, DbType
<1> QED BY <1>2, <1>3, <1>4, <1>5

LEMMA Fails == Types => [past EXCEPT !.events = @ + 1, !.faults = TRUE] \in PastType
<1> SUFFICES ASSUME Types PROVE [past EXCEPT !.events = @ + 1, !.faults = TRUE] \in PastType
  OBVIOUS
<1>1. [past EXCEPT !.events = @ + 1] \in PastType
  BY PastSets, Numbers DEF Types, TypedState
<1> QED BY <1>1, PastSets

LEMMA Fated == ASSUME Types, NEW i \in Ids PROVE \A w \in Fates : [past EXCEPT !.fate[i] = @ \cup {w}] \in PastType
  BY Sets, PastSets DEF Types, TypedState

\* Two fields of what a process handles at once.
LEMMA RunSets ==
  ASSUME Types, NEW p \in Procs, run[p] \in Handling, NEW b \in BOOLEAN, NEW pc \in Pcs
  PROVE  /\ [run EXCEPT ![p].notice = b, ![p].pc = pc] = [run EXCEPT ![p] = [run[p] EXCEPT !.notice = b, !.pc = pc]]
         /\ [run EXCEPT ![p].signedIn = b, ![p].pc = pc] = [run EXCEPT ![p] = [run[p] EXCEPT !.signedIn = b, !.pc = pc]]
         /\ [run[p] EXCEPT !.notice = b, !.pc = pc] \in Handling
         /\ [run[p] EXCEPT !.signedIn = b, !.pc = pc] \in Handling
<1>1. [run[p] EXCEPT !.notice = b, !.pc = pc] \in Handling /\ [run[p] EXCEPT !.signedIn = b, !.pc = pc] \in Handling
  BY DEF Handling, Pcs
<1>2. DOMAIN run = Procs
  BY DEF Types, TypedState, RunType
<1> QED BY <1>1, <1>2

LEMMA Begins ==
  ASSUME Types, NEW p \in Procs, run[p] \in Handling, Begin(p)
  PROVE  /\ run' \in RunType /\ past' \in PastType
         /\ run'[p] = [run[p] EXCEPT !.signedIn = db.connected, !.pc = "turn"] /\ Others(p)
<1>1. db.connected \in BOOLEAN
  BY DEF Types, TypedState, DbType
<1>2. run' = [run EXCEPT ![p] = [run[p] EXCEPT !.signedIn = db.connected, !.pc = "turn"]]
  BY <1>1, RunSets DEF Begin, Pcs, Turning
<1>3. [run[p] EXCEPT !.signedIn = db.connected, !.pc = "turn"] \in Handling
  BY <1>1, RunSets DEF Pcs, Turning
<1>4. run[p].msg \in Ids
  BY DEF Handling
<1>5. past' \in PastType
  BY <1>4, Fated DEF Begin, Fate, Fates
<1> QED BY <1>2, <1>3, <1>5, Puts

\* What is held is there to be carried out.
LEMMA HeldOnes == ASSUME Types
                  PROVE /\ Fresh(db.held) => db.held \in Held
                        /\ mem.held.msg # NoMsg => mem.held \in Held
<1>1. db.held \in Held \cup {NothingHeld} /\ mem.held \in Held \cup {NothingHeld}
  BY DEF Types, TypedState, DbType, MemType
<1> QED BY <1>1 DEF Fresh, NothingHeld

Replay(h) == [pc |-> "begin", msg |-> h.msg, kind |-> "words", chat |-> h.chat,
              due |-> FALSE, notice |-> FALSE, signedIn |-> FALSE, calls |-> 0]

LEMMA Carries ==
  ASSUME Types, NEW h \in Held, CarryOut(h)
  PROVE  /\ run' \in RunType /\ past' \in PastType
         /\ \/ run' = run
            \/ run'[h.msg] = Replay(h) /\ Others(h.msg)
<1>1. h.msg \in Procs /\ h.msg \in Ids /\ Replay(h) \in Handling
  BY DEF Held, Procs, Handling, Turning, AllKinds, Replay
<1>2. run' = run \/ run' = [run EXCEPT ![h.msg] = Replay(h)]
  BY DEF CarryOut, Replay
<1>3. run' \in RunType /\ (run' = run \/ (run'[h.msg] = Replay(h) /\ Others(h.msg)))
  BY <1>1, <1>2, Puts DEF Types, TypedState
<1>4. past' \in PastType
  <2> DEFINE n == IF run' = run THEN past.replays[h.msg] ELSE past.replays[h.msg] + 1
             stale == past.stale \/ (run' # run /\ h.old)
             early == past.early \/ \E p \in Procs : Between(p)
             q1 == [past EXCEPT !.replays[h.msg] = n]
             q2 == [q1 EXCEPT !.stale = stale]
  <2>1. past.replays[h.msg] \in Nat
    BY <1>1 DEF Types, TypedState, PastType
  <2>2. n \in Nat /\ stale \in BOOLEAN /\ early \in BOOLEAN
    BY <1>1, <2>1, Numbers
  <2>3. past' = [q2 EXCEPT !.early = early]
    BY DEF CarryOut
  <2> HIDE DEF n, stale, early
  <2>4. q1 \in PastType
    BY <1>1, <2>2, PastSets DEF Types, TypedState
  <2>5. q2 \in PastType
    BY <2>2, <2>4, PastSets
  <2>6. [q2 EXCEPT !.early = early] \in PastType
    BY <2>2, <2>5, PastSets
  <2> QED BY <2>3, <2>6
<1> QED BY <1>3, <1>4

\* What a request is held as, and the rest of holdTurn.
LEMMA Holds ==
  ASSUME Types, NEW p \in Procs, run[p] \in Handling, holdTurn(p)
  PROVE  db' \in DbType /\ mem' \in MemType /\ past' \in PastType
<1> DEFINE h == [msg |-> run[p].msg, chat |-> Chat(p), old |-> FALSE]
<1>1. h \in Held /\ run[p].msg \in Ids
  BY DEF Handling, Held, Chat
<1>2. db' = [db EXCEPT !.held = h] \/ db' = db
  BY DEF holdTurn
<1>3. mem' = [mem EXCEPT !.held = h] \/ mem' = mem
  BY DEF holdTurn
<1>4. \/ past' = [past EXCEPT !.holds[run[p].msg] = @ + 1]
      \/ past' = [past EXCEPT !.events = @ + 1, !.faults = TRUE, !.inMemory = TRUE, !.holds[run[p].msg] = @ + 1]
  BY DEF holdTurn
<1> HIDE DEF h
<1>5. db' \in DbType
  BY <1>1, <1>2, DbSets DEF Types, TypedState
<1>6. mem' \in MemType
  BY <1>1, <1>3, MemSets DEF Types, TypedState
<1>7. past' \in PastType
  <2>1. [past EXCEPT !.holds[run[p].msg] = @ + 1] \in PastType
    BY <1>1, PastSets, Numbers DEF Types, TypedState
  <2>2. [past EXCEPT !.events = @ + 1, !.faults = TRUE] \in PastType
    BY Fails
  <2>3. [past EXCEPT !.events = @ + 1, !.faults = TRUE, !.inMemory = TRUE] \in PastType
    BY <2>2, PastSets
  <2>4. [past EXCEPT !.events = @ + 1, !.faults = TRUE, !.inMemory = TRUE, !.holds[run[p].msg] = @ + 1] \in PastType
    BY <1>1, <2>3, PastSets, Numbers
  <2> QED BY <1>4, <2>1, <2>4
<1> QED BY <1>5, <1>6, <1>7

LEMMA TypesKept == Types /\ [Next]_vars => TypedState'
<1> SUFFICES ASSUME Types, [Next]_vars PROVE TypedState'
  OBVIOUS
<1> USE DEF Types, TypedState
<1>1. ASSUME NEW c \in Chats, NEW k \in Kinds, Write(c, k) PROVE TypedState'
  <2>1. run' \in RunType
    <3>1. [pc |-> "who", msg |-> past.sent + 1, kind |-> k, chat |-> c, due |-> past.asked[c],
           notice |-> FALSE, signedIn |-> FALSE, calls |-> 0] \in Handling
      BY <1>1, Numbers, Sets, InboundConstants DEF Write, Handling, Untaken
    <3> QED BY <1>1, <3>1, Puts DEF Write, Procs
  <2>2. past' \in PastType
    BY <1>1, <2>1, PastSets, Numbers, Sets DEF Write, Failed, Fate
  <2> QED
    BY <1>1, <2>1, <2>2 DEF Write
<1>2. ASSUME NEW c \in Chats, TurnAway(c) PROVE TypedState'
  <2>1. c \in Procs /\ Busy(c) /\ run[c] \in Handling /\ run[c].msg \in Ids
    BY <1>2, Busies DEF TurnAway, At, Busy, Procs, Handling
  <2>2. db' \in DbType
    <3>1. \A b \in {db.linked[c], TRUE} : [db EXCEPT !.linked[c] = b] \in DbType
      BY DbSets, Sets
    <3> QED BY <1>2, <3>1 DEF TurnAway
  <2>3. run' \in RunType
    BY <1>2, <2>1, Finishes, Goes, Puts DEF TurnAway, Pcs, Untaken, Turning
  <2> QED
    BY <1>2, <2>1, <2>2, <2>3 DEF TurnAway
<1>3. ASSUME NEW c \in Chats, FirstEars(c) PROVE TypedState'
  <2>1. c \in Procs /\ Busy(c) /\ run[c] \in Handling /\ run[c].msg \in Ids
    BY <1>3, Busies DEF FirstEars, At, Busy, Procs, Handling
  <2>2. db' \in DbType
    <3>1. [db EXCEPT !.linked[c] = TRUE] \in DbType
      BY DbSets
    <3>2. [db EXCEPT !.linked[c] = TRUE, !.email[c] = "awaiting"] \in DbType
      BY <3>1, DbSets
    <3> QED BY <1>3, <3>1, <3>2 DEF FirstEars
  <2>3. mem' \in MemType
    BY <1>3, MemSets DEF FirstEars
  <2>4. run' \in RunType
    BY <1>3, <2>1, Finishes, Goes, Puts DEF FirstEars, Pcs, Untaken, Turning
  <2>5. past' \in PastType
    <3>1. \A w \in Fates : [past EXCEPT !.fate[run[c].msg] = @ \cup {w}] \in PastType
      BY <2>1, Fated
    <3>2. [past EXCEPT !.fate[run[c].msg] = @ \cup {"elsewhere"}, !.asked[c] = TRUE] \in PastType
      BY <3>1, PastSets DEF Fates
    <3> QED BY <1>3, <3>1, <3>2 DEF FirstEars, Fate, Fates
  <2> QED
    BY <1>3, <2>1, <2>2, <2>3, <2>4, <2>5 DEF FirstEars
<1>4. ASSUME NEW c \in Chats, Welcome(c) PROVE TypedState'
  <2>1. c \in Procs /\ Busy(c) /\ run[c] \in Handling /\ run[c].msg \in Ids
    BY <1>4, Busies DEF Welcome, At, Busy, Procs, Handling
  <2>2. db' \in DbType
    BY <1>4, DbSets DEF Welcome
  <2>3. run' \in RunType
    <3>1. (~db.noticed) \in BOOLEAN
      OBVIOUS
    <3>2. CASE db.onboarded[c]
      BY <1>4, <2>1, <3>2, Finishes, Goes DEF Welcome, Pcs, Untaken
    <3>3. CASE ~db.onboarded[c]
      <4>1. "greet" \in Pcs
        BY DEF Pcs, Untaken
      <4>2. run' = [run EXCEPT ![c].notice = ~db.noticed, ![c].pc = "greet"]
        BY <1>4, <3>3 DEF Welcome
      <4>3. run' = [run EXCEPT ![c] = [run[c] EXCEPT !.notice = ~db.noticed, !.pc = "greet"]]
        BY <2>1, <3>1, <4>1, <4>2, RunSets
      <4>4. [run[c] EXCEPT !.notice = ~db.noticed, !.pc = "greet"] \in Handling
        BY <2>1, <3>1, <4>1, RunSets
      <4> QED BY <2>1, <4>3, <4>4, Puts
    <3> QED BY <3>2, <3>3
  <2>4. past' \in PastType
    <3>1. (past.told \/ ~db.noticed) \in BOOLEAN
      OBVIOUS
    <3>2. [past EXCEPT !.told = @ \/ ~db.noticed] \in PastType
      BY <3>1, PastSets
    <3> QED BY <1>4, <3>2, Fails DEF Welcome, Failed
  <2> QED
    BY <1>4, <2>1, <2>2, <2>3, <2>4 DEF Welcome
<1>5. ASSUME NEW c \in Chats, Greet(c) PROVE TypedState'
  <2>1. c \in Procs /\ Busy(c) /\ run[c] \in Handling /\ run[c].msg \in Ids
    BY <1>5, Busies DEF Greet, At, Busy, Procs, Handling
  <2>2. run' \in RunType
    <3>1. "look" \in Pcs
      BY DEF Pcs, Untaken
    <3>2. [run EXCEPT ![c].notice = FALSE, ![c].pc = "look"] = [run EXCEPT ![c] = [run[c] EXCEPT !.notice = FALSE, !.pc = "look"]]
      BY <2>1, <3>1, RunSets
    <3>3. [run[c] EXCEPT !.notice = FALSE, !.pc = "look"] \in Handling
      BY <2>1, <3>1, RunSets
    <3>4. CASE run' = [run EXCEPT ![c].notice = FALSE, ![c].pc = "look"]
      BY <2>1, <3>2, <3>3, <3>4, Puts
    <3>5. CASE Done(c)
      BY <2>1, <3>5, Finishes
    <3> QED BY <1>5, <3>4, <3>5 DEF Greet, Done
  <2>3. past' \in PastType
    BY <1>5, <2>1, PastSets, Numbers, Sets DEF Greet, Failed, Fate
  <2> QED
    BY <1>5, <2>1, <2>2, <2>3 DEF Greet
<1>6. ASSUME NEW c \in Chats, LookForEmail(c) PROVE TypedState'
  <2>1. c \in Procs /\ Busy(c) /\ run[c] \in Handling /\ run[c].msg \in Ids
    BY <1>6, Busies DEF LookForEmail, At, Busy, Procs, Handling
  <2>2. mem' \in MemType
    BY <1>6, MemSets DEF LookForEmail
  <2>3. run' \in RunType
    BY <1>6, <2>1, Finishes, Goes, Puts DEF LookForEmail, Pcs, Untaken, Turning
  <2>4. past' \in PastType
    BY <1>6, <2>1, PastSets, Numbers, Sets DEF LookForEmail, Failed, Fate
  <2> QED
    BY <1>6, <2>1, <2>2, <2>3, <2>4 DEF LookForEmail
<1>7. ASSUME NEW c \in Chats, handleEmailLinkReply(c) PROVE TypedState'
  <2>1. c \in Procs /\ Busy(c) /\ run[c] \in Handling /\ run[c].msg \in Ids
    BY <1>7, Busies DEF handleEmailLinkReply, At, Busy, Procs, Handling
  <2>2. mem' \in MemType
    BY <1>7, MemSets DEF handleEmailLinkReply
  <2>3. run' \in RunType
    BY <1>7, <2>1, Finishes, Goes, Puts DEF handleEmailLinkReply, Pcs, Untaken, Turning
  <2>4. past' \in PastType
    <3> DEFINE again == Kind(c) \notin {"skip", "email"}
               q1 == [past EXCEPT !.fate[run[c].msg] = @ \cup {"email"}]
               q2 == [q1 EXCEPT !.asked[c] = again]
               q3 == [q2 EXCEPT !.rearmed[c] = again]
    <3>1. again \in BOOLEAN /\ (past.crossed \/ tap[c] \in {"link-db", "link-say"}) \in BOOLEAN
      OBVIOUS
    <3>2. q1 \in PastType
      BY <2>1, Fated DEF Fates
    <3> HIDE DEF again
    <3>3. q2 \in PastType
      BY <3>1, <3>2, PastSets
    <3>4. q3 \in PastType
      BY <3>1, <3>3, PastSets
    <3>5. \A b \in BOOLEAN : [q3 EXCEPT !.crossed = b] \in PastType
      BY <3>4, PastSets
    <3>6. past' = [q3 EXCEPT !.crossed = past.crossed \/ tap[c] \in {"link-db", "link-say"}]
      BY <1>7 DEF handleEmailLinkReply, again
    <3> QED BY <3>1, <3>5, <3>6
  <2> QED
    BY <1>7, <2>1, <2>2, <2>3, <2>4 DEF handleEmailLinkReply
<1>8. ASSUME NEW c \in Chats, SettleEmail(c) PROVE TypedState'
  <2>1. c \in Procs /\ Busy(c) /\ run[c] \in Handling /\ run[c].msg \in Ids
    BY <1>8, Busies DEF SettleEmail, At, Busy, Procs, Handling
  <2>2. db' \in DbType
    BY <1>8, DbSets DEF SettleEmail
  <2>3. run' \in RunType
    BY <1>8, <2>1, Finishes, Goes, Puts DEF SettleEmail, Pcs, Untaken, Turning
  <2>4. past' \in PastType
    <3>1. (db.email[c] = "awaiting") \in BOOLEAN
      OBVIOUS
    <3>2. [past EXCEPT !.events = @ + 1, !.faults = TRUE, !.asked[c] = db.email[c] = "awaiting"] \in PastType
      BY <3>1, Fails, PastSets
    <3> QED BY <1>8, <3>2 DEF SettleEmail
  <2> QED
    BY <1>8, <2>1, <2>2, <2>3, <2>4 DEF SettleEmail
<1>9. ASSUME NEW c \in Chats, SetupCheck(c) PROVE TypedState'
  <2>1. c \in Procs /\ Busy(c) /\ run[c] \in Handling /\ run[c].msg \in Ids
    BY <1>9, Busies DEF SetupCheck, At, Busy, Procs, Handling
  <2>2. run' \in RunType
    BY <1>9, <2>1, Finishes, Goes, Puts DEF SetupCheck, Pcs, Untaken, Turning
  <2>3. past' \in PastType
    <3>1. [past EXCEPT !.fate[run[c].msg] = @ \cup {"told"}] \in PastType
      BY <2>1, Fated DEF Fates
    <3> QED BY <1>9, <3>1 DEF SetupCheck, Fate
  <2> QED
    BY <1>9, <2>1, <2>2, <2>3 DEF SetupCheck
<1>10. ASSUME NEW c \in Chats, HoldAtSetup(c) PROVE TypedState'
  <2>1. c \in Procs /\ Busy(c) /\ run[c] \in Handling /\ run[c].msg \in Ids
    BY <1>10, Busies DEF HoldAtSetup, At, Busy, Procs, Handling
  <2>2. db' \in DbType
    BY <1>10, <2>1, Holds DEF HoldAtSetup
  <2>3. mem' \in MemType
    BY <1>10, <2>1, Holds DEF HoldAtSetup
  <2>4. run' \in RunType
    BY <1>10, <2>1, Finishes, Goes, Puts DEF HoldAtSetup, holdTurn, Pcs, Untaken, Turning
  <2>5. past' \in PastType
    BY <1>10, <2>1, Holds DEF HoldAtSetup
  <2> QED
    BY <1>10, <2>1, <2>2, <2>3, <2>4, <2>5 DEF HoldAtSetup, holdTurn
<1>11. ASSUME NEW c \in Chats, TakeInstructions(c) PROVE TypedState'
  <2>1. c \in Procs /\ Busy(c) /\ run[c] \in Handling /\ run[c].msg \in Ids
    BY <1>11, Busies DEF TakeInstructions, At, Busy, Procs, Handling
  <2>2. db' \in DbType
    <3>1. run[c].msg \in Msgs /\ db.instructions \in Msgs /\ db.app \in Msgs
      BY <2>1 DEF Msgs, DbType
    <3>2. \A ok \in BOOLEAN : /\ [db EXCEPT !.instructions = IF ok THEN run[c].msg ELSE @] \in DbType
                            /\ [db EXCEPT !.app = IF ok THEN run[c].msg ELSE @] \in DbType
      BY <3>1, DbSets
    <3> QED BY <1>11, <3>2 DEF TakeInstructions
  <2>3. mem' \in MemType
    <3>1. [mem EXCEPT !.instructions[c] = FALSE] \in MemType /\ [mem EXCEPT !.app[c] = FALSE] \in MemType
      BY MemSets
    <3> QED BY <1>11, <3>1 DEF TakeInstructions
  <2>4. run' \in RunType
    <3>1. CASE Done(c)
      BY <2>1, <3>1, Finishes
    <3>2. CASE Begin(c)
      BY <2>1, <3>2, Begins
    <3> QED BY <1>11, <3>1, <3>2 DEF TakeInstructions
  <2>5. past' \in PastType
    <3>1. \A w \in Fates : [past EXCEPT !.fate[run[c].msg] = @ \cup {w}] \in PastType
      BY <2>1, Fated
    <3>2. \A w \in Fates, ok \in BOOLEAN :
             [past EXCEPT !.fate[run[c].msg] = @ \cup {w}, !.events = IF ok THEN @ ELSE @ + 1] \in PastType
      <4>1. \A ok \in BOOLEAN : (IF ok THEN past.events ELSE past.events + 1) \in Nat
        BY Numbers DEF PastType
      <4> QED BY <3>1, <4>1, PastSets
    <3>3. \A w \in Fates, ok \in BOOLEAN, b \in BOOLEAN :
             [past EXCEPT !.fate[run[c].msg] = @ \cup {w}, !.events = IF ok THEN @ ELSE @ + 1, !.faults = b] \in PastType
      BY <3>2, PastSets
    <3>4. \A ok \in BOOLEAN : (past.faults \/ ~ok) \in BOOLEAN
      OBVIOUS
    <3>5. CASE Begin(c)
      BY <2>1, <3>5, Begins
    <3>6. {"instructions", "app"} \subseteq Fates
      BY DEF Fates
    <3>7. CASE mem.instructions[c]
      <4>1. PICK ok \in BOOLEAN :
               past' = [past EXCEPT !.fate[run[c].msg] = @ \cup {"instructions"}, !.events = IF ok THEN @ ELSE @ + 1, !.faults = @ \/ ~ok]
        BY <1>11, <3>7 DEF TakeInstructions
      <4> QED BY <4>1, <3>3, <3>4, <3>6
    <3>8. CASE ~mem.instructions[c] /\ mem.app[c]
      <4>1. PICK ok \in BOOLEAN :
               past' = [past EXCEPT !.fate[run[c].msg] = @ \cup {"app"}, !.events = IF ok THEN @ ELSE @ + 1, !.faults = @ \/ ~ok]
        BY <1>11, <3>8 DEF TakeInstructions
      <4> QED BY <4>1, <3>3, <3>4, <3>6
    <3> QED BY <1>11, <3>5, <3>7, <3>8 DEF TakeInstructions
  <2> QED
    BY <1>11, <2>1, <2>2, <2>3, <2>4, <2>5 DEF TakeInstructions, Begin
<1>12. ASSUME NEW p \in Procs, HandleTurn(p) PROVE TypedState'
  <2>1. p \in Procs /\ Busy(p) /\ run[p] \in Handling /\ run[p].msg \in Ids
    BY <1>12, Busies DEF HandleTurn, At, Busy, Procs, Handling
  <2>2. run' \in RunType
    BY <1>12, <2>1, Begins DEF HandleTurn
  <2>3. past' \in PastType
    BY <1>12, <2>1, Begins DEF HandleTurn
  <2> QED
    BY <1>12, <2>1, <2>2, <2>3 DEF HandleTurn, Begin
<1>13. ASSUME NEW p \in Procs, EndTurn(p) PROVE TypedState'
  <2>1. p \in Procs /\ Busy(p) /\ run[p] \in Handling /\ run[p].msg \in Ids
    BY <1>13, Busies DEF EndTurn, At, Busy, Procs, Handling
  <2>2. run' \in RunType
    BY <1>13, <2>1, Finishes, Goes, Puts DEF EndTurn, Pcs, Untaken, Turning
  <2> QED
    BY <1>13, <2>1, <2>2 DEF EndTurn
<1>14. ASSUME NEW p \in Procs, withAuthGate(p) PROVE TypedState'
  <2>1. p \in Procs /\ Busy(p) /\ run[p] \in Handling /\ run[p].msg \in Ids
    BY <1>14, Busies DEF withAuthGate, At, Busy, Procs, Handling
  <2>2. run' \in RunType
    <3>1. run[p].calls + 1 \in Nat
      BY <2>1 DEF Handling
    <3>2. \A pc \in {"turn", "gate"} : [run[p] EXCEPT !.calls = run[p].calls + 1, !.pc = pc] \in Handling
      BY <2>1, <3>1 DEF Handling, Turning
    <3>3. \A pc \in {"turn", "gate"} : [run EXCEPT ![p].calls = @ + 1, ![p].pc = pc]
                  = [run EXCEPT ![p] = [run[p] EXCEPT !.calls = run[p].calls + 1, !.pc = pc]]
      BY <2>1 DEF RunType
    <3>4. PICK pc \in {"turn", "gate"} : run' = [run EXCEPT ![p].calls = @ + 1, ![p].pc = pc]
      BY <1>14 DEF withAuthGate
    <3>5. run' = [run EXCEPT ![p] = [run[p] EXCEPT !.calls = run[p].calls + 1, !.pc = pc]]
      BY <3>3, <3>4
    <3> QED BY <2>1, <3>2, <3>5, Puts
  <2> QED
    BY <1>14, <2>1, <2>2 DEF withAuthGate
<1>15. ASSUME NEW p \in Procs, shouldSendConnectPrompt(p) PROVE TypedState'
  <2>1. p \in Procs /\ Busy(p) /\ run[p] \in Handling /\ run[p].msg \in Ids
    BY <1>15, Busies DEF shouldSendConnectPrompt, At, Busy, Procs, Handling
  <2>2. mem' \in MemType
    BY <1>15, MemSets DEF shouldSendConnectPrompt
  <2>3. run' \in RunType
    BY <1>15, <2>1, Finishes, Goes, Puts DEF shouldSendConnectPrompt, Pcs, Untaken, Turning
  <2>4. past' \in PastType
    <3>1. (past.again \/ past.recent) \in BOOLEAN
      OBVIOUS
    <3>2. [past EXCEPT !.again = @ \/ past.recent] \in PastType
      BY <3>1, PastSets
    <3>3. [past EXCEPT !.again = @ \/ past.recent, !.recent = TRUE] \in PastType
      BY <3>2, PastSets
    <3> QED BY <1>15, <3>3 DEF shouldSendConnectPrompt
  <2> QED
    BY <1>15, <2>1, <2>2, <2>3, <2>4 DEF shouldSendConnectPrompt
<1>16. ASSUME NEW p \in Procs, storePending(p) PROVE TypedState'
  <2>1. p \in Procs /\ Busy(p) /\ run[p] \in Handling /\ run[p].msg \in Ids
    BY <1>16, Busies DEF storePending, At, Busy, Procs, Handling
  <2>2. db' \in DbType
    BY <1>16, <2>1, Holds DEF storePending
  <2>3. mem' \in MemType
    BY <1>16, <2>1, Holds DEF storePending
  <2>4. run' \in RunType
    BY <1>16, <2>1, Finishes, Goes, Puts DEF storePending, holdTurn, Pcs, Untaken, Turning
  <2>5. past' \in PastType
    BY <1>16, <2>1, Holds DEF storePending
  <2> QED
    BY <1>16, <2>1, <2>2, <2>3, <2>4, <2>5 DEF storePending, holdTurn
<1>17. ASSUME SignIn PROVE TypedState'
  <2>1. db' \in DbType
    BY <1>17, DbSets DEF SignIn
  <2>2. past' \in PastType
    BY <1>17, <2>1, PastSets, Numbers, Sets DEF SignIn, Failed, Fate
  <2> QED
    BY <1>17, <2>1, <2>2 DEF SignIn
<1>18. ASSUME Disconnect PROVE TypedState'
  <2>1. db' \in DbType
    BY <1>18, DbSets DEF Disconnect
  <2> QED
    BY <1>18, <2>1 DEF Disconnect
<1>19. ASSUME takeTurn PROVE TypedState'
  <2>1. db' \in DbType
    BY <1>19, DbSets DEF takeTurn, TakePendingTurn, CarryOut, Fresh
  <2>2. mem' \in MemType
    BY <1>19, MemSets DEF takeTurn, TakePendingTurn, CarryOut, Fresh
  <2>3. run' \in RunType
    <3>1. CASE UNCHANGED run
      BY <3>1
    <3>2. ASSUME NEW h, CarryOut(h), h \in Held PROVE run' \in RunType
      BY <3>2, Carries
    <3>3. /\ Fresh(db.held) => db.held \in Held
          /\ mem.held.msg # NoMsg => mem.held \in Held
      BY HeldOnes
    <3> QED BY <1>19, <3>1, <3>2, <3>3 DEF takeTurn
  <2>4. past' \in PastType
    <3>1. CASE UNCHANGED past
      BY <3>1
    <3>2. ASSUME NEW h, CarryOut(h), h \in Held PROVE past' \in PastType
      BY <3>2, Carries
    <3>3. CASE past' = [past EXCEPT !.early = @ \/ \E p \in Procs : Between(p)]
      <4>1. (past.early \/ \E p \in Procs : Between(p)) \in BOOLEAN
        OBVIOUS
      <4> QED BY <3>3, <4>1, PastSets
    <3>4. /\ Fresh(db.held) => db.held \in Held
          /\ mem.held.msg # NoMsg => mem.held \in Held
      BY HeldOnes
    <3> QED BY <1>19, <3>1, <3>2, <3>3, <3>4 DEF takeTurn
  <2> QED
    BY <1>19, <2>1, <2>2, <2>3, <2>4 DEF takeTurn, TakePendingTurn, CarryOut, Fresh
<1>20. ASSUME NEW c \in Chats, NEW k \in TapKinds, Tap(c, k) PROVE TypedState'
  <2>1. tap' \in TapType
    <3>1. k \in {"link", "instructions", "app"}
      BY InboundConstants
    <3> QED BY <1>20, <3>1 DEF Tap, TapType
  <2>2. past' \in PastType
    BY <1>20, <2>1, PastSets, Numbers, Sets DEF Tap, Failed, Fate
  <2> QED
    BY <1>20, <2>1, <2>2 DEF Tap
<1>21. ASSUME NEW c \in Chats, handleLinkAccountCallback(c) PROVE TypedState'
  <2>1. mem' \in MemType
    BY <1>21, MemSets DEF handleLinkAccountCallback
  <2>2. db' \in DbType
    BY <1>21, DbSets DEF handleLinkAccountCallback
  <2>3. tap' \in TapType
    BY <1>21 DEF handleLinkAccountCallback, TapType
  <2>4. past' \in PastType
    BY <1>21, <2>1, PastSets, Numbers, Sets DEF handleLinkAccountCallback, Failed, Fate
  <2> QED
    BY <1>21, <2>1, <2>2, <2>3, <2>4 DEF handleLinkAccountCallback
<1>22. ASSUME NEW c \in Chats, handleInstructionsCallback(c) PROVE TypedState'
  <2>1. tap' \in TapType
    BY <1>22 DEF handleInstructionsCallback, TapType
  <2>2. mem' \in MemType
    BY <1>22, MemSets DEF handleInstructionsCallback
  <2>3. past' \in PastType
    <3>1. [past EXCEPT !.prompted[c] = past.sent] \in PastType
      BY PastSets, Numbers
    <3> QED BY <1>22, <3>1 DEF handleInstructionsCallback
  <2> QED
    BY <1>22, <2>1, <2>2, <2>3 DEF handleInstructionsCallback
<1>23. ASSUME NEW c \in Chats, handleAppInstructionsCallback(c) PROVE TypedState'
  <2>1. tap' \in TapType
    BY <1>23 DEF handleAppInstructionsCallback, TapType
  <2>2. mem' \in MemType
    BY <1>23, MemSets DEF handleAppInstructionsCallback
  <2> QED
    BY <1>23, <2>1, <2>2 DEF handleAppInstructionsCallback
<1>24. ASSUME NEW c \in Chats, handleInstructionsSubmission(c) PROVE TypedState'
  <2>1. tap' \in TapType
    BY <1>24 DEF handleInstructionsSubmission, TapType
  <2>2. db' \in DbType
    <3>1. [db EXCEPT !.instructions = 0] \in DbType
      BY DbSets DEF Msgs
    <3> QED BY <1>24, <3>1 DEF handleInstructionsSubmission
  <2>3. past' \in PastType
    BY <1>24, Fails DEF handleInstructionsSubmission, Failed
  <2> QED
    BY <1>24, <2>1, <2>2, <2>3 DEF handleInstructionsSubmission
<1>25. ASSUME HalfAMinute PROVE TypedState'
  <2>1. mem' \in MemType
    BY <1>25, MemSets DEF HalfAMinute
  <2>2. past' \in PastType
    BY <1>25, <2>1, PastSets, Numbers, Sets DEF HalfAMinute, Failed, Fate
  <2> QED
    BY <1>25, <2>1, <2>2 DEF HalfAMinute
<1>26. ASSUME LongWait PROVE TypedState'
  <2>1. db' \in DbType
    <3>1. db.held \in Held \cup {NothingHeld} /\ db.email \in [Chats -> {"", "awaiting", "lapsed", "skipped", "sent"}]
      BY DEF DbType
    <3> DEFINE h == IF db.held.msg = NoMsg THEN db.held ELSE [db.held EXCEPT !.old = TRUE]
               e == [c \in Chats |-> IF db.email[c] = "awaiting" THEN "lapsed" ELSE db.email[c]]
    <3>2. h \in Held \cup {NothingHeld}
      BY <3>1 DEF Held, NothingHeld
    <3>3. e \in [Chats -> {"", "awaiting", "lapsed", "skipped", "sent"}]
      BY <3>1
    <3>4. db' = [db EXCEPT !.held = h, !.email = e]
      BY <1>26, DbSets DEF LongWait, DbType
    <3> HIDE DEF h, e
    <3>5. [db EXCEPT !.held = h] \in DbType
      BY <3>2, DbSets
    <3> QED BY <3>3, <3>4, <3>5 DEF DbType
  <2>2. mem' \in MemType
    <3>1. mem.held \in Held \cup {NothingHeld} /\ mem.email \in [Chats -> {"no", "fresh", "old"}]
      BY DEF MemType
    <3> DEFINE h == IF mem.held.msg = NoMsg THEN mem.held ELSE [mem.held EXCEPT !.old = TRUE]
               e == [c \in Chats |-> IF mem.email[c] = "fresh" THEN "old" ELSE mem.email[c]]
    <3>2. h \in Held \cup {NothingHeld}
      BY <3>1 DEF Held, NothingHeld
    <3>3. e \in [Chats -> {"no", "fresh", "old"}]
      BY <3>1
    <3>4. mem' = [mem EXCEPT !.held = h, !.cooling = FALSE, !.email = e]
      BY <1>26 DEF LongWait, MemType
    <3> HIDE DEF h, e
    <3>5. [mem EXCEPT !.held = h] \in MemType
      BY <3>2, MemSets
    <3>6. [mem EXCEPT !.held = h, !.cooling = FALSE] \in MemType
      BY <3>5, MemSets
    <3> QED BY <3>3, <3>4, <3>6 DEF MemType
  <2>3. past' \in PastType
    <3>1. [past EXCEPT !.events = @ + 1] \in PastType
      BY Numbers, PastSets
    <3>2. [past EXCEPT !.events = @ + 1, !.recent = FALSE] \in PastType
      BY <3>1, PastSets
    <3>3. [c \in Chats |-> FALSE] \in [Chats -> BOOLEAN]
      OBVIOUS
    <3>4. [past EXCEPT !.events = @ + 1, !.recent = FALSE, !.asked = [c \in Chats |-> FALSE]] \in PastType
      BY <3>2, <3>3 DEF PastType
    <3> QED BY <1>26, <3>4 DEF LongWait
  <2> QED
    BY <1>26, <2>1, <2>2, <2>3 DEF LongWait
<1>27. ASSUME Restart PROVE TypedState'
  <2>1. mem' \in MemType
    BY <1>27 DEF Restart, Fresh0, MemType
  <2>2. run' \in RunType
    BY <1>27 DEF Restart, RunType
  <2>3. tap' \in TapType
    BY <1>27 DEF Restart, Fresh0, TapType
  <2>4. past' \in PastType
    <3>1. [past EXCEPT !.events = @ + 1, !.recent = FALSE] \in PastType
      BY Numbers, PastSets
    <3>2. (past.cut \/ conn # Idle) \in BOOLEAN
      OBVIOUS
    <3> DEFINE q == [past EXCEPT !.events = @ + 1, !.recent = FALSE, !.cut = @ \/ conn # Idle]
               asked == [c \in Chats |-> past.asked[c] /\ ~past.rearmed[c]]
    <3>3. q \in PastType
      BY <3>1, <3>2, PastSets
    <3>4. asked \in [Chats -> BOOLEAN]
      OBVIOUS
    <3>5. [q EXCEPT !.asked = asked] \in PastType
      <4> HIDE DEF q, asked
      <4> QED BY <3>3, <3>4 DEF PastType
    <3>6. past' = [q EXCEPT !.asked = asked]
      BY <1>27 DEF Restart, PastType
    <3> QED BY <3>5, <3>6
  <2> QED
    BY <1>27, <2>1, <2>2, <2>3, <2>4 DEF Restart, Fresh0
<1>28. CASE UNCHANGED vars
  BY <1>28 DEF vars
<1> QED
  BY <1>1, <1>2, <1>3, <1>4, <1>5, <1>6, <1>7, <1>8, <1>9, <1>10, <1>11, <1>12, <1>13, <1>14, <1>15, <1>16, <1>17, <1>18, <1>19, <1>20, <1>21, <1>22, <1>23, <1>24, <1>25, <1>26, <1>27, <1>28 DEF Next, HandleInbound, Turn

(***************************************************************************)
(* Where the messages are.                                                 *)
(***************************************************************************)
Stops(p, from) == p \in Procs /\ run[p] \in Handling /\ run[p].pc = from /\ run'[p] = Idle /\ Others(p)
Steps(p, from, to) ==
  /\ p \in Procs /\ {run[p], run'[p]} \subseteq Handling /\ run[p].pc = from /\ run'[p].pc = to /\ Others(p)
  /\ run'[p].msg = run[p].msg /\ run'[p].chat = run[p].chat /\ run'[p].due = run[p].due

LEMMA Stopping == ASSUME Types, NEW p \in Procs, NEW from \in Pcs, At(p, from), Done(p) PROVE Stops(p, from)
<1>1. run[p] \in Handling
  BY Busies DEF At, Pcs, Untaken, Turning
<1> QED BY <1>1, Finishes DEF Stops, At

LEMMA Stepping == ASSUME Types, NEW p \in Procs, NEW from \in Pcs, At(p, from), NEW to \in Pcs, Go(p, to) PROVE Steps(p, from, to)
<1>1. Busy(p) /\ run[p] \in Handling
  BY Busies DEF At, Pcs, Untaken, Turning, Busy
<1>2. run' \in RunType /\ run'[p] = [run[p] EXCEPT !.pc = to] /\ Others(p)
  BY <1>1, Goes
<1>3. [run[p] EXCEPT !.pc = to] \in Handling
  BY <1>1 DEF Handling, Pcs
<1> QED BY <1>1, <1>2, <1>3 DEF Steps, At, Handling

LEMMA Beginning == ASSUME Types, NEW p \in Procs, NEW from \in {"reply", "begin"}, At(p, from), Begin(p) PROVE Steps(p, from, "turn")
<1>1. run[p] \in Handling
  BY Busies DEF At
<1> DEFINE r == [run[p] EXCEPT !.signedIn = db.connected, !.pc = "turn"]
<1>2. db.connected \in BOOLEAN
  BY DEF Types, TypedState, DbType
<1>3. r \in Handling
  BY <1>1, <1>2, RunSets DEF Pcs, Turning
<1>4. run'[p] = r /\ Others(p)
  BY <1>1, Begins
<1>5. r.pc = "turn" /\ r.msg = run[p].msg /\ r.chat = run[p].chat /\ r.due = run[p].due
  BY <1>1 DEF Handling
<1> QED BY <1>1, <1>3, <1>4, <1>5 DEF Steps, At

LEMMA Moves ==
  ASSUME Types
  PROVE  /\ \A c \in Chats :
              /\ TurnAway(c) => Stops(c, "who")
              /\ FirstEars(c) => Stops(c, "who") \/ Steps(c, "who", "welcome")
              /\ Welcome(c) => Stops(c, "welcome") \/ Steps(c, "welcome", "look") \/ Steps(c, "welcome", "greet")
              /\ Greet(c) => Stops(c, "greet") \/ Steps(c, "greet", "look")
              /\ LookForEmail(c) => Steps(c, "look", "take") \/ Steps(c, "look", "active")
              /\ handleEmailLinkReply(c) => Stops(c, "take") \/ Steps(c, "take", "skipped") \/ Steps(c, "take", "initiate")
              /\ SettleEmail(c) => Stops(c, "skipped") \/ Stops(c, "initiate")
              /\ SetupCheck(c) => Stops(c, "active") \/ Steps(c, "active", "hold") \/ Steps(c, "active", "reply")
              /\ HoldAtSetup(c) => Stops(c, "hold")
              /\ TakeInstructions(c) => Stops(c, "reply") \/ Steps(c, "reply", "turn")
         /\ \A p \in Procs :
              /\ HandleTurn(p) => Steps(p, "begin", "turn")
              /\ EndTurn(p) => Stops(p, "turn")
              /\ withAuthGate(p) => Steps(p, "turn", "turn") \/ Steps(p, "turn", "gate")
              /\ shouldSendConnectPrompt(p) => Steps(p, "gate", "keep")
              /\ storePending(p) => Steps(p, "keep", "turn")
<1> USE DEF Pcs, Untaken, Turning
<1>1. ASSUME NEW c \in Chats, TurnAway(c) PROVE Stops(c, "who")
  BY <1>1, Stopping, Stepping DEF TurnAway, Procs
<1>2. ASSUME NEW c \in Chats, FirstEars(c) PROVE Stops(c, "who") \/ Steps(c, "who", "welcome")
  BY <1>2, Stopping, Stepping DEF FirstEars, Procs
<1>3. ASSUME NEW c \in Chats, Welcome(c) PROVE Stops(c, "welcome") \/ Steps(c, "welcome", "look") \/ Steps(c, "welcome", "greet")
  <2>1. CASE db.onboarded[c]
    BY <1>3, <2>1, Stopping, Stepping DEF Welcome, Procs
  <2>2. CASE ~db.onboarded[c]
    <3>1. run' = [run EXCEPT ![c].notice = ~db.noticed, ![c].pc = "greet"] /\ run[c].pc = "welcome"
      BY <1>3, <2>2 DEF Welcome, At
    <3>2. run[c] \in Handling /\ c \in Procs
      BY <3>1, Busies DEF Procs
    <3>3. (~db.noticed) \in BOOLEAN
      OBVIOUS
    <3> DEFINE r == [run[c] EXCEPT !.notice = ~db.noticed, !.pc = "greet"]
    <3>4. "greet" \in Pcs
      OBVIOUS
    <3>7. r \in Handling
      BY <3>2, <3>3, <3>4, RunSets
    <3>8. run' = [run EXCEPT ![c] = r]
      <4>1. [run EXCEPT ![c].notice = ~db.noticed, ![c].pc = "greet"] = [run EXCEPT ![c] = r]
        BY <3>2, <3>3, <3>4, RunSets
      <4> QED BY <3>1, <4>1
    <3>5. run'[c] = r /\ Others(c)
      BY <3>2, <3>7, <3>8, Puts
    <3>6. r.pc = "greet" /\ r.msg = run[c].msg /\ r.chat = run[c].chat /\ r.due = run[c].due
      BY <3>2 DEF Handling
    <3> QED BY <3>1, <3>2, <3>5, <3>6, <3>7 DEF Steps
  <2> QED BY <2>1, <2>2
<1>4. ASSUME NEW c \in Chats, Greet(c) PROVE Stops(c, "greet") \/ Steps(c, "greet", "look")
  <2>1. CASE Done(c)
    BY <1>4, <2>1, Stopping DEF Greet, Procs
  <2>2. CASE ~Done(c)
    <3>1. run' = [run EXCEPT ![c].notice = FALSE, ![c].pc = "look"] /\ run[c].pc = "greet"
      BY <1>4, <2>2 DEF Greet, At, Done
    <3>2. run[c] \in Handling /\ c \in Procs
      BY <3>1, Busies DEF Procs
    <3> DEFINE r == [run[c] EXCEPT !.notice = FALSE, !.pc = "look"]
    <3>4. r \in Handling /\ run' = [run EXCEPT ![c] = r]
      BY <3>1, <3>2, RunSets
    <3>5. run'[c] = r /\ Others(c)
      BY <3>2, <3>4, Puts
    <3>6. r.pc = "look" /\ r.msg = run[c].msg /\ r.chat = run[c].chat /\ r.due = run[c].due
      BY <3>2 DEF Handling
    <3> QED BY <3>1, <3>2, <3>4, <3>5, <3>6 DEF Steps
  <2> QED BY <2>1, <2>2
<1>5. ASSUME NEW c \in Chats, LookForEmail(c) PROVE Steps(c, "look", "take") \/ Steps(c, "look", "active")
  BY <1>5, Stopping, Stepping DEF LookForEmail, Procs
<1>6. ASSUME NEW c \in Chats, handleEmailLinkReply(c) PROVE Stops(c, "take") \/ Steps(c, "take", "skipped") \/ Steps(c, "take", "initiate")
  BY <1>6, Stopping, Stepping DEF handleEmailLinkReply, Procs
<1>7. ASSUME NEW c \in Chats, SettleEmail(c) PROVE Stops(c, "skipped") \/ Stops(c, "initiate")
  BY <1>7, Stopping, Stepping DEF SettleEmail, Procs
<1>8. ASSUME NEW c \in Chats, SetupCheck(c) PROVE Stops(c, "active") \/ Steps(c, "active", "hold") \/ Steps(c, "active", "reply")
  BY <1>8, Stopping, Stepping DEF SetupCheck, Procs
<1>9. ASSUME NEW c \in Chats, HoldAtSetup(c) PROVE Stops(c, "hold")
  BY <1>9, Stopping, Stepping DEF HoldAtSetup, Procs
<1>10. ASSUME NEW c \in Chats, TakeInstructions(c) PROVE Stops(c, "reply") \/ Steps(c, "reply", "turn")
  <2>1. CASE Done(c)
    BY <1>10, <2>1, Stopping DEF TakeInstructions, Procs
  <2>2. CASE Begin(c)
    BY <1>10, <2>2, Beginning DEF TakeInstructions, Procs, At
  <2> QED BY <1>10, <2>1, <2>2 DEF TakeInstructions
<1>11. ASSUME NEW p \in Procs, HandleTurn(p) PROVE Steps(p, "begin", "turn")
  BY <1>11, Beginning DEF HandleTurn, At
<1>12. ASSUME NEW p \in Procs, EndTurn(p) PROVE Stops(p, "turn")
  BY <1>12, Stopping, Stepping DEF EndTurn, Procs
<1>13. ASSUME NEW p \in Procs, withAuthGate(p) PROVE Steps(p, "turn", "turn") \/ Steps(p, "turn", "gate")
  <2>1. run[p].pc = "turn" /\ run[p] \in Handling
    BY <1>13, Busies DEF withAuthGate, At
  <2>2. PICK pc \in {"turn", "gate"} : run' = [run EXCEPT ![p].calls = @ + 1, ![p].pc = pc]
    BY <1>13 DEF withAuthGate
  <2> DEFINE r == [run[p] EXCEPT !.calls = run[p].calls + 1, !.pc = pc]
  <2>3. run[p].calls + 1 \in Nat
    BY <2>1 DEF Handling
  <2>4. r \in Handling
    BY <2>1, <2>3 DEF Handling
  <2>5. run' = [run EXCEPT ![p] = r]
    BY <2>2 DEF Types, TypedState, RunType
  <2>6. run'[p] = r /\ Others(p)
    BY <2>4, <2>5, Puts
  <2>7. r.pc = pc /\ r.msg = run[p].msg /\ r.chat = run[p].chat /\ r.due = run[p].due
    BY <2>1 DEF Handling
  <2> QED BY <2>1, <2>4, <2>6, <2>7 DEF Steps
<1>14. ASSUME NEW p \in Procs, shouldSendConnectPrompt(p) PROVE Steps(p, "gate", "keep")
  BY <1>14, Stopping, Stepping DEF shouldSendConnectPrompt, Procs
<1>15. ASSUME NEW p \in Procs, storePending(p) PROVE Steps(p, "keep", "turn")
  BY <1>15, Stopping, Stepping DEF storePending, Procs
<1> QED BY <1>1, <1>2, <1>3, <1>4, <1>5, <1>6, <1>7, <1>8, <1>9, <1>10, <1>11, <1>12, <1>13, <1>14, <1>15

HeldSame == db'.held = db.held /\ mem'.held = mem.held

\* Taking a held turn leaves what is held, or nothing.
LEMMA TakesAway ==
  ASSUME Types, takeTurn
  PROVE  db'.held \in {NothingHeld, db.held} /\ mem'.held \in {NothingHeld, mem.held}
<1>1. db' = db \/ db' = [db EXCEPT !.held = NothingHeld]
  BY DEF takeTurn, TakePendingTurn
<1>2. mem' = mem \/ mem' = [mem EXCEPT !.held = NothingHeld]
  BY DEF takeTurn
<1>3. db'.held \in {NothingHeld, db.held}
  BY <1>1 DEF Types, TypedState, DbType
<1>4. mem'.held \in {NothingHeld, mem.held}
  BY <1>2 DEF Types, TypedState, MemType
<1> QED BY <1>3, <1>4

\* Text from a dialog is no message of a chat's line.
LEMMA Submitted ==
  ASSUME Types, NEW c \in Chats, handleInstructionsSubmission(c)
  PROVE  past'.sent = past.sent /\ past'.fate = past.fate /\ HeldSame /\ run' = run
<1>1. past' = past \/ past' = [past EXCEPT !.events = @ + 1, !.faults = TRUE]
  BY DEF handleInstructionsSubmission, Failed
<1>2. db' = db \/ db' = [db EXCEPT !.instructions = 0]
  BY DEF handleInstructionsSubmission
<1>3. past'.sent = past.sent /\ past'.fate = past.fate
  BY <1>1 DEF Types, TypedState, PastType
<1>4. db'.held = db.held
  BY <1>2 DEF Types, TypedState, DbType
<1>5. mem' = mem /\ run' = run
  BY DEF handleInstructionsSubmission
<1> QED BY <1>3, <1>4, <1>5 DEF HeldSame

\* After such a step nobody handles what they did not handle before.
LEMMA Stay ==
  ASSUME Types, NEW p, NEW from, NEW to, Stops(p, from) \/ Steps(p, from, to), NEW q \in Procs, Busy(q)'
  PROVE  Busy(q) /\ run'[q].msg = run[q].msg /\ run'[q].chat = run[q].chat /\ (q # p => run'[q] = run[q]) /\ (q = p => Steps(p, from, to))
<1>1. CASE q # p
  BY <1>1 DEF Stops, Steps, Others, Busy
<1>2. CASE q = p
  <2>1. Steps(p, from, to)
    BY <1>2 DEF Stops, Busy, Idle
  <2>2. run[p].pc # "idle"
    BY <2>1 DEF Steps, Handling, Untaken, Turning
  <2> QED BY <1>2, <2>1, <2>2 DEF Steps, Busy
<1> QED BY <1>1, <1>2

LEMMA PlacesStep ==
  ASSUME Types, NEW p \in Procs, NEW from, NEW to,
         Stops(p, from) \/ (Steps(p, from, to) /\ to # "begin" /\ (p \in Chats \/ to \in Turning)),
         past'.sent = past.sent,
         \A h \in {db'.held, mem'.held} : h \in {NothingHeld, db.held, mem.held} \/ h.msg = run[p].msg
  PROVE  Places'
<1> USE DEF Types
<1>1. past.sent \in Nat
  BY Numbers
<1>2. ASSUME NEW c \in Chats, Busy(c)' PROVE run'[c].chat = c /\ run'[c].msg <= past'.sent /\ run'[c].pc # "begin"
  <2>1. c \in Procs
    BY DEF Procs
  <2>2. Busy(c) /\ run'[c].msg = run[c].msg /\ run'[c].chat = run[c].chat /\ (c # p => run'[c] = run[c]) /\ (c = p => Steps(p, from, to))
    BY <1>2, <2>1, Stay
  <2>3. run[c].chat = c /\ run[c].msg <= past.sent /\ run[c].pc # "begin"
    BY <2>2 DEF Places
  <2> QED BY <1>2, <2>2, <2>3 DEF Steps, Stops, Busy, Idle
<1>3. ASSUME NEW i \in Ids, Busy(i)' PROVE run'[i].msg = i /\ i <= past'.sent /\ run'[i].pc \in Turning
  <2>1. i \in Procs /\ i \notin Chats
    BY InboundConstants DEF Procs
  <2>2. Busy(i) /\ run'[i].msg = run[i].msg /\ (i # p => run'[i] = run[i]) /\ (i = p => Steps(p, from, to))
    BY <1>3, <2>1, Stay
  <2>3. run[i].msg = i /\ i <= past.sent /\ run[i].pc \in Turning
    BY <2>2 DEF Places
  <2> QED BY <1>3, <2>1, <2>2, <2>3 DEF Steps, Stops, Busy, Idle
<1>4. ASSUME NEW h \in {db'.held, mem'.held}, h # NothingHeld PROVE h.msg <= past'.sent
  <2>1. run[p].msg <= past.sent
    <3>1. Busy(p) /\ run[p] \in Handling
      BY DEF Stops, Steps, Busy, Handling, Untaken, Turning
    <3> QED BY <3>1 DEF Places, Procs
  <2> QED BY <1>4, <2>1 DEF Places
<1> QED BY <1>2, <1>3, <1>4 DEF Places, Busy

LEMMA Keeping ==
  ASSUME Types, NEW p \in Procs, run[p] \in Handling, holdTurn(p)
  PROVE  /\ \A h \in {db'.held, mem'.held} : h \in {NothingHeld, db.held, mem.held} \/ h.msg = run[p].msg
         /\ past'.sent = past.sent /\ past'.fate = past.fate
<1>1. past'.sent = past.sent /\ past'.fate = past.fate
  BY DEF holdTurn, Types, TypedState, PastType
<1>2. \/ UNCHANGED mem /\ db' = [db EXCEPT !.held = [msg |-> run[p].msg, chat |-> Chat(p), old |-> FALSE]]
      \/ UNCHANGED db /\ mem' = [mem EXCEPT !.held = [msg |-> run[p].msg, chat |-> Chat(p), old |-> FALSE]]
  BY DEF holdTurn
<1>3. \/ mem'.held = mem.held /\ db'.held.msg = run[p].msg
      \/ db'.held = db.held /\ mem'.held.msg = run[p].msg
  <2>1. db \in DbType /\ mem \in MemType
    BY DEF Types, TypedState
  <2> DEFINE h == [msg |-> run[p].msg, chat |-> Chat(p), old |-> FALSE]
  <2>2. h.msg = run[p].msg
    OBVIOUS
  <2>3. [db EXCEPT !.held = h].held = h /\ [mem EXCEPT !.held = h].held = h
    BY <2>1 DEF DbType, MemType
  <2> QED BY <1>2, <2>2, <2>3
<1> QED BY <1>1, <1>3

LEMMA PlacesKept == Types /\ [Next]_vars => Places'
<1> SUFFICES ASSUME Types, [Next]_vars PROVE Places'
  OBVIOUS
<1> USE DEF Types, TypedState
<1>1. ASSUME NEW c \in Chats, NEW k \in Kinds, Write(c, k) PROVE Places'
  <2> DEFINE r == [pc |-> "who", msg |-> past.sent + 1, kind |-> k, chat |-> c, due |-> past.asked[c],
                   notice |-> FALSE, signedIn |-> FALSE, calls |-> 0]
  <2>1. past.sent \in Nat /\ past'.sent = past.sent + 1 /\ HeldSame
    BY <1>1, Numbers DEF Write, PastType, HeldSame
  <2>2. r.pc = "who" /\ r.msg = past.sent + 1 /\ r.chat = c
    OBVIOUS
  <2> HIDE DEF r
  <2>3. run'[c] = r /\ \A q \in Procs \ {c} : run'[q] = run[q]
    BY <1>1 DEF Write, RunType, Procs, r
  <2>4. \A q \in Ids : run'[q] = run[q]
    BY <2>3, InboundConstants DEF Procs
  <2>5. \A h \in {db.held, mem.held} : h # NothingHeld => h.msg <= past.sent /\ h.msg \in Nat
    <3>1. {db.held, mem.held} \subseteq Held \cup {NothingHeld}
      BY DEF DbType, MemType
    <3>2. \A h \in Held : h.msg \in Nat
      BY DEF Held, Ids
    <3> QED BY <3>1, <3>2 DEF Places
  <2>6. \A d \in Chats : Busy(d) => run[d].msg <= past.sent /\ run[d].msg \in Nat
    BY Busies DEF Places, Busy, Handling, Ids, Procs
  <2> QED BY <2>1, <2>2, <2>3, <2>4, <2>5, <2>6, InboundConstants DEF HeldSame, Places, Busy, Procs, Ids
<1>2. ASSUME NEW c \in Chats, TurnAway(c) PROVE Places'
  <2>1. Stops(c, "who")
    BY <1>2, Moves
  <2>2. past'.sent = past.sent
    BY <1>2 DEF TurnAway, Failed, Fate, PastType
  <2>3. HeldSame
    BY <1>2 DEF TurnAway, DbType, MemType, HeldSame
  <2> QED BY <2>1, <2>2, <2>3, PlacesStep DEF HeldSame, Procs, Turning
<1>3. ASSUME NEW c \in Chats, FirstEars(c) PROVE Places'
  <2>1. Stops(c, "who") \/ Steps(c, "who", "welcome")
    BY <1>3, Moves
  <2>2. past'.sent = past.sent
    BY <1>3 DEF FirstEars, Failed, Fate, PastType
  <2>3. HeldSame
    BY <1>3 DEF FirstEars, DbType, MemType, HeldSame
  <2> QED BY <2>1, <2>2, <2>3, PlacesStep DEF HeldSame, Procs, Turning
<1>4. ASSUME NEW c \in Chats, Welcome(c) PROVE Places'
  <2>1. Stops(c, "welcome") \/ Steps(c, "welcome", "look") \/ Steps(c, "welcome", "greet")
    BY <1>4, Moves
  <2>2. past'.sent = past.sent
    BY <1>4 DEF Welcome, Failed, Fate, PastType
  <2>3. HeldSame
    BY <1>4 DEF Welcome, DbType, MemType, HeldSame
  <2> QED BY <2>1, <2>2, <2>3, PlacesStep DEF HeldSame, Procs, Turning
<1>5. ASSUME NEW c \in Chats, Greet(c) PROVE Places'
  <2>1. Stops(c, "greet") \/ Steps(c, "greet", "look")
    BY <1>5, Moves
  <2>2. past'.sent = past.sent
    BY <1>5 DEF Greet, Failed, Fate, PastType
  <2>3. HeldSame
    BY <1>5 DEF Greet, DbType, MemType, HeldSame
  <2> QED BY <2>1, <2>2, <2>3, PlacesStep DEF HeldSame, Procs, Turning
<1>6. ASSUME NEW c \in Chats, LookForEmail(c) PROVE Places'
  <2>1. Steps(c, "look", "take") \/ Steps(c, "look", "active")
    BY <1>6, Moves
  <2>2. past'.sent = past.sent
    BY <1>6 DEF LookForEmail, Failed, Fate, PastType
  <2>3. HeldSame
    BY <1>6 DEF LookForEmail, DbType, MemType, HeldSame
  <2> QED BY <2>1, <2>2, <2>3, PlacesStep DEF HeldSame, Procs, Turning
<1>7. ASSUME NEW c \in Chats, handleEmailLinkReply(c) PROVE Places'
  <2>1. Stops(c, "take") \/ Steps(c, "take", "skipped") \/ Steps(c, "take", "initiate")
    BY <1>7, Moves
  <2>2. past'.sent = past.sent
    BY <1>7 DEF handleEmailLinkReply, Failed, Fate, PastType
  <2>3. HeldSame
    BY <1>7 DEF handleEmailLinkReply, DbType, MemType, HeldSame
  <2> QED BY <2>1, <2>2, <2>3, PlacesStep DEF HeldSame, Procs, Turning
<1>8. ASSUME NEW c \in Chats, SettleEmail(c) PROVE Places'
  <2>1. Stops(c, "skipped") \/ Stops(c, "initiate")
    BY <1>8, Moves
  <2>2. past'.sent = past.sent
    BY <1>8 DEF SettleEmail, Failed, Fate, PastType
  <2>3. HeldSame
    BY <1>8 DEF SettleEmail, DbType, MemType, HeldSame
  <2> QED BY <2>1, <2>2, <2>3, PlacesStep DEF HeldSame, Procs, Turning
<1>9. ASSUME NEW c \in Chats, SetupCheck(c) PROVE Places'
  <2>1. Stops(c, "active") \/ Steps(c, "active", "hold") \/ Steps(c, "active", "reply")
    BY <1>9, Moves
  <2>2. past'.sent = past.sent
    BY <1>9 DEF SetupCheck, Failed, Fate, PastType
  <2>3. HeldSame
    BY <1>9 DEF SetupCheck, DbType, MemType, HeldSame
  <2> QED BY <2>1, <2>2, <2>3, PlacesStep DEF HeldSame, Procs, Turning
<1>10. ASSUME NEW c \in Chats, HoldAtSetup(c) PROVE Places'
  <2>1. Stops(c, "hold")
    BY <1>10, Moves
  <2>2. c \in Procs /\ run[c] \in Handling
    BY <2>1 DEF Stops, Steps
  <2>3. \A h \in {db'.held, mem'.held} : h \in {NothingHeld, db.held, mem.held} \/ h.msg = run[c].msg
    BY <1>10, <2>2, Keeping DEF HoldAtSetup
  <2>4. past'.sent = past.sent
    BY <1>10, <2>2, Keeping DEF HoldAtSetup
  <2> QED BY <2>1, <2>2, <2>3, <2>4, PlacesStep DEF Turning
<1>11. ASSUME NEW c \in Chats, TakeInstructions(c) PROVE Places'
  <2>1. Stops(c, "reply") \/ Steps(c, "reply", "turn")
    BY <1>11, Moves
  <2>2. past'.sent = past.sent
    BY <1>11 DEF TakeInstructions, Begin, Failed, Fate, PastType
  <2>3. HeldSame
    BY <1>11 DEF TakeInstructions, Begin, DbType, MemType, HeldSame
  <2> QED BY <2>1, <2>2, <2>3, PlacesStep DEF HeldSame, Procs, Turning
<1>12. ASSUME NEW p \in Procs, HandleTurn(p) PROVE Places'
  <2>1. Steps(p, "begin", "turn")
    BY <1>12, Moves
  <2>2. past'.sent = past.sent
    BY <1>12 DEF HandleTurn, Begin, Failed, Fate, PastType
  <2>3. HeldSame
    BY <1>12 DEF HandleTurn, Begin, DbType, MemType, HeldSame
  <2> QED BY <2>1, <2>2, <2>3, PlacesStep DEF HeldSame, Procs, Turning
<1>13. ASSUME NEW p \in Procs, EndTurn(p) PROVE Places'
  <2>1. Stops(p, "turn")
    BY <1>13, Moves
  <2>2. past'.sent = past.sent
    BY <1>13 DEF EndTurn, Failed, Fate, PastType
  <2>3. HeldSame
    BY <1>13 DEF EndTurn, DbType, MemType, HeldSame
  <2> QED BY <2>1, <2>2, <2>3, PlacesStep DEF HeldSame, Procs, Turning
<1>14. ASSUME NEW p \in Procs, withAuthGate(p) PROVE Places'
  <2>1. Steps(p, "turn", "turn") \/ Steps(p, "turn", "gate")
    BY <1>14, Moves
  <2>2. past'.sent = past.sent
    BY <1>14 DEF withAuthGate, Failed, Fate, PastType
  <2>3. HeldSame
    BY <1>14 DEF withAuthGate, DbType, MemType, HeldSame
  <2> QED BY <2>1, <2>2, <2>3, PlacesStep DEF HeldSame, Procs, Turning
<1>15. ASSUME NEW p \in Procs, shouldSendConnectPrompt(p) PROVE Places'
  <2>1. Steps(p, "gate", "keep")
    BY <1>15, Moves
  <2>2. past'.sent = past.sent
    BY <1>15 DEF shouldSendConnectPrompt, Failed, Fate, PastType
  <2>3. HeldSame
    BY <1>15 DEF shouldSendConnectPrompt, DbType, MemType, HeldSame
  <2> QED BY <2>1, <2>2, <2>3, PlacesStep DEF HeldSame, Procs, Turning
<1>16. ASSUME NEW p \in Procs, storePending(p) PROVE Places'
  <2>1. Steps(p, "keep", "turn")
    BY <1>16, Moves
  <2>2. p \in Procs /\ run[p] \in Handling
    BY <2>1 DEF Stops, Steps
  <2>3. \A h \in {db'.held, mem'.held} : h \in {NothingHeld, db.held, mem.held} \/ h.msg = run[p].msg
    BY <1>16, <2>2, Keeping DEF storePending
  <2>4. past'.sent = past.sent
    BY <1>16, <2>2, Keeping DEF storePending
  <2> QED BY <2>1, <2>2, <2>3, <2>4, PlacesStep DEF Turning
<1>17. ASSUME SignIn PROVE Places'
  <2>1. past'.sent = past.sent /\ HeldSame /\ run' = run
    BY <1>17 DEF SignIn, Failed, PastType, DbType, MemType, HeldSame
  <2> QED BY <2>1 DEF HeldSame, Places, Busy
<1>18. ASSUME Disconnect PROVE Places'
  <2>1. past'.sent = past.sent /\ HeldSame /\ run' = run
    BY <1>18 DEF Disconnect, Failed, PastType, DbType, MemType, HeldSame
  <2> QED BY <2>1 DEF HeldSame, Places, Busy
<1>19. ASSUME takeTurn PROVE Places'
  <2>1. past'.sent = past.sent
    BY <1>19 DEF takeTurn, TakePendingTurn, CarryOut, Fresh, PastType
  <2>2. db'.held \in {NothingHeld, db.held} /\ mem'.held \in {NothingHeld, mem.held}
    BY <1>19, TakesAway
  <2>3. CASE UNCHANGED run
    BY <2>1, <2>2, <2>3 DEF Places, Busy
  <2>4. ASSUME NEW h \in {db.held, mem.held}, h \in Held, CarryOut(h) PROVE Places'
    <3>1. run' = run \/ (run'[h.msg] = Replay(h) /\ Others(h.msg))
      BY <2>4, Carries
    <3>2. h.msg \in Ids /\ h.msg <= past.sent
      BY <2>4, InboundConstants DEF Held, Places, NothingHeld
    <3>3. Replay(h).msg = h.msg /\ Replay(h).pc = "begin"
      BY DEF Replay
    <3>4. \A c \in Chats : run'[c] = run[c]
      BY <3>1, <3>2, InboundConstants DEF Others, Procs
    <3> QED BY <2>1, <2>2, <3>1, <3>2, <3>3, <3>4 DEF Places, Busy, Others, Procs, Turning
  <2>5. (Fresh(db.held) => db.held \in Held) /\ (mem.held.msg # NoMsg => mem.held \in Held)
    BY HeldOnes
  <2> QED BY <1>19, <2>3, <2>4, <2>5 DEF takeTurn
<1>20. ASSUME NEW c \in Chats, NEW k \in TapKinds, Tap(c, k) PROVE Places'
  <2>1. past'.sent = past.sent /\ HeldSame /\ run' = run
    BY <1>20 DEF Tap, Failed, PastType, DbType, MemType, HeldSame
  <2> QED BY <2>1 DEF HeldSame, Places, Busy
<1>21. ASSUME NEW c \in Chats, handleLinkAccountCallback(c) PROVE Places'
  <2>1. past'.sent = past.sent /\ HeldSame /\ run' = run
    BY <1>21 DEF handleLinkAccountCallback, Failed, PastType, DbType, MemType, HeldSame
  <2> QED BY <2>1 DEF HeldSame, Places, Busy
<1>22. ASSUME NEW c \in Chats, handleInstructionsCallback(c) PROVE Places'
  <2>1. past'.sent = past.sent /\ HeldSame /\ run' = run
    BY <1>22 DEF handleInstructionsCallback, Failed, PastType, DbType, MemType, HeldSame
  <2> QED BY <2>1 DEF HeldSame, Places, Busy
<1>23. ASSUME NEW c \in Chats, handleAppInstructionsCallback(c) PROVE Places'
  <2>1. past'.sent = past.sent /\ HeldSame /\ run' = run
    BY <1>23 DEF handleAppInstructionsCallback, Failed, PastType, DbType, MemType, HeldSame
  <2> QED BY <2>1 DEF HeldSame, Places, Busy
<1>24. ASSUME NEW c \in Chats, handleInstructionsSubmission(c) PROVE Places'
  <2>1. past'.sent = past.sent /\ HeldSame /\ run' = run
    BY <1>24, Submitted
  <2> QED BY <2>1 DEF HeldSame, Places, Busy
<1>25. ASSUME HalfAMinute PROVE Places'
  <2>1. past'.sent = past.sent /\ HeldSame /\ run' = run
    BY <1>25 DEF HalfAMinute, Failed, PastType, DbType, MemType, HeldSame
  <2> QED BY <2>1 DEF HeldSame, Places, Busy
<1>26. ASSUME LongWait PROVE Places'
  <2>1. past'.sent = past.sent /\ run' = run
    BY <1>26 DEF LongWait, PastType
  <2>2. \/ db'.held = db.held
        \/ db.held \in Held /\ db'.held.msg = db.held.msg
    <3>1. db'.held = IF db.held.msg = NoMsg THEN db.held ELSE [db.held EXCEPT !.old = TRUE]
      BY <1>26 DEF LongWait, DbType
    <3> QED BY <3>1 DEF DbType, Held, NothingHeld
  <2>3. \/ mem'.held = mem.held
        \/ mem.held \in Held /\ mem'.held.msg = mem.held.msg
    <3>1. mem'.held = IF mem.held.msg = NoMsg THEN mem.held ELSE [mem.held EXCEPT !.old = TRUE]
      BY <1>26 DEF LongWait, MemType
    <3> QED BY <3>1 DEF MemType, Held, NothingHeld
  <2>4. \A h \in Held : h # NothingHeld
    BY InboundConstants DEF Held, NothingHeld
  <2> QED BY <2>1, <2>2, <2>3, <2>4 DEF Places, Busy
<1>27. ASSUME Restart PROVE Places'
  <2>1. past'.sent = past.sent /\ db'.held = db.held /\ mem'.held = NothingHeld
    BY <1>27 DEF Restart, Fresh0, PastType
  <2>2. \A p \in Procs : run'[p] = Idle
    BY <1>27 DEF Restart
  <2> QED BY <2>1, <2>2 DEF Places, Busy, Idle, Procs
<1>28. CASE UNCHANGED vars
  BY <1>28 DEF vars, Places, Busy
<1> QED
  BY <1>1, <1>2, <1>3, <1>4, <1>5, <1>6, <1>7, <1>8, <1>9, <1>10, <1>11, <1>12, <1>13, <1>14, <1>15, <1>16, <1>17, <1>18, <1>19, <1>20, <1>21, <1>22, <1>23, <1>24, <1>25, <1>26, <1>27, <1>28 DEF Next, HandleInbound, Turn

(***************************************************************************)
(* A message has one taker.                                                *)
(***************************************************************************)
\* Somebody else's message is another one than that of a line that still looks for a taker.
LEMMA Apart ==
  ASSUME Types, Takers, NEW c \in Chats, run[c].pc \in Untaken, NEW p \in Procs \ {c}, Busy(p)
  PROVE  run[p].msg # run[c].msg
<1>1. c \in Procs /\ run[c] \in Handling
  BY Busies DEF Procs, Untaken
<1>2. Alone(c)
  BY DEF Takers
<1>3. CASE p \in Chats
  BY <1>2, <1>3 DEF Alone
<1>4. CASE p \in Ids
  BY <1>2, <1>4 DEF Alone, Types, Places
<1> QED BY <1>3, <1>4 DEF Procs

LEMMA TakersQuiet ==
  ASSUME Types, Takers, NEW p \in Procs, NEW from, NEW to, past'.sent = past.sent, past'.fate = past.fate,
         Stops(p, from) \/ (Steps(p, from, to) /\ (to \in Untaken => from \in Untaken) /\ (to \in Turning => from \in Turning)),
         HeldSame
  PROVE  Takers'
<1>1. ASSUME NEW q \in Procs, run'[q].pc \in Untaken \cup Turning
      PROVE  /\ Busy(q) /\ run'[q].msg = run[q].msg
             /\ run'[q].pc \in Untaken => run[q].pc \in Untaken
             /\ run'[q].pc \in Turning => run[q].pc \in Turning
  <2>1. Busy(q)'
    BY <1>1 DEF Busy, Untaken, Turning
  <2>2. Busy(q) /\ run'[q].msg = run[q].msg /\ (q # p => run'[q] = run[q]) /\ (q = p => Steps(p, from, to))
    BY <2>1, Stay
  <2> QED BY <2>1, <2>2 DEF Steps, Stops, Busy, Idle
<1>2. ASSUME NEW c \in Chats, run'[c].pc \in Untaken PROVE Alone(c)'
  <2>1. c \in Procs /\ run'[c].msg = run[c].msg /\ run[c].pc \in Untaken
    BY <1>1, <1>2 DEF Procs
  <2>2. Alone(c) /\ run[c].msg \in Ids
    BY <2>1, Busies DEF Takers, Handling, Untaken
  <2>3. \A q \in Procs : Busy(q)' => Busy(q) /\ run'[q].msg = run[q].msg
    BY Stay
  <2>4. run[c].msg \in Procs /\ \A d \in Chats : d \in Procs
    BY <2>2 DEF Procs
  <2> QED BY <2>1, <2>2, <2>3, <2>4 DEF Alone, HeldSame
<1>3. ASSUME NEW q \in Procs, run'[q].pc \in Turning PROVE AgentsOwn(run[q].msg) /\ run'[q].msg = run[q].msg
  BY <1>1, <1>3 DEF Takers
<1> QED BY <1>2, <1>3 DEF Takers, AgentsOwn, HeldSame

\* The line finds a taker for its message, and it is not the agent.
LEMMA TakersTaken ==
  ASSUME Types, Takers, NEW c \in Chats, NEW from \in Untaken, NEW to \in {"skipped", "initiate"}, past'.sent = past.sent,
         NEW w \in Fates, past'.fate = [past.fate EXCEPT ![run[c].msg] = @ \cup {w}],
         Stops(c, from) \/ Steps(c, from, to), HeldSame
  PROVE  Takers'
<1> DEFINE m == run[c].msg
<1>1. c \in Procs /\ run[c] \in Handling /\ run[c].pc \in Untaken /\ m \in Ids
  BY DEF Stops, Steps, Handling, Procs
<1>2. Alone(c) /\ m <= past.sent /\ past.sent \in Nat
  BY <1>1, Numbers DEF Takers, Types, Places, Busy, Untaken
<1>3. past'.fate[m] = {w} /\ \A i \in Ids : i # m => past'.fate[i] = past.fate[i]
  BY <1>1, <1>2 DEF Alone, Types, TypedState, PastType
<1>4. ASSUME NEW q \in Procs, run'[q].pc \in Untaken \cup Turning
      PROVE  q # c /\ Busy(q) /\ run'[q] = run[q] /\ run[q] \in Handling /\ run[q].msg \in Ids /\ run[q].msg # m
  <2>1. Busy(q)'
    BY <1>4 DEF Busy, Untaken, Turning
  <2>2. Busy(q) /\ (q # c => run'[q] = run[q]) /\ (q = c => Steps(c, from, to))
    BY <1>1, <2>1, Stay
  <2>3. q # c
    BY <1>4, <2>2 DEF Steps, Untaken, Turning
  <2>4. run[q] \in Handling
    BY <2>2, Busies DEF Busy
  <2>5. run[q].msg # m
    BY <1>1, <2>2, <2>3, Apart
  <2> QED BY <2>2, <2>3, <2>4, <2>5 DEF Handling
<1>5. ASSUME NEW d \in Chats, run'[d].pc \in Untaken PROVE Alone(d)'
  <2>1. d \in Procs /\ run'[d] = run[d] /\ run[d].msg # m /\ run[d].msg \in Ids
    BY <1>4, <1>5 DEF Procs
  <2>2. Alone(d)
    BY <1>5, <2>1 DEF Takers
  <2>3. \A q \in Procs : Busy(q)' => Busy(q) /\ run'[q].msg = run[q].msg
    BY <1>1, Stay
  <2>4. run[d].msg \in Procs /\ \A e \in Chats : e \in Procs
    BY <2>1 DEF Procs
  <2> QED BY <1>3, <2>1, <2>2, <2>3, <2>4 DEF Alone, HeldSame
<1>6. ASSUME NEW q \in Procs, run'[q].pc \in Turning PROVE AgentsOwn(run[q].msg)' /\ run'[q] = run[q]
  BY <1>3, <1>4, <1>6 DEF Takers, AgentsOwn
<1>7. ASSUME NEW h \in {db.held, mem.held}, h # NothingHeld PROVE AgentsOwn(h.msg)'
  <2>1. h.msg # m
    BY <1>2 DEF Alone
  <2>2. h.msg \in Ids
    BY <1>7 DEF Types, TypedState, DbType, MemType, Held
  <2> QED BY <1>3, <1>7, <2>1, <2>2 DEF Takers, AgentsOwn
<1>8. \A i \in Ids : i > past'.sent => past'.fate[i] = {}
  BY <1>1, <1>2, <1>3 DEF Takers, Ids
<1>9. \A i \in Ids : \A x, y \in past'.fate[i] : x = y
  BY <1>3 DEF Takers
<1> QED BY <1>5, <1>6, <1>7, <1>8, <1>9 DEF Takers, AgentsOwn, HeldSame

\* A turn begins.
LEMMA TakersBegin ==
  ASSUME Types, Takers, NEW p \in Procs, NEW from \in {"reply", "begin"}, p \in Ids => from = "begin", past'.sent = past.sent,
         past'.fate = [past.fate EXCEPT ![run[p].msg] = @ \cup {"agent"}],
         Steps(p, from, "turn"), HeldSame
  PROVE  Takers'
<1> DEFINE m == run[p].msg
<1>1. run[p] \in Handling /\ run[p].pc = from /\ m \in Ids /\ Busy(p)
  BY DEF Steps, Handling, Busy
<1>2. m <= past.sent /\ past.sent \in Nat
  BY <1>1, Numbers DEF Types, Places, Procs
<1>3. past.fate[m] \subseteq {"agent"}
  <2>1. CASE p \in Chats
    BY <1>1, <2>1 DEF Takers, Alone, AgentsOwn, Untaken, Turning
  <2>2. CASE p \in Ids
    BY <1>1, <2>2 DEF Takers, AgentsOwn, Turning
  <2> QED BY <2>1, <2>2 DEF Procs
<1>4. past'.fate[m] = {"agent"} /\ \A i \in Ids : i # m => past'.fate[i] = past.fate[i]
  BY <1>1, <1>3 DEF Types, TypedState, PastType
<1>5. ASSUME NEW c \in Chats, run'[c].pc \in Untaken PROVE Alone(c)'
  <2>1. c \in Procs /\ c # p /\ run'[c] = run[c]
    BY <1>5 DEF Steps, Others, Untaken, Procs
  <2>2. Alone(c) /\ run[c].msg \in Ids
    BY <1>5, <2>1, Busies DEF Takers, Handling, Untaken
  <2>3. m # run[c].msg
    BY <1>1, <1>5, <2>1, Apart
  <2>4. \A q \in Procs : Busy(q)' => Busy(q) /\ run'[q].msg = run[q].msg
    BY Stay
  <2>5. run[c].msg \in Procs /\ \A e \in Chats : e \in Procs
    BY <2>2 DEF Procs
  <2> QED BY <1>4, <2>1, <2>2, <2>3, <2>4, <2>5 DEF Alone, HeldSame
<1>6. ASSUME NEW q \in Procs, run'[q].pc \in Turning PROVE AgentsOwn(run[q].msg)'
  <2>1. Busy(q)'
    BY <1>6 DEF Busy, Turning
  <2>2. Busy(q) /\ run'[q].msg = run[q].msg /\ (q # p => run'[q] = run[q])
    BY <2>1, Stay
  <2>3. run[q].msg \in Ids
    BY <2>2, Busies DEF Busy, Handling
  <2> QED BY <1>4, <1>6, <2>2, <2>3 DEF Takers, AgentsOwn
<1>7. ASSUME NEW h \in {db.held, mem.held}, h # NothingHeld PROVE AgentsOwn(h.msg)'
  <2>1. h.msg \in Ids
    BY <1>7 DEF Types, TypedState, DbType, MemType, Held
  <2> QED BY <1>4, <1>7, <2>1 DEF Takers, AgentsOwn
<1>8. \A i \in Ids : i > past'.sent => past'.fate[i] = {}
  BY <1>1, <1>2, <1>4 DEF Takers, Ids
<1>9. \A i \in Ids : \A x, y \in past'.fate[i] : x = y
  BY <1>4 DEF Takers
<1> QED BY <1>5, <1>6, <1>7, <1>8, <1>9 DEF Takers, AgentsOwn, HeldSame

\* A request is held.
LEMMA TakersHeld ==
  ASSUME Types, Takers, NEW p \in Procs, past'.sent = past.sent, past'.fate = past.fate,
         (p \in Chats /\ Stops(p, "hold")) \/ Steps(p, "keep", "turn"),
         \A h \in {db'.held, mem'.held} : h \in {NothingHeld, db.held, mem.held} \/ h.msg = run[p].msg
  PROVE  Takers'
<1>1. run[p] \in Handling /\ Busy(p) /\ run[p].msg \in Ids
  BY DEF Steps, Stops, Handling, Busy
<1>2. AgentsOwn(run[p].msg)
  BY DEF Takers, Steps, Stops, Turning, Untaken, Alone, AgentsOwn
<1>3. ASSUME NEW c \in Chats, run'[c].pc \in Untaken PROVE Alone(c)'
  <2>1. c \in Procs /\ c # p /\ run'[c] = run[c]
    BY <1>3 DEF Steps, Stops, Others, Untaken, Procs, Idle
  <2>2. Alone(c) /\ run[c].msg \in Ids
    BY <1>3, <2>1, Busies DEF Takers, Handling, Untaken
  <2>3. run[p].msg # run[c].msg
    BY <1>1, <1>3, <2>1, Apart
  <2>4. \A q \in Procs : Busy(q)' => Busy(q) /\ run'[q].msg = run[q].msg
    BY Stay
  <2>5. run[c].msg \in Procs /\ \A e \in Chats : e \in Procs
    BY <2>2 DEF Procs
  <2>6. NoMsg # run[c].msg
    BY <2>2, InboundConstants
  <2>7. db'.held.msg # run[c].msg /\ mem'.held.msg # run[c].msg
    BY <2>2, <2>3, <2>6 DEF Alone, NothingHeld
  <2> QED BY <2>1, <2>2, <2>4, <2>5, <2>7 DEF Alone
<1>4. ASSUME NEW q \in Procs, run'[q].pc \in Turning PROVE AgentsOwn(run[q].msg) /\ run'[q].msg = run[q].msg
  <2>1. Busy(q)'
    BY <1>4 DEF Busy, Turning
  <2>2. Busy(q) /\ run'[q].msg = run[q].msg /\ (q # p => run'[q] = run[q])
    BY <2>1, Stay
  <2> QED BY <1>2, <1>4, <2>2 DEF Takers
<1>5. ASSUME NEW h \in {db'.held, mem'.held}, h # NothingHeld PROVE AgentsOwn(h.msg)
  BY <1>2, <1>5 DEF Takers
<1> QED BY <1>3, <1>4, <1>5 DEF Takers, AgentsOwn

LEMMA TakersKept == Types /\ Takers /\ [Next]_vars => Takers'
<1> SUFFICES ASSUME Types, Takers, [Next]_vars PROVE Takers'
  OBVIOUS
<1>0. db \in DbType /\ mem \in MemType /\ run \in RunType /\ past \in PastType
  BY DEF Types, TypedState
<1>1. ASSUME NEW c \in Chats, NEW k \in Kinds, Write(c, k) PROVE Takers'
  <2> DEFINE r == [pc |-> "who", msg |-> past.sent + 1, kind |-> k, chat |-> c, due |-> past.asked[c],
                   notice |-> FALSE, signedIn |-> FALSE, calls |-> 0]
             m == past.sent + 1
  <2>1. past.sent \in Nat /\ past'.sent = m /\ m \in Ids
    BY <1>0, <1>1, Numbers DEF Write, PastType
  <2>2. past'.fate = past.fate /\ HeldSame
    BY <1>0, <1>1 DEF Write, PastType, HeldSame
  <2>3. r.pc = "who" /\ r.msg = m
    OBVIOUS
  <2> HIDE DEF r
  <2>4. run'[c] = r /\ \A q \in Procs \ {c} : run'[q] = run[q]
    BY <1>0, <1>1 DEF Write, RunType, Procs, r
  <2>5. past.fate[m] = {} /\ ~Busy(m)
    BY <2>1 DEF Takers, Types, Places
  <2>6. \A h \in {db.held, mem.held} : h.msg # m
    <3>1. {db.held, mem.held} \subseteq Held \cup {NothingHeld}
      BY <1>0 DEF DbType, MemType
    <3>2. \A h \in Held : h.msg \in Nat
      BY DEF Held, Ids
    <3> QED BY <2>1, <3>1, <3>2, InboundConstants DEF Types, Places, NothingHeld
  <2>7. \A d \in Chats : Busy(d) => run[d].msg # m
    <3>1. \A d \in Chats : Busy(d) => run[d].msg <= past.sent /\ run[d].msg \in Nat
      BY Busies DEF Types, Places, Busy, Handling, Ids, Procs
    <3> QED BY <2>1, <3>1
  <2>8. m \in Procs \ {c} /\ \A d \in Chats : d \in Procs
    BY <2>1, InboundConstants DEF Procs
  <2>9. Alone(c)'
    BY <2>2, <2>3, <2>4, <2>5, <2>6, <2>7, <2>8 DEF Alone, Busy, HeldSame
  <2>10. ASSUME NEW d \in Chats \ {c}, run'[d].pc \in Untaken PROVE Alone(d)'
    <3>1. run'[d] = run[d] /\ d \in Procs
      BY <2>4, <2>8
    <3>2. Alone(d) /\ Busy(d) /\ run[d].msg \in Ids /\ run[d].msg # m
      BY <2>7, <2>10, <3>1, Busies DEF Takers, Busy, Untaken, Handling
    <3>3. run[d].msg \in Procs \ {c}
      BY <3>2, InboundConstants DEF Procs
    <3> QED BY <2>2, <2>3, <2>4, <2>8, <3>1, <3>2, <3>3 DEF Alone, Busy, HeldSame
  <2>11. ASSUME NEW q \in Procs, run'[q].pc \in Turning PROVE AgentsOwn(run[q].msg)'
    <3>1. q # c
      BY <2>3, <2>4, <2>11 DEF Turning
    <3> QED BY <2>2, <2>4, <2>11, <3>1 DEF Takers, AgentsOwn
  <2>12. \A i \in Ids : i > past'.sent => past'.fate[i] = {}
    BY <2>1, <2>2 DEF Takers, Ids
  <2> QED BY <2>2, <2>9, <2>10, <2>11, <2>12 DEF Takers, AgentsOwn, HeldSame
<1>2. ASSUME NEW c \in Chats, TurnAway(c) PROVE Takers'
  <2>1. Stops(c, "who")
    BY <1>2, Moves
  <2>2. past'.sent = past.sent /\ past'.fate = past.fate
    BY <1>0, <1>2 DEF TurnAway, Failed, PastType
  <2>3. HeldSame
    BY <1>0, <1>2 DEF TurnAway, DbType, MemType, HeldSame
  <2> QED BY <2>1, <2>2, <2>3, TakersQuiet DEF Procs, Untaken, Turning
<1>3. ASSUME NEW c \in Chats, FirstEars(c) PROVE Takers'
  <2>1. Stops(c, "who") \/ Steps(c, "who", "welcome")
    BY <1>3, Moves
  <2>2. past'.sent = past.sent
    BY <1>0, <1>3 DEF FirstEars, Fate, PastType
  <2>3. HeldSame
    BY <1>0, <1>3 DEF FirstEars, DbType, MemType, HeldSame
  <2>4. CASE Steps(c, "who", "welcome")
    <3>1. ~Done(c)
      BY <1>0, <2>4 DEF Steps, Done, Idle, Handling, Untaken, RunType
    <3>2. past'.fate = past.fate
      BY <1>3, <3>1 DEF FirstEars
    <3> QED BY <2>2, <2>3, <2>4, <3>2, TakersQuiet DEF Procs, Untaken, Turning
  <2>5. CASE Stops(c, "who")
    <3>1. ~Go(c, "welcome")
      BY <1>0, <2>5 DEF Stops, Go, Idle, RunType, Handling
    <3>2. PICK w \in {"choice", "elsewhere"} : past'.fate = [past.fate EXCEPT ![run[c].msg] = @ \cup {w}]
      BY <1>0, <1>3, <3>1 DEF FirstEars, Fate, PastType
    <3> QED BY <2>2, <2>3, <2>5, <3>2, TakersTaken DEF Untaken, Fates
  <2> QED BY <2>1, <2>4, <2>5
<1>4. ASSUME NEW c \in Chats, Welcome(c) PROVE Takers'
  <2>1. Stops(c, "welcome") \/ Steps(c, "welcome", "look") \/ Steps(c, "welcome", "greet")
    BY <1>4, Moves
  <2>2. past'.sent = past.sent /\ past'.fate = past.fate
    BY <1>0, <1>4 DEF Welcome, Failed, PastType
  <2>3. HeldSame
    BY <1>0, <1>4 DEF Welcome, DbType, MemType, HeldSame
  <2> QED BY <2>1, <2>2, <2>3, TakersQuiet DEF Procs, Untaken, Turning
<1>5. ASSUME NEW c \in Chats, Greet(c) PROVE Takers'
  <2>1. Stops(c, "greet") \/ Steps(c, "greet", "look")
    BY <1>5, Moves
  <2>2. past'.sent = past.sent /\ past'.fate = past.fate
    BY <1>0, <1>5 DEF Greet, Failed, PastType
  <2>3. HeldSame
    BY <1>0, <1>5 DEF Greet, DbType, MemType, HeldSame
  <2> QED BY <2>1, <2>2, <2>3, TakersQuiet DEF Procs, Untaken, Turning
<1>6. ASSUME NEW c \in Chats, LookForEmail(c) PROVE Takers'
  <2>1. Steps(c, "look", "take") \/ Steps(c, "look", "active")
    BY <1>6, Moves
  <2>2. past'.sent = past.sent /\ past'.fate = past.fate
    BY <1>0, <1>6 DEF LookForEmail, Failed, PastType
  <2>3. HeldSame
    BY <1>0, <1>6 DEF LookForEmail, DbType, MemType, HeldSame
  <2> QED BY <2>1, <2>2, <2>3, TakersQuiet DEF Procs, Untaken, Turning
<1>7. ASSUME NEW c \in Chats, handleEmailLinkReply(c) PROVE Takers'
  <2>1. Stops(c, "take") \/ Steps(c, "take", "skipped") \/ Steps(c, "take", "initiate")
    BY <1>7, Moves
  <2>2. past'.sent = past.sent
    BY <1>0, <1>7 DEF handleEmailLinkReply, Fate, PastType
  <2>3. HeldSame
    BY <1>0, <1>7 DEF handleEmailLinkReply, DbType, MemType, HeldSame
  <2>4. past'.fate = [past.fate EXCEPT ![run[c].msg] = @ \cup {"email"}]
    BY <1>0, <1>7 DEF handleEmailLinkReply, PastType
  <2> QED BY <2>1, <2>2, <2>3, <2>4, TakersTaken DEF Untaken, Fates
<1>8. ASSUME NEW c \in Chats, SettleEmail(c) PROVE Takers'
  <2>1. Stops(c, "skipped") \/ Stops(c, "initiate")
    BY <1>8, Moves
  <2>2. past'.sent = past.sent /\ past'.fate = past.fate
    BY <1>0, <1>8 DEF SettleEmail, Failed, PastType
  <2>3. HeldSame
    BY <1>0, <1>8 DEF SettleEmail, DbType, MemType, HeldSame
  <2> QED BY <2>1, <2>2, <2>3, TakersQuiet DEF Procs, Untaken, Turning
<1>9. ASSUME NEW c \in Chats, SetupCheck(c) PROVE Takers'
  <2>1. Stops(c, "active") \/ Steps(c, "active", "hold") \/ Steps(c, "active", "reply")
    BY <1>9, Moves
  <2>2. past'.sent = past.sent
    BY <1>0, <1>9 DEF SetupCheck, Fate, PastType
  <2>3. HeldSame
    BY <1>0, <1>9 DEF SetupCheck, DbType, MemType, HeldSame
  <2>4. CASE UNCHANGED past
    BY <2>1, <2>2, <2>3, <2>4, TakersQuiet DEF Procs, Untaken, Turning
  <2>5. CASE Stops(c, "active") /\ Fate(c, "told")
    <3>1. past'.fate = [past.fate EXCEPT ![run[c].msg] = @ \cup {"told"}]
      BY <1>0, <2>5 DEF Fate, PastType
    <3> QED BY <2>2, <2>3, <2>5, <3>1, TakersTaken DEF Untaken, Fates
  <2>6. Done(c) => Stops(c, "active")
    BY <1>9, Stopping DEF SetupCheck, Procs, Pcs, Untaken
  <2> QED BY <1>9, <2>4, <2>5, <2>6 DEF SetupCheck
<1>10. ASSUME NEW c \in Chats, HoldAtSetup(c) PROVE Takers'
  <2>1. Stops(c, "hold")
    BY <1>10, Moves
  <2>2. c \in Procs /\ run[c] \in Handling
    BY <2>1 DEF Stops, Steps
  <2>3. \A h \in {db'.held, mem'.held} : h \in {NothingHeld, db.held, mem.held} \/ h.msg = run[c].msg
    BY <1>10, <2>2, Keeping DEF HoldAtSetup
  <2>4. past'.sent = past.sent /\ past'.fate = past.fate
    BY <1>10, <2>2, Keeping DEF HoldAtSetup
  <2> QED BY <2>1, <2>2, <2>3, <2>4, TakersHeld
<1>11. ASSUME NEW c \in Chats, TakeInstructions(c) PROVE Takers'
  <2>1. Stops(c, "reply") \/ Steps(c, "reply", "turn")
    BY <1>11, Moves
  <2>2. past'.sent = past.sent
    BY <1>0, <1>11 DEF TakeInstructions, Begin, Fate, PastType
  <2>3. HeldSame
    BY <1>0, <1>11 DEF TakeInstructions, Begin, DbType, MemType, HeldSame
  <2>4. CASE Begin(c)
    <3>1. past'.fate = [past.fate EXCEPT ![run[c].msg] = @ \cup {"agent"}]
      BY <1>0, <2>4 DEF Begin, Fate, PastType
    <3>2. Steps(c, "reply", "turn")
      BY <1>11, <2>4, Beginning DEF TakeInstructions, Procs
    <3> QED BY <2>2, <2>3, <3>1, <3>2, TakersBegin, InboundConstants DEF Procs
  <2>5. CASE Done(c)
    <3>1. Stops(c, "reply")
      BY <1>11, <2>5, Stopping DEF TakeInstructions, Procs, Pcs, Untaken
    <3>2. CASE UNCHANGED past
      BY <2>2, <2>3, <3>1, <3>2, TakersQuiet DEF Procs
    <3>3. ASSUME NEW w \in {"instructions", "app"}, past'.fate = [past.fate EXCEPT ![run[c].msg] = @ \cup {w}] PROVE Takers'
      BY <2>2, <2>3, <3>1, <3>3, TakersTaken DEF Untaken, Fates
    <3>4. CASE mem.instructions[c]
      BY <1>0, <1>11, <3>3, <3>4 DEF TakeInstructions, PastType
    <3>5. CASE ~mem.instructions[c] /\ mem.app[c]
      BY <1>0, <1>11, <3>3, <3>5 DEF TakeInstructions, PastType
    <3> QED BY <1>11, <2>4, <3>2, <3>4, <3>5 DEF TakeInstructions
  <2> QED BY <1>11, <2>4, <2>5 DEF TakeInstructions
<1>12. ASSUME NEW p \in Procs, HandleTurn(p) PROVE Takers'
  <2>1. Steps(p, "begin", "turn")
    BY <1>12, Moves
  <2>2. past'.sent = past.sent
    BY <1>0, <1>12 DEF HandleTurn, Begin, Fate, PastType
  <2>3. HeldSame
    BY <1>0, <1>12 DEF HandleTurn, Begin, DbType, MemType, HeldSame
  <2>4. past'.fate = [past.fate EXCEPT ![run[p].msg] = @ \cup {"agent"}]
    BY <1>0, <1>12 DEF HandleTurn, Begin, Fate, PastType
  <2> QED BY <2>1, <2>2, <2>3, <2>4, TakersBegin
<1>13. ASSUME NEW p \in Procs, EndTurn(p) PROVE Takers'
  <2>1. Stops(p, "turn")
    BY <1>13, Moves
  <2>2. past'.sent = past.sent /\ past'.fate = past.fate
    BY <1>0, <1>13 DEF EndTurn, Failed, PastType
  <2>3. HeldSame
    BY <1>0, <1>13 DEF EndTurn, DbType, MemType, HeldSame
  <2> QED BY <2>1, <2>2, <2>3, TakersQuiet DEF Procs, Untaken, Turning
<1>14. ASSUME NEW p \in Procs, withAuthGate(p) PROVE Takers'
  <2>1. Steps(p, "turn", "turn") \/ Steps(p, "turn", "gate")
    BY <1>14, Moves
  <2>2. past'.sent = past.sent /\ past'.fate = past.fate
    BY <1>0, <1>14 DEF withAuthGate, Failed, PastType
  <2>3. HeldSame
    BY <1>0, <1>14 DEF withAuthGate, DbType, MemType, HeldSame
  <2> QED BY <2>1, <2>2, <2>3, TakersQuiet DEF Procs, Untaken, Turning
<1>15. ASSUME NEW p \in Procs, shouldSendConnectPrompt(p) PROVE Takers'
  <2>1. Steps(p, "gate", "keep")
    BY <1>15, Moves
  <2>2. past'.sent = past.sent /\ past'.fate = past.fate
    BY <1>0, <1>15 DEF shouldSendConnectPrompt, Failed, PastType
  <2>3. HeldSame
    BY <1>0, <1>15 DEF shouldSendConnectPrompt, DbType, MemType, HeldSame
  <2> QED BY <2>1, <2>2, <2>3, TakersQuiet DEF Procs, Untaken, Turning
<1>16. ASSUME NEW p \in Procs, storePending(p) PROVE Takers'
  <2>1. Steps(p, "keep", "turn")
    BY <1>16, Moves
  <2>2. p \in Procs /\ run[p] \in Handling
    BY <2>1 DEF Stops, Steps
  <2>3. \A h \in {db'.held, mem'.held} : h \in {NothingHeld, db.held, mem.held} \/ h.msg = run[p].msg
    BY <1>16, <2>2, Keeping DEF storePending
  <2>4. past'.sent = past.sent /\ past'.fate = past.fate
    BY <1>16, <2>2, Keeping DEF storePending
  <2> QED BY <2>1, <2>2, <2>3, <2>4, TakersHeld
<1>17. ASSUME SignIn PROVE Takers'
  <2>1. past'.sent = past.sent /\ past'.fate = past.fate /\ HeldSame /\ run' = run
    BY <1>0, <1>17 DEF SignIn, Failed, PastType, DbType, MemType, HeldSame
  <2> QED BY <2>1 DEF HeldSame, Takers, Alone, AgentsOwn, Busy
<1>18. ASSUME Disconnect PROVE Takers'
  <2>1. past'.sent = past.sent /\ past'.fate = past.fate /\ HeldSame /\ run' = run
    BY <1>0, <1>18 DEF Disconnect, Failed, PastType, DbType, MemType, HeldSame
  <2> QED BY <2>1 DEF HeldSame, Takers, Alone, AgentsOwn, Busy
<1>19. ASSUME takeTurn PROVE Takers'
  <2>1. past'.sent = past.sent /\ past'.fate = past.fate
    BY <1>0, <1>19 DEF takeTurn, TakePendingTurn, CarryOut, Fresh, PastType
  <2>2. db'.held \in {NothingHeld, db.held} /\ mem'.held \in {NothingHeld, mem.held}
    BY <1>19, TakesAway
  <2>3. \A h \in {db'.held, mem'.held} : h # NothingHeld => h \in {db.held, mem.held}
    BY <2>2
  <2>4. ASSUME NEW c \in Chats, run[c].pc \in Untaken PROVE db'.held.msg # run[c].msg /\ mem'.held.msg # run[c].msg
    <3>1. run[c].msg \in Ids /\ Alone(c)
      BY <2>4, Busies DEF Takers, Handling, Untaken, Procs
    <3> QED BY <2>2, <3>1, InboundConstants DEF Alone, NothingHeld
  <2>5. CASE UNCHANGED run
    BY <2>1, <2>3, <2>4, <2>5 DEF Takers, Alone, AgentsOwn, Busy
  <2>6. ASSUME NEW h \in {db.held, mem.held}, h \in Held, CarryOut(h) PROVE Takers'
    <3>1. run' = run \/ (run'[h.msg] = Replay(h) /\ Others(h.msg))
      BY <2>6, Carries
    <3>2. h.msg \in Ids /\ h.msg \in Procs /\ h.msg \notin Chats /\ AgentsOwn(h.msg)
      BY <2>6, InboundConstants DEF Held, Takers, NothingHeld, Procs
    <3>3. Replay(h).msg = h.msg /\ Replay(h).pc = "begin"
      BY DEF Replay
    <3>4. \A c \in Chats : run'[c] = run[c]
      BY <3>1, <3>2 DEF Others, Procs
    <3>5. ASSUME NEW c \in Chats, run'[c].pc \in Untaken PROVE Alone(c)'
      <4>1. run[c].pc \in Untaken /\ run[c].msg \in Ids /\ Alone(c)
        BY <3>4, <3>5, Busies DEF Takers, Handling, Untaken, Procs
      <4>2. run[c].msg # h.msg /\ run[c].msg \in Procs
        BY <2>6, <4>1 DEF Alone, Procs
      <4>3. run'[run[c].msg] = run[run[c].msg]
        BY <3>1, <4>2 DEF Others
      <4> QED BY <2>1, <2>4, <3>4, <4>1, <4>3 DEF Alone, Busy
    <3>6. ASSUME NEW q \in Procs, run'[q].pc \in Turning PROVE AgentsOwn(run'[q].msg)
      BY <3>1, <3>2, <3>3, <3>6 DEF Takers, Others
    <3> QED BY <2>1, <2>3, <3>5, <3>6 DEF Takers, AgentsOwn
  <2>7. (Fresh(db.held) => db.held \in Held) /\ (mem.held.msg # NoMsg => mem.held \in Held)
    BY HeldOnes
  <2> QED BY <1>19, <2>5, <2>6, <2>7 DEF takeTurn
<1>20. ASSUME NEW c \in Chats, NEW k \in TapKinds, Tap(c, k) PROVE Takers'
  <2>1. past'.sent = past.sent /\ past'.fate = past.fate /\ HeldSame /\ run' = run
    BY <1>0, <1>20 DEF Tap, Failed, PastType, DbType, MemType, HeldSame
  <2> QED BY <2>1 DEF HeldSame, Takers, Alone, AgentsOwn, Busy
<1>21. ASSUME NEW c \in Chats, handleLinkAccountCallback(c) PROVE Takers'
  <2>1. past'.sent = past.sent /\ past'.fate = past.fate /\ HeldSame /\ run' = run
    BY <1>0, <1>21 DEF handleLinkAccountCallback, Failed, PastType, DbType, MemType, HeldSame
  <2> QED BY <2>1 DEF HeldSame, Takers, Alone, AgentsOwn, Busy
<1>22. ASSUME NEW c \in Chats, handleInstructionsCallback(c) PROVE Takers'
  <2>1. past'.sent = past.sent /\ past'.fate = past.fate /\ HeldSame /\ run' = run
    BY <1>0, <1>22 DEF handleInstructionsCallback, Failed, PastType, DbType, MemType, HeldSame
  <2> QED BY <2>1 DEF HeldSame, Takers, Alone, AgentsOwn, Busy
<1>23. ASSUME NEW c \in Chats, handleAppInstructionsCallback(c) PROVE Takers'
  <2>1. past'.sent = past.sent /\ past'.fate = past.fate /\ HeldSame /\ run' = run
    BY <1>0, <1>23 DEF handleAppInstructionsCallback, Failed, PastType, DbType, MemType, HeldSame
  <2> QED BY <2>1 DEF HeldSame, Takers, Alone, AgentsOwn, Busy
<1>24. ASSUME NEW c \in Chats, handleInstructionsSubmission(c) PROVE Takers'
  <2>1. past'.sent = past.sent /\ past'.fate = past.fate /\ HeldSame /\ run' = run
    BY <1>24, Submitted
  <2> QED BY <2>1 DEF HeldSame, Takers, Alone, AgentsOwn, Busy
<1>25. ASSUME HalfAMinute PROVE Takers'
  <2>1. past'.sent = past.sent /\ past'.fate = past.fate /\ HeldSame /\ run' = run
    BY <1>0, <1>25 DEF HalfAMinute, Failed, PastType, DbType, MemType, HeldSame
  <2> QED BY <2>1 DEF HeldSame, Takers, Alone, AgentsOwn, Busy
<1>26. ASSUME LongWait PROVE Takers'
  <2>1. past'.sent = past.sent /\ past'.fate = past.fate /\ run' = run
    BY <1>0, <1>26 DEF LongWait, PastType
  <2>2. \A p \in Procs : ~Busy(p)
    BY <1>26 DEF LongWait
  <2>3. \A p \in Procs : run'[p].pc \notin Untaken \cup Turning
    BY <2>1, <2>2 DEF Busy, Untaken, Turning
  <2>4. db'.held = db.held \/ (db.held \in Held /\ db'.held.msg = db.held.msg)
    <3>1. db'.held = IF db.held.msg = NoMsg THEN db.held ELSE [db.held EXCEPT !.old = TRUE]
      BY <1>0, <1>26 DEF LongWait, DbType
    <3> QED BY <1>0, <3>1 DEF DbType, Held, NothingHeld
  <2>5. mem'.held = mem.held \/ (mem.held \in Held /\ mem'.held.msg = mem.held.msg)
    <3>1. mem'.held = IF mem.held.msg = NoMsg THEN mem.held ELSE [mem.held EXCEPT !.old = TRUE]
      BY <1>0, <1>26 DEF LongWait, MemType
    <3> QED BY <1>0, <3>1 DEF MemType, Held, NothingHeld
  <2>6. \A h \in Held : h # NothingHeld
    BY InboundConstants DEF Held, NothingHeld
  <2>7. \A h \in {db'.held, mem'.held} : h # NothingHeld => AgentsOwn(h.msg)
    BY <2>4, <2>5, <2>6 DEF Takers
  <2>8. \A c \in Chats : c \in Procs
    BY DEF Procs
  <2> QED BY <2>1, <2>3, <2>7, <2>8 DEF Takers, AgentsOwn
<1>27. ASSUME Restart PROVE Takers'
  <2>1. past'.sent = past.sent /\ past'.fate = past.fate /\ db'.held = db.held /\ mem'.held = NothingHeld
    BY <1>0, <1>27 DEF Restart, Fresh0, PastType
  <2>2. \A p \in Procs : run'[p].pc \notin Untaken \cup Turning
    BY <1>27 DEF Restart, Idle, Untaken, Turning
  <2> QED BY <2>1, <2>2 DEF Takers, AgentsOwn, Procs
<1>28. CASE UNCHANGED vars
  BY <1>28 DEF vars, Takers, Alone, AgentsOwn, Busy
<1> QED
  BY <1>1, <1>2, <1>3, <1>4, <1>5, <1>6, <1>7, <1>8, <1>9, <1>10, <1>11, <1>12, <1>13, <1>14, <1>15, <1>16, <1>17, <1>18, <1>19, <1>20, <1>21, <1>22, <1>23, <1>24, <1>25, <1>26, <1>27, <1>28 DEF Next, HandleInbound, Turn

(***************************************************************************)
(* One prompt at a time.                                                   *)
(***************************************************************************)
LEMMA PromptedKept == Types /\ Prompted /\ [Next]_vars => Prompted'
<1> SUFFICES ASSUME Types, Prompted, [Next]_vars PROVE Prompted'
  OBVIOUS
<1>0. db \in DbType /\ mem \in MemType /\ run \in RunType /\ past \in PastType /\ tap \in TapType
  BY DEF Types, TypedState
<1>1. ASSUME NEW c \in Chats, NEW k \in Kinds, Write(c, k) PROVE Prompted'
  <2>1. past'.again = past.again /\ past'.recent = past.recent
    BY <1>0, <1>1 DEF Write, Failed, Fate, PastType
  <2>2. mem'.cooling = mem.cooling
    BY <1>0, <1>1 DEF Write, MemType
  <2> QED BY <2>1, <2>2 DEF Prompted
<1>2. ASSUME NEW c \in Chats, TurnAway(c) PROVE Prompted'
  <2>1. past'.again = past.again /\ past'.recent = past.recent
    BY <1>0, <1>2 DEF TurnAway, Failed, Fate, PastType
  <2>2. mem'.cooling = mem.cooling
    BY <1>0, <1>2 DEF TurnAway, MemType
  <2> QED BY <2>1, <2>2 DEF Prompted
<1>3. ASSUME NEW c \in Chats, FirstEars(c) PROVE Prompted'
  <2>1. past'.again = past.again /\ past'.recent = past.recent
    BY <1>0, <1>3 DEF FirstEars, Failed, Fate, PastType
  <2>2. mem'.cooling = mem.cooling
    BY <1>0, <1>3 DEF FirstEars, MemType
  <2> QED BY <2>1, <2>2 DEF Prompted
<1>4. ASSUME NEW c \in Chats, Welcome(c) PROVE Prompted'
  <2>1. past'.again = past.again /\ past'.recent = past.recent
    BY <1>0, <1>4 DEF Welcome, Failed, Fate, PastType
  <2>2. mem'.cooling = mem.cooling
    BY <1>0, <1>4 DEF Welcome, MemType
  <2> QED BY <2>1, <2>2 DEF Prompted
<1>5. ASSUME NEW c \in Chats, Greet(c) PROVE Prompted'
  <2>1. past'.again = past.again /\ past'.recent = past.recent
    BY <1>0, <1>5 DEF Greet, Failed, Fate, PastType
  <2>2. mem'.cooling = mem.cooling
    BY <1>0, <1>5 DEF Greet, MemType
  <2> QED BY <2>1, <2>2 DEF Prompted
<1>6. ASSUME NEW c \in Chats, LookForEmail(c) PROVE Prompted'
  <2>1. past'.again = past.again /\ past'.recent = past.recent
    BY <1>0, <1>6 DEF LookForEmail, Failed, Fate, PastType
  <2>2. mem'.cooling = mem.cooling
    BY <1>0, <1>6 DEF LookForEmail, MemType
  <2> QED BY <2>1, <2>2 DEF Prompted
<1>7. ASSUME NEW c \in Chats, handleEmailLinkReply(c) PROVE Prompted'
  <2>1. past'.again = past.again /\ past'.recent = past.recent
    BY <1>0, <1>7 DEF handleEmailLinkReply, Failed, Fate, PastType
  <2>2. mem'.cooling = mem.cooling
    BY <1>0, <1>7 DEF handleEmailLinkReply, MemType
  <2> QED BY <2>1, <2>2 DEF Prompted
<1>8. ASSUME NEW c \in Chats, SettleEmail(c) PROVE Prompted'
  <2>1. past'.again = past.again /\ past'.recent = past.recent
    BY <1>0, <1>8 DEF SettleEmail, Failed, Fate, PastType
  <2>2. mem'.cooling = mem.cooling
    BY <1>0, <1>8 DEF SettleEmail, MemType
  <2> QED BY <2>1, <2>2 DEF Prompted
<1>9. ASSUME NEW c \in Chats, SetupCheck(c) PROVE Prompted'
  <2>1. past'.again = past.again /\ past'.recent = past.recent
    BY <1>0, <1>9 DEF SetupCheck, Failed, Fate, PastType
  <2>2. mem'.cooling = mem.cooling
    BY <1>0, <1>9 DEF SetupCheck, MemType
  <2> QED BY <2>1, <2>2 DEF Prompted
<1>10. ASSUME NEW c \in Chats, HoldAtSetup(c) PROVE Prompted'
  <2>1. past'.again = past.again /\ past'.recent = past.recent
    BY <1>0, <1>10 DEF HoldAtSetup, holdTurn, Failed, Fate, PastType
  <2>2. mem'.cooling = mem.cooling
    BY <1>0, <1>10 DEF HoldAtSetup, holdTurn, MemType
  <2> QED BY <2>1, <2>2 DEF Prompted
<1>11. ASSUME NEW c \in Chats, TakeInstructions(c) PROVE Prompted'
  <2>1. past'.again = past.again /\ past'.recent = past.recent
    BY <1>0, <1>11 DEF TakeInstructions, Begin, Failed, Fate, PastType
  <2>2. mem'.cooling = mem.cooling
    BY <1>0, <1>11 DEF TakeInstructions, Begin, MemType
  <2> QED BY <2>1, <2>2 DEF Prompted
<1>12. ASSUME NEW p \in Procs, HandleTurn(p) PROVE Prompted'
  <2>1. past'.again = past.again /\ past'.recent = past.recent
    BY <1>0, <1>12 DEF HandleTurn, Begin, Failed, Fate, PastType
  <2>2. mem'.cooling = mem.cooling
    BY <1>0, <1>12 DEF HandleTurn, Begin, MemType
  <2> QED BY <2>1, <2>2 DEF Prompted
<1>13. ASSUME NEW p \in Procs, EndTurn(p) PROVE Prompted'
  <2>1. past'.again = past.again /\ past'.recent = past.recent
    BY <1>0, <1>13 DEF EndTurn, Failed, Fate, PastType
  <2>2. mem'.cooling = mem.cooling
    BY <1>0, <1>13 DEF EndTurn, MemType
  <2> QED BY <2>1, <2>2 DEF Prompted
<1>14. ASSUME NEW p \in Procs, withAuthGate(p) PROVE Prompted'
  <2>1. past'.again = past.again /\ past'.recent = past.recent
    BY <1>0, <1>14 DEF withAuthGate, Failed, Fate, PastType
  <2>2. mem'.cooling = mem.cooling
    BY <1>0, <1>14 DEF withAuthGate, MemType
  <2> QED BY <2>1, <2>2 DEF Prompted
<1>15. ASSUME NEW p \in Procs, shouldSendConnectPrompt(p) PROVE Prompted'
  <2>1. CASE mem.cooling
    BY <1>15, <2>1 DEF shouldSendConnectPrompt, Prompted
  <2>2. CASE ~mem.cooling
    <3>1. ~past.recent /\ ~past.again
      BY <2>2 DEF Prompted
    <3>2. mem' = [mem EXCEPT !.cooling = TRUE] /\ past' = [past EXCEPT !.again = @ \/ past.recent, !.recent = TRUE]
      BY <1>15, <2>2 DEF shouldSendConnectPrompt
    <3>3. mem'.cooling
      BY <1>0, <3>2 DEF MemType
    <3>4. past'.again <=> past.again \/ past.recent
      BY <1>0, <3>2 DEF PastType
    <3> QED BY <3>1, <3>3, <3>4 DEF Prompted
  <2> QED BY <2>1, <2>2
<1>16. ASSUME NEW p \in Procs, storePending(p) PROVE Prompted'
  <2>1. past'.again = past.again /\ past'.recent = past.recent
    BY <1>0, <1>16 DEF storePending, holdTurn, Failed, Fate, PastType
  <2>2. mem'.cooling = mem.cooling
    BY <1>0, <1>16 DEF storePending, holdTurn, MemType
  <2> QED BY <2>1, <2>2 DEF Prompted
<1>17. ASSUME SignIn PROVE Prompted'
  <2>1. past'.again = past.again /\ past'.recent = past.recent
    BY <1>0, <1>17 DEF SignIn, Failed, Fate, PastType
  <2>2. mem'.cooling = mem.cooling
    BY <1>0, <1>17 DEF SignIn, MemType
  <2> QED BY <2>1, <2>2 DEF Prompted
<1>18. ASSUME Disconnect PROVE Prompted'
  <2>1. past'.again = past.again /\ past'.recent = past.recent
    BY <1>0, <1>18 DEF Disconnect, Failed, Fate, PastType
  <2>2. mem'.cooling = mem.cooling
    BY <1>0, <1>18 DEF Disconnect, MemType
  <2> QED BY <2>1, <2>2 DEF Prompted
<1>19. ASSUME takeTurn PROVE Prompted'
  <2>1. mem'.cooling = mem.cooling
    BY <1>0, <1>19 DEF takeTurn, MemType
  <2>2. \A h : CarryOut(h) => past'.again = past.again /\ past'.recent = past.recent
    BY <1>0 DEF CarryOut, PastType
  <2>3. past'.again = past.again /\ past'.recent = past.recent
    BY <1>0, <1>19, <2>2 DEF takeTurn, PastType
  <2> QED BY <2>1, <2>3 DEF Prompted
<1>20. ASSUME NEW c \in Chats, NEW k \in TapKinds, Tap(c, k) PROVE Prompted'
  <2>1. past'.again = past.again /\ past'.recent = past.recent
    BY <1>0, <1>20 DEF Tap, Failed, Fate, PastType
  <2>2. mem'.cooling = mem.cooling
    BY <1>0, <1>20 DEF Tap, MemType
  <2> QED BY <2>1, <2>2 DEF Prompted
<1>21. ASSUME NEW c \in Chats, handleLinkAccountCallback(c) PROVE Prompted'
  <2>1. past'.again = past.again /\ past'.recent = past.recent
    BY <1>0, <1>21 DEF handleLinkAccountCallback, Failed, Fate, PastType
  <2>2. mem'.cooling = mem.cooling
    BY <1>0, <1>21 DEF handleLinkAccountCallback, MemType
  <2> QED BY <2>1, <2>2 DEF Prompted
<1>22. ASSUME NEW c \in Chats, handleInstructionsCallback(c) PROVE Prompted'
  <2>1. past'.again = past.again /\ past'.recent = past.recent
    BY <1>0, <1>22 DEF handleInstructionsCallback, Failed, Fate, PastType
  <2>2. mem'.cooling = mem.cooling
    BY <1>0, <1>22 DEF handleInstructionsCallback, MemType
  <2> QED BY <2>1, <2>2 DEF Prompted
<1>23. ASSUME NEW c \in Chats, handleAppInstructionsCallback(c) PROVE Prompted'
  <2>1. past'.again = past.again /\ past'.recent = past.recent
    BY <1>0, <1>23 DEF handleAppInstructionsCallback, Failed, Fate, PastType
  <2>2. mem'.cooling = mem.cooling
    BY <1>0, <1>23 DEF handleAppInstructionsCallback, MemType
  <2> QED BY <2>1, <2>2 DEF Prompted
<1>24. ASSUME NEW c \in Chats, handleInstructionsSubmission(c) PROVE Prompted'
  <2>1. past'.again = past.again /\ past'.recent = past.recent
    BY <1>0, <1>24 DEF handleInstructionsSubmission, Failed, Fate, PastType
  <2>2. mem'.cooling = mem.cooling
    BY <1>0, <1>24 DEF handleInstructionsSubmission, MemType
  <2> QED BY <2>1, <2>2 DEF Prompted
<1>25. ASSUME HalfAMinute PROVE Prompted'
  BY <1>0, <1>25 DEF HalfAMinute, Prompted, PastType
<1>26. ASSUME LongWait PROVE Prompted'
  BY <1>0, <1>26 DEF LongWait, Prompted, PastType
<1>27. ASSUME Restart PROVE Prompted'
  BY <1>0, <1>27 DEF Restart, Prompted, PastType
<1>28. CASE UNCHANGED vars
  BY <1>28 DEF vars, Prompted
<1> QED
  BY <1>1, <1>2, <1>3, <1>4, <1>5, <1>6, <1>7, <1>8, <1>9, <1>10, <1>11, <1>12, <1>13, <1>14, <1>15, <1>16, <1>17, <1>18, <1>19, <1>20, <1>21, <1>22, <1>23, <1>24, <1>25, <1>26, <1>27, <1>28 DEF Next, HandleInbound, Turn

(***************************************************************************)
(* What memory held, and what was carried out of it.                       *)
(***************************************************************************)
LEMMA MemoryHolds == ASSUME Types, MemoryOnly, NEW p \in Procs, holdTurn(p) PROVE MemoryOnly'
<1>1. mem \in MemType /\ past \in PastType
  BY DEF Types, TypedState
<1>2. past'.stale = past.stale /\ ((UNCHANGED mem /\ past'.inMemory = past.inMemory) \/ past'.inMemory)
  BY <1>1 DEF holdTurn, PastType
<1> QED BY <1>2 DEF MemoryOnly

LEMMA MemoryOnlyKept == Types /\ MemoryOnly /\ [Next]_vars => MemoryOnly'
<1> SUFFICES ASSUME Types, MemoryOnly, [Next]_vars PROVE MemoryOnly'
  OBVIOUS
<1>0. db \in DbType /\ mem \in MemType /\ run \in RunType /\ past \in PastType /\ tap \in TapType
  BY DEF Types, TypedState
<1>1. ASSUME NEW c \in Chats, NEW k \in Kinds, Write(c, k) PROVE MemoryOnly'
  <2>1. past'.stale = past.stale /\ past'.inMemory = past.inMemory
    BY <1>0, <1>1 DEF Write, Failed, Fate, PastType
  <2>2. mem'.held = mem.held
    BY <1>0, <1>1 DEF Write, MemType
  <2> QED BY <2>1, <2>2 DEF MemoryOnly
<1>2. ASSUME NEW c \in Chats, TurnAway(c) PROVE MemoryOnly'
  <2>1. past'.stale = past.stale /\ past'.inMemory = past.inMemory
    BY <1>0, <1>2 DEF TurnAway, Failed, Fate, PastType
  <2>2. mem'.held = mem.held
    BY <1>0, <1>2 DEF TurnAway, MemType
  <2> QED BY <2>1, <2>2 DEF MemoryOnly
<1>3. ASSUME NEW c \in Chats, FirstEars(c) PROVE MemoryOnly'
  <2>1. past'.stale = past.stale /\ past'.inMemory = past.inMemory
    BY <1>0, <1>3 DEF FirstEars, Failed, Fate, PastType
  <2>2. mem'.held = mem.held
    BY <1>0, <1>3 DEF FirstEars, MemType
  <2> QED BY <2>1, <2>2 DEF MemoryOnly
<1>4. ASSUME NEW c \in Chats, Welcome(c) PROVE MemoryOnly'
  <2>1. past'.stale = past.stale /\ past'.inMemory = past.inMemory
    BY <1>0, <1>4 DEF Welcome, Failed, Fate, PastType
  <2>2. mem'.held = mem.held
    BY <1>0, <1>4 DEF Welcome, MemType
  <2> QED BY <2>1, <2>2 DEF MemoryOnly
<1>5. ASSUME NEW c \in Chats, Greet(c) PROVE MemoryOnly'
  <2>1. past'.stale = past.stale /\ past'.inMemory = past.inMemory
    BY <1>0, <1>5 DEF Greet, Failed, Fate, PastType
  <2>2. mem'.held = mem.held
    BY <1>0, <1>5 DEF Greet, MemType
  <2> QED BY <2>1, <2>2 DEF MemoryOnly
<1>6. ASSUME NEW c \in Chats, LookForEmail(c) PROVE MemoryOnly'
  <2>1. past'.stale = past.stale /\ past'.inMemory = past.inMemory
    BY <1>0, <1>6 DEF LookForEmail, Failed, Fate, PastType
  <2>2. mem'.held = mem.held
    BY <1>0, <1>6 DEF LookForEmail, MemType
  <2> QED BY <2>1, <2>2 DEF MemoryOnly
<1>7. ASSUME NEW c \in Chats, handleEmailLinkReply(c) PROVE MemoryOnly'
  <2>1. past'.stale = past.stale /\ past'.inMemory = past.inMemory
    BY <1>0, <1>7 DEF handleEmailLinkReply, Failed, Fate, PastType
  <2>2. mem'.held = mem.held
    BY <1>0, <1>7 DEF handleEmailLinkReply, MemType
  <2> QED BY <2>1, <2>2 DEF MemoryOnly
<1>8. ASSUME NEW c \in Chats, SettleEmail(c) PROVE MemoryOnly'
  <2>1. past'.stale = past.stale /\ past'.inMemory = past.inMemory
    BY <1>0, <1>8 DEF SettleEmail, Failed, Fate, PastType
  <2>2. mem'.held = mem.held
    BY <1>0, <1>8 DEF SettleEmail, MemType
  <2> QED BY <2>1, <2>2 DEF MemoryOnly
<1>9. ASSUME NEW c \in Chats, SetupCheck(c) PROVE MemoryOnly'
  <2>1. past'.stale = past.stale /\ past'.inMemory = past.inMemory
    BY <1>0, <1>9 DEF SetupCheck, Failed, Fate, PastType
  <2>2. mem'.held = mem.held
    BY <1>0, <1>9 DEF SetupCheck, MemType
  <2> QED BY <2>1, <2>2 DEF MemoryOnly
<1>10. ASSUME NEW c \in Chats, HoldAtSetup(c) PROVE MemoryOnly'
  BY <1>10, MemoryHolds DEF HoldAtSetup, Procs
<1>11. ASSUME NEW c \in Chats, TakeInstructions(c) PROVE MemoryOnly'
  <2>1. past'.stale = past.stale /\ past'.inMemory = past.inMemory
    BY <1>0, <1>11 DEF TakeInstructions, Begin, Failed, Fate, PastType
  <2>2. mem'.held = mem.held
    BY <1>0, <1>11 DEF TakeInstructions, Begin, MemType
  <2> QED BY <2>1, <2>2 DEF MemoryOnly
<1>12. ASSUME NEW p \in Procs, HandleTurn(p) PROVE MemoryOnly'
  <2>1. past'.stale = past.stale /\ past'.inMemory = past.inMemory
    BY <1>0, <1>12 DEF HandleTurn, Begin, Failed, Fate, PastType
  <2>2. mem'.held = mem.held
    BY <1>0, <1>12 DEF HandleTurn, Begin, MemType
  <2> QED BY <2>1, <2>2 DEF MemoryOnly
<1>13. ASSUME NEW p \in Procs, EndTurn(p) PROVE MemoryOnly'
  <2>1. past'.stale = past.stale /\ past'.inMemory = past.inMemory
    BY <1>0, <1>13 DEF EndTurn, Failed, Fate, PastType
  <2>2. mem'.held = mem.held
    BY <1>0, <1>13 DEF EndTurn, MemType
  <2> QED BY <2>1, <2>2 DEF MemoryOnly
<1>14. ASSUME NEW p \in Procs, withAuthGate(p) PROVE MemoryOnly'
  <2>1. past'.stale = past.stale /\ past'.inMemory = past.inMemory
    BY <1>0, <1>14 DEF withAuthGate, Failed, Fate, PastType
  <2>2. mem'.held = mem.held
    BY <1>0, <1>14 DEF withAuthGate, MemType
  <2> QED BY <2>1, <2>2 DEF MemoryOnly
<1>15. ASSUME NEW p \in Procs, shouldSendConnectPrompt(p) PROVE MemoryOnly'
  <2>1. past'.stale = past.stale /\ past'.inMemory = past.inMemory
    BY <1>0, <1>15 DEF shouldSendConnectPrompt, Failed, Fate, PastType
  <2>2. mem'.held = mem.held
    BY <1>0, <1>15 DEF shouldSendConnectPrompt, MemType
  <2> QED BY <2>1, <2>2 DEF MemoryOnly
<1>16. ASSUME NEW p \in Procs, storePending(p) PROVE MemoryOnly'
  BY <1>16, MemoryHolds DEF storePending
<1>17. ASSUME SignIn PROVE MemoryOnly'
  <2>1. past'.stale = past.stale /\ past'.inMemory = past.inMemory
    BY <1>0, <1>17 DEF SignIn, Failed, Fate, PastType
  <2>2. mem'.held = mem.held
    BY <1>0, <1>17 DEF SignIn, MemType
  <2> QED BY <2>1, <2>2 DEF MemoryOnly
<1>18. ASSUME Disconnect PROVE MemoryOnly'
  <2>1. past'.stale = past.stale /\ past'.inMemory = past.inMemory
    BY <1>0, <1>18 DEF Disconnect, Failed, Fate, PastType
  <2>2. mem'.held = mem.held
    BY <1>0, <1>18 DEF Disconnect, MemType
  <2> QED BY <2>1, <2>2 DEF MemoryOnly
<1>19. ASSUME takeTurn PROVE MemoryOnly'
  <2>1. ASSUME NEW h, CarryOut(h) PROVE past'.inMemory = past.inMemory /\ (past'.stale => past.stale \/ h.old)
    BY <1>0, <2>1 DEF CarryOut, PastType
  <2>2. CASE conn.pc = "take" /\ Fresh(db.held)
    BY <1>19, <2>1, <2>2 DEF takeTurn, Fresh, MemoryOnly
  <2>3. CASE conn.pc = "take" /\ ~Fresh(db.held)
    <3>1. past'.stale = past.stale /\ past'.inMemory = past.inMemory
      BY <1>0, <1>19, <2>3 DEF takeTurn, PastType
    <3> QED BY <1>19, <2>3, <3>1 DEF takeTurn, MemoryOnly
  <2>4. CASE conn.pc = "memory"
    <3>1. mem'.held = NothingHeld
      BY <1>0, <1>19, <2>4 DEF takeTurn, MemType
    <3>2. CASE mem.held.msg = NoMsg
      BY <1>19, <2>4, <3>1, <3>2 DEF takeTurn, MemoryOnly
    <3>3. CASE mem.held.msg # NoMsg
      <4>1. CarryOut(mem.held)
        BY <1>19, <2>4, <3>3 DEF takeTurn
      <4>2. past.inMemory
        BY <3>3 DEF MemoryOnly, NothingHeld
      <4> QED BY <2>1, <4>1, <4>2 DEF MemoryOnly
    <3> QED BY <3>2, <3>3
  <2> QED BY <1>19, <2>2, <2>3, <2>4 DEF takeTurn
<1>20. ASSUME NEW c \in Chats, NEW k \in TapKinds, Tap(c, k) PROVE MemoryOnly'
  <2>1. past'.stale = past.stale /\ past'.inMemory = past.inMemory
    BY <1>0, <1>20 DEF Tap, Failed, Fate, PastType
  <2>2. mem'.held = mem.held
    BY <1>0, <1>20 DEF Tap, MemType
  <2> QED BY <2>1, <2>2 DEF MemoryOnly
<1>21. ASSUME NEW c \in Chats, handleLinkAccountCallback(c) PROVE MemoryOnly'
  <2>1. past'.stale = past.stale /\ past'.inMemory = past.inMemory
    BY <1>0, <1>21 DEF handleLinkAccountCallback, Failed, Fate, PastType
  <2>2. mem'.held = mem.held
    BY <1>0, <1>21 DEF handleLinkAccountCallback, MemType
  <2> QED BY <2>1, <2>2 DEF MemoryOnly
<1>22. ASSUME NEW c \in Chats, handleInstructionsCallback(c) PROVE MemoryOnly'
  <2>1. past'.stale = past.stale /\ past'.inMemory = past.inMemory
    BY <1>0, <1>22 DEF handleInstructionsCallback, Failed, Fate, PastType
  <2>2. mem'.held = mem.held
    BY <1>0, <1>22 DEF handleInstructionsCallback, MemType
  <2> QED BY <2>1, <2>2 DEF MemoryOnly
<1>23. ASSUME NEW c \in Chats, handleAppInstructionsCallback(c) PROVE MemoryOnly'
  <2>1. past'.stale = past.stale /\ past'.inMemory = past.inMemory
    BY <1>0, <1>23 DEF handleAppInstructionsCallback, Failed, Fate, PastType
  <2>2. mem'.held = mem.held
    BY <1>0, <1>23 DEF handleAppInstructionsCallback, MemType
  <2> QED BY <2>1, <2>2 DEF MemoryOnly
<1>24. ASSUME NEW c \in Chats, handleInstructionsSubmission(c) PROVE MemoryOnly'
  <2>1. past'.stale = past.stale /\ past'.inMemory = past.inMemory
    BY <1>0, <1>24 DEF handleInstructionsSubmission, Failed, Fate, PastType
  <2>2. mem'.held = mem.held
    BY <1>0, <1>24 DEF handleInstructionsSubmission, MemType
  <2> QED BY <2>1, <2>2 DEF MemoryOnly
<1>25. ASSUME HalfAMinute PROVE MemoryOnly'
  <2>1. past'.stale = past.stale /\ past'.inMemory = past.inMemory
    BY <1>0, <1>25 DEF HalfAMinute, Failed, Fate, PastType
  <2>2. mem'.held = mem.held
    BY <1>0, <1>25 DEF HalfAMinute, MemType
  <2> QED BY <2>1, <2>2 DEF MemoryOnly
<1>26. ASSUME LongWait PROVE MemoryOnly'
  <2>1. past'.stale = past.stale /\ past'.inMemory = past.inMemory
    BY <1>0, <1>26 DEF LongWait, PastType
  <2>2. mem'.held = IF mem.held.msg = NoMsg THEN mem.held ELSE [mem.held EXCEPT !.old = TRUE]
    BY <1>0, <1>26 DEF LongWait, MemType
  <2> QED BY <2>1, <2>2 DEF MemoryOnly, NothingHeld
<1>27. ASSUME Restart PROVE MemoryOnly'
  <2>1. past'.stale = past.stale /\ past'.inMemory = past.inMemory /\ mem'.held = NothingHeld
    BY <1>0, <1>27 DEF Restart, Fresh0, PastType
  <2> QED BY <2>1 DEF MemoryOnly
<1>28. CASE UNCHANGED vars
  BY <1>28 DEF vars, MemoryOnly
<1> QED
  BY <1>1, <1>2, <1>3, <1>4, <1>5, <1>6, <1>7, <1>8, <1>9, <1>10, <1>11, <1>12, <1>13, <1>14, <1>15, <1>16, <1>17, <1>18, <1>19, <1>20, <1>21, <1>22, <1>23, <1>24, <1>25, <1>26, <1>27, <1>28 DEF Next, HandleInbound, Turn

(***************************************************************************)
(* Somebody new is welcomed once.                                          *)
(***************************************************************************)
LEMMA WelcomedQuiet ==
  ASSUME Welcomed, db'.onboarded = db.onboarded, past'.greeted = past.greeted, past.faults => past'.faults,
         \A c \in Chats : run'[c].pc = "greet" => run[c].pc = "greet"
  PROVE  Welcomed'
  BY DEF Welcomed, At

LEMMA WelcomedKept == Types /\ Welcomed /\ [Next]_vars => Welcomed'
<1> SUFFICES ASSUME Types, Welcomed, [Next]_vars PROVE Welcomed'
  OBVIOUS
<1>0. db \in DbType /\ mem \in MemType /\ run \in RunType /\ past \in PastType /\ tap \in TapType
  BY DEF Types, TypedState
<1>1. ASSUME NEW c \in Chats, NEW k \in Kinds, Write(c, k) PROVE Welcomed'
  <2>1. db'.onboarded = db.onboarded /\ past'.greeted = past.greeted /\ past'.faults = past.faults
    BY <1>0, <1>1 DEF Write, PastType
  <2>2. \A d \in Chats : run'[d].pc = "greet" => run[d].pc = "greet"
    BY <1>0, <1>1 DEF Write, RunType, Procs
  <2> QED BY <2>1, <2>2, WelcomedQuiet
<1>2. ASSUME NEW c \in Chats, TurnAway(c) PROVE Welcomed'
  <2>1. db'.onboarded = db.onboarded
    BY <1>0, <1>2 DEF TurnAway, DbType
  <2>2. past'.greeted = past.greeted
    BY <1>0, <1>2 DEF TurnAway, Failed, Fate, PastType
  <2>3. past.faults => past'.faults
    BY <1>0, <1>2 DEF TurnAway, Failed, Fate, PastType
  <2>4. Stops(c, "who")
    BY <1>2, Moves
  <2> QED BY <2>1, <2>2, <2>3, <2>4, WelcomedQuiet DEF Steps, Stops, Others, Procs, Idle
<1>3. ASSUME NEW c \in Chats, FirstEars(c) PROVE Welcomed'
  <2>1. db'.onboarded = db.onboarded
    BY <1>0, <1>3 DEF FirstEars, DbType
  <2>2. past'.greeted = past.greeted
    BY <1>0, <1>3 DEF FirstEars, Failed, Fate, PastType
  <2>3. past.faults => past'.faults
    BY <1>0, <1>3 DEF FirstEars, Failed, Fate, PastType
  <2>4. Stops(c, "who") \/ Steps(c, "who", "welcome")
    BY <1>3, Moves
  <2> QED BY <2>1, <2>2, <2>3, <2>4, WelcomedQuiet DEF Steps, Stops, Others, Procs, Idle
<1>4. ASSUME NEW c \in Chats, Welcome(c) PROVE Welcomed'
  <2>1. Stops(c, "welcome") \/ Steps(c, "welcome", "look") \/ Steps(c, "welcome", "greet")
    BY <1>4, Moves
  <2>2. past'.greeted = past.greeted
    BY <1>0, <1>4 DEF Welcome, Failed, PastType
  <2>3. CASE db.onboarded[c]
    <3>1. db'.onboarded = db.onboarded
      BY <1>0, <1>4, <2>3 DEF Welcome, DbType
    <3>2. past'.faults = past.faults
      BY <1>0, <1>4, <2>3 DEF Welcome, PastType
    <3>3. run'[c].pc # "greet"
      BY <1>0, <1>4, <2>3 DEF Welcome, Done, Go, Idle, RunType, Procs, Handling
    <3>4. \A d \in Chats : run'[d].pc = "greet" => run[d].pc = "greet"
      BY <2>1, <3>3 DEF Stops, Steps, Others, Procs
    <3> QED BY <2>2, <3>1, <3>2, <3>4, WelcomedQuiet
  <2>4. CASE ~db.onboarded[c]
    <3>1. PICK ok \in BOOLEAN : /\ db' = [db EXCEPT !.onboarded[c] = ok, !.noticed = TRUE]
                               /\ IF ok THEN UNCHANGED past ELSE Failed
      BY <1>4, <2>4 DEF Welcome
    <3>2. CASE ok = FALSE
      <4>1. past'.faults
        BY <1>0, <3>1, <3>2 DEF Failed, PastType
      <4> QED BY <4>1 DEF Welcomed
    <3>3. CASE ok = TRUE
      <4>1. db'.onboarded[c] /\ \A d \in Chats \ {c} : db'.onboarded[d] = db.onboarded[d]
        BY <1>0, <3>1, <3>3 DEF DbType
      <4>2. past'.faults = past.faults
        BY <3>1, <3>3
      <4>3. \A d \in Chats \ {c} : run'[d] = run[d]
        BY <2>1 DEF Stops, Steps, Others, Procs
      <4> QED BY <2>2, <2>4, <4>1, <4>2, <4>3 DEF Welcomed, At
    <3> QED BY <3>2, <3>3
  <2> QED BY <2>3, <2>4
<1>5. ASSUME NEW c \in Chats, Greet(c) PROVE Welcomed'
  <2>1. Stops(c, "greet") \/ Steps(c, "greet", "look")
    BY <1>5, Moves
  <2>2. db'.onboarded = db.onboarded /\ run[c].pc = "greet"
    BY <1>5 DEF Greet, At
  <2>3. past'.faults = past.faults
    BY <1>0, <1>5 DEF Greet, PastType
  <2>4. past'.greeted[c] = past.greeted[c] + 1 /\ \A d \in Chats \ {c} : past'.greeted[d] = past.greeted[d]
    BY <1>0, <1>5 DEF Greet, PastType
  <2>5. run'[c].pc # "greet" /\ \A d \in Chats \ {c} : run'[d] = run[d]
    BY <2>1 DEF Stops, Steps, Others, Procs, Idle
  <2>6. ~past.faults => db.onboarded[c] /\ past.greeted[c] = 0
    BY <2>2 DEF Welcomed, At
  <2> QED BY <2>2, <2>3, <2>4, <2>5, <2>6 DEF Welcomed, At
<1>6. ASSUME NEW c \in Chats, LookForEmail(c) PROVE Welcomed'
  <2>1. db'.onboarded = db.onboarded
    BY <1>0, <1>6 DEF LookForEmail, DbType
  <2>2. past'.greeted = past.greeted
    BY <1>0, <1>6 DEF LookForEmail, Failed, Fate, PastType
  <2>3. past.faults => past'.faults
    BY <1>0, <1>6 DEF LookForEmail, Failed, Fate, PastType
  <2>4. Steps(c, "look", "take") \/ Steps(c, "look", "active")
    BY <1>6, Moves
  <2> QED BY <2>1, <2>2, <2>3, <2>4, WelcomedQuiet DEF Steps, Stops, Others, Procs, Idle
<1>7. ASSUME NEW c \in Chats, handleEmailLinkReply(c) PROVE Welcomed'
  <2>1. db'.onboarded = db.onboarded
    BY <1>0, <1>7 DEF handleEmailLinkReply, DbType
  <2>2. past'.greeted = past.greeted
    BY <1>0, <1>7 DEF handleEmailLinkReply, Failed, Fate, PastType
  <2>3. past.faults => past'.faults
    BY <1>0, <1>7 DEF handleEmailLinkReply, Failed, Fate, PastType
  <2>4. Stops(c, "take") \/ Steps(c, "take", "skipped") \/ Steps(c, "take", "initiate")
    BY <1>7, Moves
  <2> QED BY <2>1, <2>2, <2>3, <2>4, WelcomedQuiet DEF Steps, Stops, Others, Procs, Idle
<1>8. ASSUME NEW c \in Chats, SettleEmail(c) PROVE Welcomed'
  <2>1. db'.onboarded = db.onboarded
    BY <1>0, <1>8 DEF SettleEmail, DbType
  <2>2. past'.greeted = past.greeted
    BY <1>0, <1>8 DEF SettleEmail, Failed, Fate, PastType
  <2>3. past.faults => past'.faults
    BY <1>0, <1>8 DEF SettleEmail, Failed, Fate, PastType
  <2>4. Stops(c, "skipped") \/ Stops(c, "initiate")
    BY <1>8, Moves
  <2> QED BY <2>1, <2>2, <2>3, <2>4, WelcomedQuiet DEF Steps, Stops, Others, Procs, Idle
<1>9. ASSUME NEW c \in Chats, SetupCheck(c) PROVE Welcomed'
  <2>1. db'.onboarded = db.onboarded
    BY <1>0, <1>9 DEF SetupCheck, DbType
  <2>2. past'.greeted = past.greeted
    BY <1>0, <1>9 DEF SetupCheck, Failed, Fate, PastType
  <2>3. past.faults => past'.faults
    BY <1>0, <1>9 DEF SetupCheck, Failed, Fate, PastType
  <2>4. Stops(c, "active") \/ Steps(c, "active", "hold") \/ Steps(c, "active", "reply")
    BY <1>9, Moves
  <2> QED BY <2>1, <2>2, <2>3, <2>4, WelcomedQuiet DEF Steps, Stops, Others, Procs, Idle
<1>10. ASSUME NEW c \in Chats, HoldAtSetup(c) PROVE Welcomed'
  <2>1. db'.onboarded = db.onboarded
    BY <1>0, <1>10 DEF HoldAtSetup, holdTurn, DbType
  <2>2. past'.greeted = past.greeted
    BY <1>0, <1>10 DEF HoldAtSetup, holdTurn, Failed, Fate, PastType
  <2>3. past.faults => past'.faults
    BY <1>0, <1>10 DEF HoldAtSetup, holdTurn, Failed, Fate, PastType
  <2>4. Stops(c, "hold")
    BY <1>10, Moves
  <2> QED BY <2>1, <2>2, <2>3, <2>4, WelcomedQuiet DEF Steps, Stops, Others, Procs, Idle
<1>11. ASSUME NEW c \in Chats, TakeInstructions(c) PROVE Welcomed'
  <2>1. db'.onboarded = db.onboarded
    BY <1>0, <1>11 DEF TakeInstructions, Begin, DbType
  <2>2. past'.greeted = past.greeted
    BY <1>0, <1>11 DEF TakeInstructions, Begin, Failed, Fate, PastType
  <2>3. past.faults => past'.faults
    BY <1>0, <1>11 DEF TakeInstructions, Begin, Failed, Fate, PastType
  <2>4. Stops(c, "reply") \/ Steps(c, "reply", "turn")
    BY <1>11, Moves
  <2> QED BY <2>1, <2>2, <2>3, <2>4, WelcomedQuiet DEF Steps, Stops, Others, Procs, Idle
<1>12. ASSUME NEW p \in Procs, HandleTurn(p) PROVE Welcomed'
  <2>1. db'.onboarded = db.onboarded
    BY <1>0, <1>12 DEF HandleTurn, Begin, DbType
  <2>2. past'.greeted = past.greeted
    BY <1>0, <1>12 DEF HandleTurn, Begin, Failed, Fate, PastType
  <2>3. past.faults => past'.faults
    BY <1>0, <1>12 DEF HandleTurn, Begin, Failed, Fate, PastType
  <2>4. Steps(p, "begin", "turn")
    BY <1>12, Moves
  <2> QED BY <2>1, <2>2, <2>3, <2>4, WelcomedQuiet DEF Steps, Stops, Others, Procs, Idle
<1>13. ASSUME NEW p \in Procs, EndTurn(p) PROVE Welcomed'
  <2>1. db'.onboarded = db.onboarded
    BY <1>0, <1>13 DEF EndTurn, DbType
  <2>2. past'.greeted = past.greeted
    BY <1>0, <1>13 DEF EndTurn, Failed, Fate, PastType
  <2>3. past.faults => past'.faults
    BY <1>0, <1>13 DEF EndTurn, Failed, Fate, PastType
  <2>4. Stops(p, "turn")
    BY <1>13, Moves
  <2> QED BY <2>1, <2>2, <2>3, <2>4, WelcomedQuiet DEF Steps, Stops, Others, Procs, Idle
<1>14. ASSUME NEW p \in Procs, withAuthGate(p) PROVE Welcomed'
  <2>1. db'.onboarded = db.onboarded
    BY <1>0, <1>14 DEF withAuthGate, DbType
  <2>2. past'.greeted = past.greeted
    BY <1>0, <1>14 DEF withAuthGate, Failed, Fate, PastType
  <2>3. past.faults => past'.faults
    BY <1>0, <1>14 DEF withAuthGate, Failed, Fate, PastType
  <2>4. Steps(p, "turn", "turn") \/ Steps(p, "turn", "gate")
    BY <1>14, Moves
  <2> QED BY <2>1, <2>2, <2>3, <2>4, WelcomedQuiet DEF Steps, Stops, Others, Procs, Idle
<1>15. ASSUME NEW p \in Procs, shouldSendConnectPrompt(p) PROVE Welcomed'
  <2>1. db'.onboarded = db.onboarded
    BY <1>0, <1>15 DEF shouldSendConnectPrompt, DbType
  <2>2. past'.greeted = past.greeted
    BY <1>0, <1>15 DEF shouldSendConnectPrompt, Failed, Fate, PastType
  <2>3. past.faults => past'.faults
    BY <1>0, <1>15 DEF shouldSendConnectPrompt, Failed, Fate, PastType
  <2>4. Steps(p, "gate", "keep")
    BY <1>15, Moves
  <2> QED BY <2>1, <2>2, <2>3, <2>4, WelcomedQuiet DEF Steps, Stops, Others, Procs, Idle
<1>16. ASSUME NEW p \in Procs, storePending(p) PROVE Welcomed'
  <2>1. db'.onboarded = db.onboarded
    BY <1>0, <1>16 DEF storePending, holdTurn, DbType
  <2>2. past'.greeted = past.greeted
    BY <1>0, <1>16 DEF storePending, holdTurn, Failed, Fate, PastType
  <2>3. past.faults => past'.faults
    BY <1>0, <1>16 DEF storePending, holdTurn, Failed, Fate, PastType
  <2>4. Steps(p, "keep", "turn")
    BY <1>16, Moves
  <2> QED BY <2>1, <2>2, <2>3, <2>4, WelcomedQuiet DEF Steps, Stops, Others, Procs, Idle
<1>17. ASSUME SignIn PROVE Welcomed'
  <2>1. db'.onboarded = db.onboarded
    BY <1>0, <1>17 DEF SignIn, DbType
  <2>2. past'.greeted = past.greeted
    BY <1>0, <1>17 DEF SignIn, Failed, Fate, PastType
  <2>3. past.faults => past'.faults
    BY <1>0, <1>17 DEF SignIn, Failed, Fate, PastType
  <2>4. run' = run
    BY <1>17 DEF SignIn
  <2> QED BY <2>1, <2>2, <2>3, <2>4, WelcomedQuiet
<1>18. ASSUME Disconnect PROVE Welcomed'
  <2>1. db'.onboarded = db.onboarded
    BY <1>0, <1>18 DEF Disconnect, DbType
  <2>2. past'.greeted = past.greeted
    BY <1>0, <1>18 DEF Disconnect, Failed, Fate, PastType
  <2>3. past.faults => past'.faults
    BY <1>0, <1>18 DEF Disconnect, Failed, Fate, PastType
  <2>4. run' = run
    BY <1>18 DEF Disconnect
  <2> QED BY <2>1, <2>2, <2>3, <2>4, WelcomedQuiet
<1>19. ASSUME takeTurn PROVE Welcomed'
  <2>1. db'.onboarded = db.onboarded
    BY <1>0, <1>19 DEF takeTurn, TakePendingTurn, DbType
  <2>2. \A h : CarryOut(h) => past'.greeted = past.greeted /\ past'.faults = past.faults
    BY <1>0 DEF CarryOut, PastType
  <2>3. past'.greeted = past.greeted /\ past'.faults = past.faults
    BY <1>0, <1>19, <2>2 DEF takeTurn, PastType
  <2>4. ASSUME NEW h \in Held, CarryOut(h) PROVE \A c \in Chats : run'[c] = run[c]
    <3>1. run' = run \/ Others(h.msg)
      BY <2>4, Carries
    <3>2. h.msg \notin Chats
      BY InboundConstants DEF Held
    <3> QED BY <3>1, <3>2 DEF Others, Procs
  <2>5. (Fresh(db.held) => db.held \in Held) /\ (mem.held.msg # NoMsg => mem.held \in Held)
    BY HeldOnes
  <2>6. run' = run \/ \A c \in Chats : run'[c] = run[c]
    BY <1>19, <2>4, <2>5 DEF takeTurn
  <2> QED BY <2>1, <2>3, <2>6, WelcomedQuiet
<1>20. ASSUME NEW c \in Chats, NEW k \in TapKinds, Tap(c, k) PROVE Welcomed'
  <2>1. db'.onboarded = db.onboarded
    BY <1>0, <1>20 DEF Tap, DbType
  <2>2. past'.greeted = past.greeted
    BY <1>0, <1>20 DEF Tap, Failed, Fate, PastType
  <2>3. past.faults => past'.faults
    BY <1>0, <1>20 DEF Tap, Failed, Fate, PastType
  <2>4. run' = run
    BY <1>20 DEF Tap
  <2> QED BY <2>1, <2>2, <2>3, <2>4, WelcomedQuiet
<1>21. ASSUME NEW c \in Chats, handleLinkAccountCallback(c) PROVE Welcomed'
  <2>1. db'.onboarded = db.onboarded
    BY <1>0, <1>21 DEF handleLinkAccountCallback, DbType
  <2>2. past'.greeted = past.greeted
    BY <1>0, <1>21 DEF handleLinkAccountCallback, Failed, Fate, PastType
  <2>3. past.faults => past'.faults
    BY <1>0, <1>21 DEF handleLinkAccountCallback, Failed, Fate, PastType
  <2>4. run' = run
    BY <1>21 DEF handleLinkAccountCallback
  <2> QED BY <2>1, <2>2, <2>3, <2>4, WelcomedQuiet
<1>22. ASSUME NEW c \in Chats, handleInstructionsCallback(c) PROVE Welcomed'
  <2>1. db'.onboarded = db.onboarded
    BY <1>0, <1>22 DEF handleInstructionsCallback, DbType
  <2>2. past'.greeted = past.greeted
    BY <1>0, <1>22 DEF handleInstructionsCallback, Failed, Fate, PastType
  <2>3. past.faults => past'.faults
    BY <1>0, <1>22 DEF handleInstructionsCallback, Failed, Fate, PastType
  <2>4. run' = run
    BY <1>22 DEF handleInstructionsCallback
  <2> QED BY <2>1, <2>2, <2>3, <2>4, WelcomedQuiet
<1>23. ASSUME NEW c \in Chats, handleAppInstructionsCallback(c) PROVE Welcomed'
  <2>1. db'.onboarded = db.onboarded
    BY <1>0, <1>23 DEF handleAppInstructionsCallback, DbType
  <2>2. past'.greeted = past.greeted
    BY <1>0, <1>23 DEF handleAppInstructionsCallback, Failed, Fate, PastType
  <2>3. past.faults => past'.faults
    BY <1>0, <1>23 DEF handleAppInstructionsCallback, Failed, Fate, PastType
  <2>4. run' = run
    BY <1>23 DEF handleAppInstructionsCallback
  <2> QED BY <2>1, <2>2, <2>3, <2>4, WelcomedQuiet
<1>24. ASSUME NEW c \in Chats, handleInstructionsSubmission(c) PROVE Welcomed'
  <2>1. db'.onboarded = db.onboarded
    BY <1>0, <1>24 DEF handleInstructionsSubmission, DbType
  <2>2. past'.greeted = past.greeted
    BY <1>0, <1>24 DEF handleInstructionsSubmission, Failed, Fate, PastType
  <2>3. past.faults => past'.faults
    BY <1>0, <1>24 DEF handleInstructionsSubmission, Failed, Fate, PastType
  <2>4. run' = run
    BY <1>24 DEF handleInstructionsSubmission
  <2> QED BY <2>1, <2>2, <2>3, <2>4, WelcomedQuiet
<1>25. ASSUME HalfAMinute PROVE Welcomed'
  <2>1. db'.onboarded = db.onboarded
    BY <1>0, <1>25 DEF HalfAMinute, DbType
  <2>2. past'.greeted = past.greeted
    BY <1>0, <1>25 DEF HalfAMinute, Failed, Fate, PastType
  <2>3. past.faults => past'.faults
    BY <1>0, <1>25 DEF HalfAMinute, Failed, Fate, PastType
  <2>4. run' = run
    BY <1>25 DEF HalfAMinute
  <2> QED BY <2>1, <2>2, <2>3, <2>4, WelcomedQuiet
<1>26. ASSUME LongWait PROVE Welcomed'
  <2>1. db'.onboarded = db.onboarded
    BY <1>0, <1>26 DEF LongWait, DbType
  <2>2. past'.greeted = past.greeted
    BY <1>0, <1>26 DEF LongWait, Failed, Fate, PastType
  <2>3. past.faults => past'.faults
    BY <1>0, <1>26 DEF LongWait, Failed, Fate, PastType
  <2>4. run' = run
    BY <1>26 DEF LongWait
  <2> QED BY <2>1, <2>2, <2>3, <2>4, WelcomedQuiet
<1>27. ASSUME Restart PROVE Welcomed'
  <2>1. db' = db /\ past'.greeted = past.greeted /\ past'.faults = past.faults
    BY <1>0, <1>27 DEF Restart, PastType
  <2>2. \A c \in Chats : run'[c].pc # "greet"
    BY <1>27 DEF Restart, Idle, Procs
  <2> QED BY <2>1, <2>2, WelcomedQuiet
<1>28. CASE UNCHANGED vars
  BY <1>28 DEF vars, Welcomed, At
<1> QED
  BY <1>1, <1>2, <1>3, <1>4, <1>5, <1>6, <1>7, <1>8, <1>9, <1>10, <1>11, <1>12, <1>13, <1>14, <1>15, <1>16, <1>17, <1>18, <1>19, <1>20, <1>21, <1>22, <1>23, <1>24, <1>25, <1>26, <1>27, <1>28 DEF Next, HandleInbound, Turn

(***************************************************************************)
(* What is held is carried out as often as it was held, at most.           *)
(***************************************************************************)
LEMMA CountedHold ==
  ASSUME Types, Counted, NEW p \in Procs, run[p] \in Handling, holdTurn(p)
  PROVE  Counted'
<1> DEFINE m == run[p].msg
           h == [msg |-> m, chat |-> Chat(p), old |-> FALSE]
<1>1. db \in DbType /\ mem \in MemType /\ past \in PastType /\ m \in Ids
  BY DEF Types, TypedState, Handling
<1>2. past'.replays = past.replays /\ past'.holds = [past.holds EXCEPT ![m] = @ + 1]
  BY <1>1 DEF holdTurn, PastType
<1>3. h.msg = m
  OBVIOUS
<1>4. (UNCHANGED mem /\ db' = [db EXCEPT !.held = h]) \/ (UNCHANGED db /\ mem' = [mem EXCEPT !.held = h])
  BY DEF holdTurn
<1> HIDE DEF h
<1>5. (mem'.held = mem.held /\ db'.held.msg = m) \/ (db'.held = db.held /\ mem'.held.msg = m)
  BY <1>1, <1>3, <1>4 DEF DbType, MemType
<1>6. \A i \in Ids : past.replays[i] \in Nat /\ past.holds[i] \in Nat
  BY <1>1 DEF PastType
<1>7. ASSUME NEW i \in Ids
      PROVE  past'.replays[i] + One(db'.held.msg = i) + One(mem'.held.msg = i) <= past'.holds[i]
  <2>1. past.replays[i] + One(db.held.msg = i) + One(mem.held.msg = i) <= past.holds[i]
    BY DEF Counted
  <2>2. CASE i = m
    <3>1. past'.holds[i] = past.holds[i] + 1
      BY <1>1, <1>2, <2>2 DEF PastType
    <3> QED BY <1>2, <1>5, <1>6, <2>1, <3>1 DEF One
  <2>3. CASE i # m
    <3>1. past'.holds[i] = past.holds[i]
      BY <1>1, <1>2, <2>3 DEF PastType
    <3> QED BY <1>2, <1>5, <1>6, <2>1, <2>3, <3>1 DEF One
  <2> QED BY <2>2, <2>3
<1> QED BY <1>7 DEF Counted

\* A request taken out of where it was held is carried out once more at most.
LEMMA CountedCarry ==
  ASSUME Types, Counted, NEW h \in Held, CarryOut(h), past'.holds = past.holds,
         \/ h = db.held /\ db'.held = NothingHeld /\ mem'.held = mem.held
         \/ h = mem.held /\ mem'.held = NothingHeld /\ db'.held = db.held
  PROVE  Counted'
<1>1. past \in PastType /\ h.msg \in Ids
  BY DEF Types, TypedState, Held
<1>2. \A i \in Ids : past.replays[i] \in Nat /\ past.holds[i] \in Nat
  BY <1>1 DEF PastType
<1>3. \/ past'.replays = past.replays
      \/ past'.replays = [past.replays EXCEPT ![h.msg] = @ + 1]
  BY <1>1 DEF CarryOut, PastType
<1>4. \A i \in Ids : past'.replays[i] = past.replays[i] \/ (i = h.msg /\ past'.replays[i] = past.replays[i] + 1)
  BY <1>1, <1>3 DEF PastType
<1>5. \A i \in Ids : NothingHeld.msg # i
  BY InboundConstants DEF NothingHeld
<1>6. ASSUME NEW i \in Ids
      PROVE  past'.replays[i] + One(db'.held.msg = i) + One(mem'.held.msg = i) <= past.holds[i]
  <2>1. past.replays[i] + One(db.held.msg = i) + One(mem.held.msg = i) <= past.holds[i]
    BY DEF Counted
  <2> QED BY <1>2, <1>4, <1>5, <2>1 DEF One
<1> QED BY <1>6 DEF Counted

LEMMA CountedFewer ==
  ASSUME Types, Counted, past'.holds = past.holds, past'.replays = past.replays,
         db'.held.msg \in {NoMsg, db.held.msg}, mem'.held.msg \in {NoMsg, mem.held.msg}
  PROVE  Counted'
<1>1. past \in PastType
  BY DEF Types, TypedState
<1>2. \A i \in Ids : past.replays[i] \in Nat /\ past.holds[i] \in Nat
  BY <1>1 DEF PastType
<1>3. \A i \in Ids : NoMsg # i
  BY InboundConstants
<1> QED BY <1>2, <1>3 DEF Counted, One

LEMMA CountedKept == Types /\ Counted /\ [Next]_vars => Counted'
<1> SUFFICES ASSUME Types, Counted, [Next]_vars PROVE Counted'
  OBVIOUS
<1>0. db \in DbType /\ mem \in MemType /\ run \in RunType /\ past \in PastType /\ tap \in TapType
  BY DEF Types, TypedState
<1>1. ASSUME NEW c \in Chats, NEW k \in Kinds, Write(c, k) PROVE Counted'
  <2>1. past'.replays = past.replays /\ past'.holds = past.holds
    BY <1>0, <1>1 DEF Write, Failed, Fate, PastType
  <2>2. db'.held = db.held
    BY <1>0, <1>1 DEF Write, DbType
  <2>3. mem'.held = mem.held
    BY <1>0, <1>1 DEF Write, MemType
  <2> QED BY <2>1, <2>2, <2>3 DEF Counted
<1>2. ASSUME NEW c \in Chats, TurnAway(c) PROVE Counted'
  <2>1. past'.replays = past.replays /\ past'.holds = past.holds
    BY <1>0, <1>2 DEF TurnAway, Failed, Fate, PastType
  <2>2. db'.held = db.held
    BY <1>0, <1>2 DEF TurnAway, DbType
  <2>3. mem'.held = mem.held
    BY <1>0, <1>2 DEF TurnAway, MemType
  <2> QED BY <2>1, <2>2, <2>3 DEF Counted
<1>3. ASSUME NEW c \in Chats, FirstEars(c) PROVE Counted'
  <2>1. past'.replays = past.replays /\ past'.holds = past.holds
    BY <1>0, <1>3 DEF FirstEars, Failed, Fate, PastType
  <2>2. db'.held = db.held
    BY <1>0, <1>3 DEF FirstEars, DbType
  <2>3. mem'.held = mem.held
    BY <1>0, <1>3 DEF FirstEars, MemType
  <2> QED BY <2>1, <2>2, <2>3 DEF Counted
<1>4. ASSUME NEW c \in Chats, Welcome(c) PROVE Counted'
  <2>1. past'.replays = past.replays /\ past'.holds = past.holds
    BY <1>0, <1>4 DEF Welcome, Failed, Fate, PastType
  <2>2. db'.held = db.held
    BY <1>0, <1>4 DEF Welcome, DbType
  <2>3. mem'.held = mem.held
    BY <1>0, <1>4 DEF Welcome, MemType
  <2> QED BY <2>1, <2>2, <2>3 DEF Counted
<1>5. ASSUME NEW c \in Chats, Greet(c) PROVE Counted'
  <2>1. past'.replays = past.replays /\ past'.holds = past.holds
    BY <1>0, <1>5 DEF Greet, Failed, Fate, PastType
  <2>2. db'.held = db.held
    BY <1>0, <1>5 DEF Greet, DbType
  <2>3. mem'.held = mem.held
    BY <1>0, <1>5 DEF Greet, MemType
  <2> QED BY <2>1, <2>2, <2>3 DEF Counted
<1>6. ASSUME NEW c \in Chats, LookForEmail(c) PROVE Counted'
  <2>1. past'.replays = past.replays /\ past'.holds = past.holds
    BY <1>0, <1>6 DEF LookForEmail, Failed, Fate, PastType
  <2>2. db'.held = db.held
    BY <1>0, <1>6 DEF LookForEmail, DbType
  <2>3. mem'.held = mem.held
    BY <1>0, <1>6 DEF LookForEmail, MemType
  <2> QED BY <2>1, <2>2, <2>3 DEF Counted
<1>7. ASSUME NEW c \in Chats, handleEmailLinkReply(c) PROVE Counted'
  <2>1. past'.replays = past.replays /\ past'.holds = past.holds
    BY <1>0, <1>7 DEF handleEmailLinkReply, Failed, Fate, PastType
  <2>2. db'.held = db.held
    BY <1>0, <1>7 DEF handleEmailLinkReply, DbType
  <2>3. mem'.held = mem.held
    BY <1>0, <1>7 DEF handleEmailLinkReply, MemType
  <2> QED BY <2>1, <2>2, <2>3 DEF Counted
<1>8. ASSUME NEW c \in Chats, SettleEmail(c) PROVE Counted'
  <2>1. past'.replays = past.replays /\ past'.holds = past.holds
    BY <1>0, <1>8 DEF SettleEmail, Failed, Fate, PastType
  <2>2. db'.held = db.held
    BY <1>0, <1>8 DEF SettleEmail, DbType
  <2>3. mem'.held = mem.held
    BY <1>0, <1>8 DEF SettleEmail, MemType
  <2> QED BY <2>1, <2>2, <2>3 DEF Counted
<1>9. ASSUME NEW c \in Chats, SetupCheck(c) PROVE Counted'
  <2>1. past'.replays = past.replays /\ past'.holds = past.holds
    BY <1>0, <1>9 DEF SetupCheck, Failed, Fate, PastType
  <2>2. db'.held = db.held
    BY <1>0, <1>9 DEF SetupCheck, DbType
  <2>3. mem'.held = mem.held
    BY <1>0, <1>9 DEF SetupCheck, MemType
  <2> QED BY <2>1, <2>2, <2>3 DEF Counted
<1>10. ASSUME NEW c \in Chats, HoldAtSetup(c) PROVE Counted'
  <2>1. run[c] \in Handling
    BY <1>10, Moves DEF Stops
  <2> QED BY <1>10, <2>1, CountedHold DEF HoldAtSetup, Procs
<1>11. ASSUME NEW c \in Chats, TakeInstructions(c) PROVE Counted'
  <2>1. past'.replays = past.replays /\ past'.holds = past.holds
    BY <1>0, <1>11 DEF TakeInstructions, Begin, Failed, Fate, PastType
  <2>2. db'.held = db.held
    BY <1>0, <1>11 DEF TakeInstructions, Begin, DbType
  <2>3. mem'.held = mem.held
    BY <1>0, <1>11 DEF TakeInstructions, Begin, MemType
  <2> QED BY <2>1, <2>2, <2>3 DEF Counted
<1>12. ASSUME NEW p \in Procs, HandleTurn(p) PROVE Counted'
  <2>1. past'.replays = past.replays /\ past'.holds = past.holds
    BY <1>0, <1>12 DEF HandleTurn, Begin, Failed, Fate, PastType
  <2>2. db'.held = db.held
    BY <1>0, <1>12 DEF HandleTurn, Begin, DbType
  <2>3. mem'.held = mem.held
    BY <1>0, <1>12 DEF HandleTurn, Begin, MemType
  <2> QED BY <2>1, <2>2, <2>3 DEF Counted
<1>13. ASSUME NEW p \in Procs, EndTurn(p) PROVE Counted'
  <2>1. past'.replays = past.replays /\ past'.holds = past.holds
    BY <1>0, <1>13 DEF EndTurn, Failed, Fate, PastType
  <2>2. db'.held = db.held
    BY <1>0, <1>13 DEF EndTurn, DbType
  <2>3. mem'.held = mem.held
    BY <1>0, <1>13 DEF EndTurn, MemType
  <2> QED BY <2>1, <2>2, <2>3 DEF Counted
<1>14. ASSUME NEW p \in Procs, withAuthGate(p) PROVE Counted'
  <2>1. past'.replays = past.replays /\ past'.holds = past.holds
    BY <1>0, <1>14 DEF withAuthGate, Failed, Fate, PastType
  <2>2. db'.held = db.held
    BY <1>0, <1>14 DEF withAuthGate, DbType
  <2>3. mem'.held = mem.held
    BY <1>0, <1>14 DEF withAuthGate, MemType
  <2> QED BY <2>1, <2>2, <2>3 DEF Counted
<1>15. ASSUME NEW p \in Procs, shouldSendConnectPrompt(p) PROVE Counted'
  <2>1. past'.replays = past.replays /\ past'.holds = past.holds
    BY <1>0, <1>15 DEF shouldSendConnectPrompt, Failed, Fate, PastType
  <2>2. db'.held = db.held
    BY <1>0, <1>15 DEF shouldSendConnectPrompt, DbType
  <2>3. mem'.held = mem.held
    BY <1>0, <1>15 DEF shouldSendConnectPrompt, MemType
  <2> QED BY <2>1, <2>2, <2>3 DEF Counted
<1>16. ASSUME NEW p \in Procs, storePending(p) PROVE Counted'
  <2>1. run[p] \in Handling
    BY <1>16, Moves DEF Steps
  <2> QED BY <1>16, <2>1, CountedHold DEF storePending
<1>17. ASSUME SignIn PROVE Counted'
  <2>1. past'.replays = past.replays /\ past'.holds = past.holds
    BY <1>0, <1>17 DEF SignIn, Failed, Fate, PastType
  <2>2. db'.held = db.held
    BY <1>0, <1>17 DEF SignIn, DbType
  <2>3. mem'.held = mem.held
    BY <1>0, <1>17 DEF SignIn, MemType
  <2> QED BY <2>1, <2>2, <2>3 DEF Counted
<1>18. ASSUME Disconnect PROVE Counted'
  <2>1. past'.replays = past.replays /\ past'.holds = past.holds
    BY <1>0, <1>18 DEF Disconnect, Failed, Fate, PastType
  <2>2. db'.held = db.held
    BY <1>0, <1>18 DEF Disconnect, DbType
  <2>3. mem'.held = mem.held
    BY <1>0, <1>18 DEF Disconnect, MemType
  <2> QED BY <2>1, <2>2, <2>3 DEF Counted
<1>19. ASSUME takeTurn PROVE Counted'
  <2>0. NothingHeld.msg = NoMsg
    BY DEF NothingHeld
  <2>1. (Fresh(db.held) => db.held \in Held) /\ (mem.held.msg # NoMsg => mem.held \in Held)
    BY HeldOnes
  <2>2. CASE conn.pc = "take"
    <3>1. db'.held = NothingHeld /\ mem' = mem
      BY <1>0, <1>19, <2>2 DEF takeTurn, TakePendingTurn, DbType
    <3>2. CASE Fresh(db.held)
      <4>1. CarryOut(db.held) /\ db.held \in Held
        BY <1>19, <2>1, <2>2, <3>2 DEF takeTurn
      <4>2. past'.holds = past.holds
        BY <1>0, <4>1 DEF CarryOut, PastType
      <4> QED BY <3>1, <4>1, <4>2, CountedCarry
    <3>3. CASE ~Fresh(db.held)
      <4>1. past'.holds = past.holds /\ past'.replays = past.replays
        BY <1>0, <1>19, <2>2, <3>3 DEF takeTurn, PastType
      <4> QED BY <2>0, <3>1, <4>1, CountedFewer
    <3> QED BY <3>2, <3>3
  <2>3. CASE conn.pc = "memory"
    <3>1. mem'.held = NothingHeld /\ db' = db
      BY <1>0, <1>19, <2>3 DEF takeTurn, MemType
    <3>2. CASE mem.held.msg # NoMsg
      <4>1. CarryOut(mem.held) /\ mem.held \in Held
        BY <1>19, <2>1, <2>3, <3>2 DEF takeTurn
      <4>2. past'.holds = past.holds
        BY <1>0, <4>1 DEF CarryOut, PastType
      <4> QED BY <3>1, <4>1, <4>2, CountedCarry
    <3>3. CASE mem.held.msg = NoMsg
      <4>1. past' = past
        BY <1>19, <2>3, <3>3 DEF takeTurn
      <4> QED BY <2>0, <3>1, <4>1, CountedFewer
    <3> QED BY <3>2, <3>3
  <2> QED BY <1>19, <2>2, <2>3 DEF takeTurn
<1>20. ASSUME NEW c \in Chats, NEW k \in TapKinds, Tap(c, k) PROVE Counted'
  <2>1. past'.replays = past.replays /\ past'.holds = past.holds
    BY <1>0, <1>20 DEF Tap, Failed, Fate, PastType
  <2>2. db'.held = db.held
    BY <1>0, <1>20 DEF Tap, DbType
  <2>3. mem'.held = mem.held
    BY <1>0, <1>20 DEF Tap, MemType
  <2> QED BY <2>1, <2>2, <2>3 DEF Counted
<1>21. ASSUME NEW c \in Chats, handleLinkAccountCallback(c) PROVE Counted'
  <2>1. past'.replays = past.replays /\ past'.holds = past.holds
    BY <1>0, <1>21 DEF handleLinkAccountCallback, Failed, Fate, PastType
  <2>2. db'.held = db.held
    BY <1>0, <1>21 DEF handleLinkAccountCallback, DbType
  <2>3. mem'.held = mem.held
    BY <1>0, <1>21 DEF handleLinkAccountCallback, MemType
  <2> QED BY <2>1, <2>2, <2>3 DEF Counted
<1>22. ASSUME NEW c \in Chats, handleInstructionsCallback(c) PROVE Counted'
  <2>1. past'.replays = past.replays /\ past'.holds = past.holds
    BY <1>0, <1>22 DEF handleInstructionsCallback, Failed, Fate, PastType
  <2>2. db'.held = db.held
    BY <1>0, <1>22 DEF handleInstructionsCallback, DbType
  <2>3. mem'.held = mem.held
    BY <1>0, <1>22 DEF handleInstructionsCallback, MemType
  <2> QED BY <2>1, <2>2, <2>3 DEF Counted
<1>23. ASSUME NEW c \in Chats, handleAppInstructionsCallback(c) PROVE Counted'
  <2>1. past'.replays = past.replays /\ past'.holds = past.holds
    BY <1>0, <1>23 DEF handleAppInstructionsCallback, Failed, Fate, PastType
  <2>2. db'.held = db.held
    BY <1>0, <1>23 DEF handleAppInstructionsCallback, DbType
  <2>3. mem'.held = mem.held
    BY <1>0, <1>23 DEF handleAppInstructionsCallback, MemType
  <2> QED BY <2>1, <2>2, <2>3 DEF Counted
<1>24. ASSUME NEW c \in Chats, handleInstructionsSubmission(c) PROVE Counted'
  <2>1. past'.replays = past.replays /\ past'.holds = past.holds
    BY <1>0, <1>24 DEF handleInstructionsSubmission, Failed, Fate, PastType
  <2>2. db'.held = db.held
    BY <1>0, <1>24 DEF handleInstructionsSubmission, DbType
  <2>3. mem'.held = mem.held
    BY <1>0, <1>24 DEF handleInstructionsSubmission, MemType
  <2> QED BY <2>1, <2>2, <2>3 DEF Counted
<1>25. ASSUME HalfAMinute PROVE Counted'
  <2>1. past'.replays = past.replays /\ past'.holds = past.holds
    BY <1>0, <1>25 DEF HalfAMinute, Failed, Fate, PastType
  <2>2. db'.held = db.held
    BY <1>0, <1>25 DEF HalfAMinute, DbType
  <2>3. mem'.held = mem.held
    BY <1>0, <1>25 DEF HalfAMinute, MemType
  <2> QED BY <2>1, <2>2, <2>3 DEF Counted
<1>26. ASSUME LongWait PROVE Counted'
  <2>1. past'.holds = past.holds /\ past'.replays = past.replays
    BY <1>0, <1>26 DEF LongWait, PastType
  <2>2. db'.held = IF db.held.msg = NoMsg THEN db.held ELSE [db.held EXCEPT !.old = TRUE]
    BY <1>0, <1>26 DEF LongWait, DbType
  <2>3. mem'.held = IF mem.held.msg = NoMsg THEN mem.held ELSE [mem.held EXCEPT !.old = TRUE]
    BY <1>0, <1>26 DEF LongWait, MemType
  <2>4. db.held \in Held \cup {NothingHeld} /\ mem.held \in Held \cup {NothingHeld}
    BY <1>0 DEF DbType, MemType
  <2>5. db'.held.msg = db.held.msg /\ mem'.held.msg = mem.held.msg
    BY <2>2, <2>3, <2>4 DEF Held, NothingHeld
  <2> QED BY <2>1, <2>5, CountedFewer
<1>27. ASSUME Restart PROVE Counted'
  <2>1. past'.holds = past.holds /\ past'.replays = past.replays /\ db' = db /\ mem'.held.msg = NoMsg
    BY <1>0, <1>27 DEF Restart, Fresh0, PastType, NothingHeld
  <2> QED BY <2>1, CountedFewer
<1>28. CASE UNCHANGED vars
  BY <1>28 DEF vars, Counted
<1> QED
  BY <1>1, <1>2, <1>3, <1>4, <1>5, <1>6, <1>7, <1>8, <1>9, <1>10, <1>11, <1>12, <1>13, <1>14, <1>15, <1>16, <1>17, <1>18, <1>19, <1>20, <1>21, <1>22, <1>23, <1>24, <1>25, <1>26, <1>27, <1>28 DEF Next, HandleInbound, Turn

(***************************************************************************)
(* Nothing is held past the moment they connect.                           *)
(***************************************************************************)
LEMMA AwaitedQuiet ==
  ASSUME Awaited, past.early => past'.early, past.cut => past'.cut, db'.connected = db.connected, conn' = conn,
         db'.held = db.held, \A p \in Procs : Between(p)' => Between(p) \/ ~db.connected
  PROVE  Awaited'
  BY DEF Awaited

\* Who holds a request found it not connected.
LEMMA AwaitedHold ==
  ASSUME Types, Awaited, NEW p \in Procs, Between(p), past.early => past'.early, past.cut => past'.cut,
         db'.connected = db.connected, conn' = conn
  PROVE  Awaited'
  BY DEF Awaited

LEMMA Held1 == ASSUME Types, NEW p \in Procs, holdTurn(p)
               PROVE  (past.early => past'.early) /\ (past.cut => past'.cut) /\ db'.connected = db.connected
<1>1. db \in DbType /\ past \in PastType
  BY DEF Types, TypedState
<1>2. past'.early = past.early /\ past'.cut = past.cut
  BY <1>1 DEF holdTurn, PastType
<1>3. db'.connected = db.connected
  BY <1>1 DEF holdTurn, DbType
<1> QED BY <1>2, <1>3

LEMMA AwaitedKept == Types /\ Awaited /\ [Next]_vars => Awaited'
<1> SUFFICES ASSUME Types, Awaited, [Next]_vars PROVE Awaited'
  OBVIOUS
<1>0. db \in DbType /\ mem \in MemType /\ run \in RunType /\ past \in PastType /\ tap \in TapType
  BY DEF Types, TypedState
<1>1. ASSUME NEW c \in Chats, NEW k \in Kinds, Write(c, k) PROVE Awaited'
  <2>1. past'.early = past.early /\ past'.cut = past.cut /\ db' = db /\ conn' = conn
    BY <1>0, <1>1 DEF Write, PastType
  <2>2. \A q \in Procs : run'[q] = run[q] \/ run'[q].pc = "who"
    BY <1>0, <1>1 DEF Write, RunType
  <2>3. \A q \in Procs : Between(q)' => Between(q)
    BY <2>2 DEF Between
  <2> QED BY <2>1, <2>3, AwaitedQuiet
<1>2. ASSUME NEW c \in Chats, TurnAway(c) PROVE Awaited'
  <2>1. past.early => past'.early
    BY <1>0, <1>2 DEF TurnAway, Failed, Fate, PastType
  <2>2. past.cut => past'.cut
    BY <1>0, <1>2 DEF TurnAway, Failed, Fate, PastType
  <2>3. db'.connected = db.connected /\ db'.held = db.held
    BY <1>0, <1>2 DEF TurnAway, DbType
  <2>4. conn' = conn
    BY <1>0, <1>2 DEF TurnAway
  <2>5. Stops(c, "who")
    BY <1>2, Moves
  <2> QED BY <2>1, <2>2, <2>3, <2>4, <2>5, AwaitedQuiet DEF Steps, Stops, Others, Between, Idle
<1>3. ASSUME NEW c \in Chats, FirstEars(c) PROVE Awaited'
  <2>1. past.early => past'.early
    BY <1>0, <1>3 DEF FirstEars, Failed, Fate, PastType
  <2>2. past.cut => past'.cut
    BY <1>0, <1>3 DEF FirstEars, Failed, Fate, PastType
  <2>3. db'.connected = db.connected /\ db'.held = db.held
    BY <1>0, <1>3 DEF FirstEars, DbType
  <2>4. conn' = conn
    BY <1>0, <1>3 DEF FirstEars
  <2>5. Stops(c, "who") \/ Steps(c, "who", "welcome")
    BY <1>3, Moves
  <2> QED BY <2>1, <2>2, <2>3, <2>4, <2>5, AwaitedQuiet DEF Steps, Stops, Others, Between, Idle
<1>4. ASSUME NEW c \in Chats, Welcome(c) PROVE Awaited'
  <2>1. past.early => past'.early
    BY <1>0, <1>4 DEF Welcome, Failed, Fate, PastType
  <2>2. past.cut => past'.cut
    BY <1>0, <1>4 DEF Welcome, Failed, Fate, PastType
  <2>3. db'.connected = db.connected /\ db'.held = db.held
    BY <1>0, <1>4 DEF Welcome, DbType
  <2>4. conn' = conn
    BY <1>0, <1>4 DEF Welcome
  <2>5. Stops(c, "welcome") \/ Steps(c, "welcome", "look") \/ Steps(c, "welcome", "greet")
    BY <1>4, Moves
  <2> QED BY <2>1, <2>2, <2>3, <2>4, <2>5, AwaitedQuiet DEF Steps, Stops, Others, Between, Idle
<1>5. ASSUME NEW c \in Chats, Greet(c) PROVE Awaited'
  <2>1. past.early => past'.early
    BY <1>0, <1>5 DEF Greet, Failed, Fate, PastType
  <2>2. past.cut => past'.cut
    BY <1>0, <1>5 DEF Greet, Failed, Fate, PastType
  <2>3. db'.connected = db.connected /\ db'.held = db.held
    BY <1>0, <1>5 DEF Greet, DbType
  <2>4. conn' = conn
    BY <1>0, <1>5 DEF Greet
  <2>5. Stops(c, "greet") \/ Steps(c, "greet", "look")
    BY <1>5, Moves
  <2> QED BY <2>1, <2>2, <2>3, <2>4, <2>5, AwaitedQuiet DEF Steps, Stops, Others, Between, Idle
<1>6. ASSUME NEW c \in Chats, LookForEmail(c) PROVE Awaited'
  <2>1. past.early => past'.early
    BY <1>0, <1>6 DEF LookForEmail, Failed, Fate, PastType
  <2>2. past.cut => past'.cut
    BY <1>0, <1>6 DEF LookForEmail, Failed, Fate, PastType
  <2>3. db'.connected = db.connected /\ db'.held = db.held
    BY <1>0, <1>6 DEF LookForEmail, DbType
  <2>4. conn' = conn
    BY <1>0, <1>6 DEF LookForEmail
  <2>5. Steps(c, "look", "take") \/ Steps(c, "look", "active")
    BY <1>6, Moves
  <2> QED BY <2>1, <2>2, <2>3, <2>4, <2>5, AwaitedQuiet DEF Steps, Stops, Others, Between, Idle
<1>7. ASSUME NEW c \in Chats, handleEmailLinkReply(c) PROVE Awaited'
  <2>1. past.early => past'.early
    BY <1>0, <1>7 DEF handleEmailLinkReply, Failed, Fate, PastType
  <2>2. past.cut => past'.cut
    BY <1>0, <1>7 DEF handleEmailLinkReply, Failed, Fate, PastType
  <2>3. db'.connected = db.connected /\ db'.held = db.held
    BY <1>0, <1>7 DEF handleEmailLinkReply, DbType
  <2>4. conn' = conn
    BY <1>0, <1>7 DEF handleEmailLinkReply
  <2>5. Stops(c, "take") \/ Steps(c, "take", "skipped") \/ Steps(c, "take", "initiate")
    BY <1>7, Moves
  <2> QED BY <2>1, <2>2, <2>3, <2>4, <2>5, AwaitedQuiet DEF Steps, Stops, Others, Between, Idle
<1>8. ASSUME NEW c \in Chats, SettleEmail(c) PROVE Awaited'
  <2>1. past.early => past'.early
    BY <1>0, <1>8 DEF SettleEmail, Failed, Fate, PastType
  <2>2. past.cut => past'.cut
    BY <1>0, <1>8 DEF SettleEmail, Failed, Fate, PastType
  <2>3. db'.connected = db.connected /\ db'.held = db.held
    BY <1>0, <1>8 DEF SettleEmail, DbType
  <2>4. conn' = conn
    BY <1>0, <1>8 DEF SettleEmail
  <2>5. Stops(c, "skipped") \/ Stops(c, "initiate")
    BY <1>8, Moves
  <2> QED BY <2>1, <2>2, <2>3, <2>4, <2>5, AwaitedQuiet DEF Steps, Stops, Others, Between, Idle
<1>9. ASSUME NEW c \in Chats, SetupCheck(c) PROVE Awaited'
  <2>1. Stops(c, "active") \/ Steps(c, "active", "hold") \/ Steps(c, "active", "reply")
    BY <1>9, Moves
  <2>2. past'.early = past.early /\ past'.cut = past.cut
    BY <1>0, <1>9 DEF SetupCheck, Fate, PastType
  <2>3. db' = db /\ conn' = conn
    BY <1>9 DEF SetupCheck
  <2>4. CASE ~db.connected
    BY <2>3, <2>4 DEF Awaited
  <2>5. CASE db.connected
    <3>1. run'[c].pc = "reply"
      BY <1>0, <1>9, <2>1, <2>5 DEF SetupCheck, Go, RunType, Stops, Steps, Handling
    <3>2. \A q \in Procs : Between(q)' => Between(q)
      BY <2>1, <3>1 DEF Between, Stops, Steps, Others
    <3> QED BY <2>2, <2>3, <3>2, AwaitedQuiet
  <2> QED BY <1>0, <2>4, <2>5 DEF DbType
<1>10. ASSUME NEW c \in Chats, HoldAtSetup(c) PROVE Awaited'
  <2>1. c \in Procs /\ Between(c) /\ conn' = conn
    BY <1>10 DEF HoldAtSetup, At, Between, Procs
  <2>2. holdTurn(c)
    BY <1>10 DEF HoldAtSetup
  <2>3. (past.early => past'.early) /\ (past.cut => past'.cut) /\ db'.connected = db.connected
    BY <2>1, <2>2, Held1
  <2> QED BY <2>1, <2>3, AwaitedHold
<1>11. ASSUME NEW c \in Chats, TakeInstructions(c) PROVE Awaited'
  <2>1. past'.early = past.early /\ past'.cut = past.cut
    BY <1>0, <1>11 DEF TakeInstructions, Begin, Fate, PastType
  <2>2. db'.connected = db.connected /\ db'.held = db.held
    BY <1>0, <1>11 DEF TakeInstructions, DbType
  <2>3. conn' = conn
    BY <1>11 DEF TakeInstructions
  <2>4. Stops(c, "reply") \/ Steps(c, "reply", "turn")
    BY <1>11, Moves
  <2>5. Begin(c) => run'[c].signedIn = db.connected
    BY <1>0, <2>4, Begins DEF Stops, Steps, Handling
  <2>6. Begin(c) \/ Done(c)
    BY <1>11 DEF TakeInstructions
  <2>7. Done(c) => run'[c] = Idle
    BY <2>4, Finishes DEF Stops, Steps
  <2>8. Between(c)' => ~db.connected
    BY <2>4, <2>5, <2>6, <2>7 DEF Between, Stops, Steps, Idle
  <2>9. \A q \in Procs : Between(q)' => Between(q) \/ ~db.connected
    BY <2>4, <2>8 DEF Between, Stops, Steps, Others
  <2> QED BY <2>1, <2>2, <2>3, <2>9, AwaitedQuiet
<1>12. ASSUME NEW p \in Procs, HandleTurn(p) PROVE Awaited'
  <2>1. past'.early = past.early /\ past'.cut = past.cut /\ db' = db /\ conn' = conn
    BY <1>0, <1>12 DEF HandleTurn, Begin, Fate, PastType
  <2>2. Steps(p, "begin", "turn")
    BY <1>12, Moves
  <2>3. run'[p].signedIn = db.connected
    BY <1>0, <1>12, <2>2, Begins DEF HandleTurn, Steps, Handling
  <2>4. \A q \in Procs : Between(q)' => Between(q) \/ ~db.connected
    BY <2>2, <2>3 DEF Between, Steps, Others
  <2> QED BY <2>1, <2>4, AwaitedQuiet
<1>13. ASSUME NEW p \in Procs, EndTurn(p) PROVE Awaited'
  <2>1. past.early => past'.early
    BY <1>0, <1>13 DEF EndTurn, Failed, Fate, PastType
  <2>2. past.cut => past'.cut
    BY <1>0, <1>13 DEF EndTurn, Failed, Fate, PastType
  <2>3. db'.connected = db.connected /\ db'.held = db.held
    BY <1>0, <1>13 DEF EndTurn, DbType
  <2>4. conn' = conn
    BY <1>0, <1>13 DEF EndTurn
  <2>5. Stops(p, "turn")
    BY <1>13, Moves
  <2> QED BY <2>1, <2>2, <2>3, <2>4, <2>5, AwaitedQuiet DEF Steps, Stops, Others, Between, Idle
<1>14. ASSUME NEW p \in Procs, withAuthGate(p) PROVE Awaited'
  <2>1. past' = past /\ db' = db /\ conn' = conn /\ run[p].pc = "turn"
    BY <1>14 DEF withAuthGate, At
  <2>2. Steps(p, "turn", "turn") \/ Steps(p, "turn", "gate")
    BY <1>14, Moves
  <2>3. run'[p].signedIn = run[p].signedIn /\ (run[p].signedIn => run'[p].pc = "turn")
    BY <1>0, <1>14, <2>2 DEF withAuthGate, Steps, Handling, RunType
  <2>4. \A q \in Procs : Between(q)' => Between(q)
    BY <2>1, <2>2, <2>3 DEF Between, Steps, Others
  <2> QED BY <2>1, <2>4, AwaitedQuiet
<1>15. ASSUME NEW p \in Procs, shouldSendConnectPrompt(p) PROVE Awaited'
  <2>1. past.early => past'.early
    BY <1>0, <1>15 DEF shouldSendConnectPrompt, Failed, Fate, PastType
  <2>2. past.cut => past'.cut
    BY <1>0, <1>15 DEF shouldSendConnectPrompt, Failed, Fate, PastType
  <2>3. db'.connected = db.connected /\ db'.held = db.held
    BY <1>0, <1>15 DEF shouldSendConnectPrompt, DbType
  <2>4. conn' = conn
    BY <1>0, <1>15 DEF shouldSendConnectPrompt
  <2>5. Steps(p, "gate", "keep")
    BY <1>15, Moves
  <2> QED BY <2>1, <2>2, <2>3, <2>4, <2>5, AwaitedQuiet DEF Steps, Stops, Others, Between, Idle
<1>16. ASSUME NEW p \in Procs, storePending(p) PROVE Awaited'
  <2>1. Between(p) /\ conn' = conn
    BY <1>16 DEF storePending, At, Between
  <2>2. holdTurn(p)
    BY <1>16 DEF storePending
  <2>3. (past.early => past'.early) /\ (past.cut => past'.cut) /\ db'.connected = db.connected
    BY <2>2, Held1
  <2> QED BY <2>1, <2>3, AwaitedHold
<1>17. ASSUME SignIn PROVE Awaited'
  <2>1. conn'.pc = "take"
    BY <1>17 DEF SignIn
  <2> QED BY <2>1 DEF Awaited
<1>18. ASSUME Disconnect PROVE Awaited'
  <2>1. ~db'.connected
    BY <1>0, <1>18 DEF Disconnect, DbType
  <2> QED BY <2>1 DEF Awaited
<1>19. ASSUME takeTurn PROVE Awaited'
  <2>1. ASSUME NEW h, CarryOut(h) PROVE (past.early => past'.early) /\ past'.cut = past.cut /\ (~past'.early => \A p \in Procs : ~Between(p))
    <3>1. past'.early <=> (past.early \/ \E p \in Procs : Between(p))
      BY <1>0, <2>1 DEF CarryOut, PastType
    <3>2. past'.cut = past.cut
      BY <1>0, <2>1 DEF CarryOut, PastType
    <3> QED BY <3>1, <3>2
  <2>2. ASSUME NEW h \in Held, CarryOut(h) PROVE \A p \in Procs : Between(p)' => Between(p)
    <3>1. run' = run \/ (run'[h.msg] = Replay(h) /\ Others(h.msg))
      BY <2>2, Carries
    <3>2. Replay(h).pc = "begin"
      BY DEF Replay
    <3> QED BY <3>1, <3>2 DEF Between, Others
  <2>3. (Fresh(db.held) => db.held \in Held) /\ (mem.held.msg # NoMsg => mem.held \in Held)
    BY HeldOnes
  <2>4. db'.connected = db.connected
    BY <1>0, <1>19 DEF takeTurn, TakePendingTurn, DbType
  <2>5. CASE conn.pc = "take"
    <3>1. db'.held = NothingHeld
      BY <1>0, <1>19, <2>5 DEF takeTurn, TakePendingTurn, DbType
    <3>2. CASE Fresh(db.held)
      <4>1. CarryOut(db.held) /\ db.held \in Held
        BY <1>19, <2>3, <2>5, <3>2 DEF takeTurn
      <4>2. ~past'.early => \A p \in Procs : ~Between(p)
        BY <2>1, <4>1
      <4>3. \A p \in Procs : Between(p)' => Between(p)
        BY <2>2, <4>1
      <4> QED BY <3>1, <4>2, <4>3 DEF Awaited
    <3>3. CASE ~Fresh(db.held)
      <4>1. past'.early <=> (past.early \/ \E p \in Procs : Between(p))
        BY <1>0, <1>19, <2>5, <3>3 DEF takeTurn, PastType
      <4>2. run' = run
        BY <1>19, <2>5, <3>3 DEF takeTurn
      <4> QED BY <3>1, <4>1, <4>2 DEF Awaited, Between
    <3> QED BY <3>2, <3>3
  <2>6. CASE conn.pc = "memory"
    <3>1. db' = db
      BY <1>19, <2>6 DEF takeTurn
    <3>2. CASE mem.held.msg # NoMsg
      <4>1. CarryOut(mem.held) /\ mem.held \in Held
        BY <1>19, <2>3, <2>6, <3>2 DEF takeTurn
      <4>2. (past.early => past'.early) /\ past'.cut = past.cut
        BY <2>1, <4>1
      <4>3. \A p \in Procs : Between(p)' => Between(p)
        BY <2>2, <4>1
      <4> QED BY <2>6, <3>1, <4>2, <4>3 DEF Awaited
    <3>3. CASE mem.held.msg = NoMsg
      <4>1. past' = past /\ run' = run
        BY <1>19, <2>6, <3>3 DEF takeTurn
      <4> QED BY <2>6, <3>1, <4>1 DEF Awaited, Between
    <3> QED BY <3>2, <3>3
  <2> QED BY <1>19, <2>5, <2>6 DEF takeTurn
<1>20. ASSUME NEW c \in Chats, NEW k \in TapKinds, Tap(c, k) PROVE Awaited'
  <2>1. past.early => past'.early
    BY <1>0, <1>20 DEF Tap, Failed, Fate, PastType
  <2>2. past.cut => past'.cut
    BY <1>0, <1>20 DEF Tap, Failed, Fate, PastType
  <2>3. db'.connected = db.connected /\ db'.held = db.held
    BY <1>0, <1>20 DEF Tap, DbType
  <2>4. conn' = conn
    BY <1>0, <1>20 DEF Tap
  <2>5. run' = run
    BY <1>20 DEF Tap
  <2> QED BY <2>1, <2>2, <2>3, <2>4, <2>5, AwaitedQuiet DEF Between
<1>21. ASSUME NEW c \in Chats, handleLinkAccountCallback(c) PROVE Awaited'
  <2>1. past.early => past'.early
    BY <1>0, <1>21 DEF handleLinkAccountCallback, Failed, Fate, PastType
  <2>2. past.cut => past'.cut
    BY <1>0, <1>21 DEF handleLinkAccountCallback, Failed, Fate, PastType
  <2>3. db'.connected = db.connected /\ db'.held = db.held
    BY <1>0, <1>21 DEF handleLinkAccountCallback, DbType
  <2>4. conn' = conn
    BY <1>0, <1>21 DEF handleLinkAccountCallback
  <2>5. run' = run
    BY <1>21 DEF handleLinkAccountCallback
  <2> QED BY <2>1, <2>2, <2>3, <2>4, <2>5, AwaitedQuiet DEF Between
<1>22. ASSUME NEW c \in Chats, handleInstructionsCallback(c) PROVE Awaited'
  <2>1. past.early => past'.early
    BY <1>0, <1>22 DEF handleInstructionsCallback, Failed, Fate, PastType
  <2>2. past.cut => past'.cut
    BY <1>0, <1>22 DEF handleInstructionsCallback, Failed, Fate, PastType
  <2>3. db'.connected = db.connected /\ db'.held = db.held
    BY <1>0, <1>22 DEF handleInstructionsCallback, DbType
  <2>4. conn' = conn
    BY <1>0, <1>22 DEF handleInstructionsCallback
  <2>5. run' = run
    BY <1>22 DEF handleInstructionsCallback
  <2> QED BY <2>1, <2>2, <2>3, <2>4, <2>5, AwaitedQuiet DEF Between
<1>23. ASSUME NEW c \in Chats, handleAppInstructionsCallback(c) PROVE Awaited'
  <2>1. past.early => past'.early
    BY <1>0, <1>23 DEF handleAppInstructionsCallback, Failed, Fate, PastType
  <2>2. past.cut => past'.cut
    BY <1>0, <1>23 DEF handleAppInstructionsCallback, Failed, Fate, PastType
  <2>3. db'.connected = db.connected /\ db'.held = db.held
    BY <1>0, <1>23 DEF handleAppInstructionsCallback, DbType
  <2>4. conn' = conn
    BY <1>0, <1>23 DEF handleAppInstructionsCallback
  <2>5. run' = run
    BY <1>23 DEF handleAppInstructionsCallback
  <2> QED BY <2>1, <2>2, <2>3, <2>4, <2>5, AwaitedQuiet DEF Between
<1>24. ASSUME NEW c \in Chats, handleInstructionsSubmission(c) PROVE Awaited'
  <2>1. past.early => past'.early
    BY <1>0, <1>24 DEF handleInstructionsSubmission, Failed, Fate, PastType
  <2>2. past.cut => past'.cut
    BY <1>0, <1>24 DEF handleInstructionsSubmission, Failed, Fate, PastType
  <2>3. db'.connected = db.connected /\ db'.held = db.held
    BY <1>0, <1>24 DEF handleInstructionsSubmission, DbType
  <2>4. conn' = conn
    BY <1>0, <1>24 DEF handleInstructionsSubmission
  <2>5. run' = run
    BY <1>24 DEF handleInstructionsSubmission
  <2> QED BY <2>1, <2>2, <2>3, <2>4, <2>5, AwaitedQuiet DEF Between
<1>25. ASSUME HalfAMinute PROVE Awaited'
  <2>1. past.early => past'.early
    BY <1>0, <1>25 DEF HalfAMinute, Failed, Fate, PastType
  <2>2. past.cut => past'.cut
    BY <1>0, <1>25 DEF HalfAMinute, Failed, Fate, PastType
  <2>3. db'.connected = db.connected /\ db'.held = db.held
    BY <1>0, <1>25 DEF HalfAMinute, DbType
  <2>4. conn' = conn
    BY <1>0, <1>25 DEF HalfAMinute
  <2>5. run' = run
    BY <1>25 DEF HalfAMinute
  <2> QED BY <2>1, <2>2, <2>3, <2>4, <2>5, AwaitedQuiet DEF Between
<1>26. ASSUME LongWait PROVE Awaited'
  <2>1. past'.early = past.early /\ past'.cut = past.cut
    BY <1>0, <1>26 DEF LongWait, PastType
  <2>2. db'.connected = db.connected /\ conn' = conn
    BY <1>0, <1>26 DEF LongWait, DbType
  <2>3. db'.held = IF db.held.msg = NoMsg THEN db.held ELSE [db.held EXCEPT !.old = TRUE]
    BY <1>0, <1>26 DEF LongWait, DbType
  <2>4. db.held = NothingHeld => db'.held = NothingHeld
    BY <2>3 DEF NothingHeld
  <2>5. \A p \in Procs : ~Between(p)'
    BY <1>26 DEF LongWait, Busy, Between
  <2> QED BY <2>1, <2>2, <2>4, <2>5 DEF Awaited
<1>27. ASSUME Restart PROVE Awaited'
  <2>1. past'.early = past.early /\ (past'.cut <=> (past.cut \/ conn # Idle))
    BY <1>0, <1>27 DEF Restart, PastType
  <2>2. db' = db
    BY <1>27 DEF Restart
  <2>3. \A p \in Procs : ~Between(p)'
    BY <1>27 DEF Restart, Idle, Between
  <2>4. conn = Idle => conn.pc # "take"
    BY DEF Idle
  <2> QED BY <2>1, <2>2, <2>3, <2>4 DEF Awaited
<1>28. CASE UNCHANGED vars
  BY <1>28 DEF vars, Awaited, Between
<1> QED
  BY <1>1, <1>2, <1>3, <1>4, <1>5, <1>6, <1>7, <1>8, <1>9, <1>10, <1>11, <1>12, <1>13, <1>14, <1>15, <1>16, <1>17, <1>18, <1>19, <1>20, <1>21, <1>22, <1>23, <1>24, <1>25, <1>26, <1>27, <1>28 DEF Next, HandleInbound, Turn

(***************************************************************************)
(* Replies to "send me your email" are taken.                              *)
(***************************************************************************)
LEMMA MailsSame ==
  ASSUME NEW d \in Chats, MailsOf(d), past'.asked[d] = past.asked[d], past'.rearmed[d] = past.rearmed[d],
         mem'.email[d] = mem.email[d], db'.email[d] = db.email[d], tap'[d] = tap[d],
         run'[d].pc \in {"who", "welcome", "greet", "look"} =>
           run[d].pc \in {"who", "welcome", "greet", "look"} /\ run'[d].due = run[d].due,
         run'[d].pc \in {"skipped", "initiate"} => run[d].pc \in {"skipped", "initiate"}
  PROVE  MailsOf(d)'
  BY DEF MailsOf, awaitingEmail

LEMMA MailsQuiet ==
  ASSUME Mails, past.crossed => past'.crossed, past'.missed = past.missed,
         past'.asked = past.asked, past'.rearmed = past.rearmed, mem'.email = mem.email, db'.email = db.email, tap' = tap,
         \A d \in Chats :
           /\ run'[d].pc \in {"who", "welcome", "greet", "look"} =>
                 run[d].pc \in {"who", "welcome", "greet", "look"} /\ run'[d].due = run[d].due
           /\ run'[d].pc \in {"skipped", "initiate"} => run[d].pc \in {"skipped", "initiate"}
  PROVE  Mails'
  BY MailsSame DEF Mails

\* A step of one chat leaves the others as they are.
LEMMA MailsStep ==
  ASSUME Mails, NEW c \in Chats, past.crossed => past'.crossed,
         ~past'.crossed /\ ~past.missed /\ MailsOf(c) => ~past'.missed /\ MailsOf(c)',
         \A d \in Chats \ {c} : /\ past'.asked[d] = past.asked[d] /\ past'.rearmed[d] = past.rearmed[d]
                               /\ mem'.email[d] = mem.email[d] /\ db'.email[d] = db.email[d] /\ tap'[d] = tap[d] /\ run'[d] = run[d]
  PROVE  Mails'
  BY MailsSame DEF Mails

LEMMA MailsKept == Types /\ Mails /\ [Next]_vars => Mails'
<1> SUFFICES ASSUME Types, Mails, [Next]_vars PROVE Mails'
  OBVIOUS
<1>0. db \in DbType /\ mem \in MemType /\ run \in RunType /\ past \in PastType /\ tap \in TapType
  BY DEF Types, TypedState
<1>1. ASSUME NEW c \in Chats, NEW k \in Kinds, Write(c, k) PROVE Mails'
  <2>1. past' = [past EXCEPT !.sent = @ + 1] /\ UNCHANGED <<db, mem, tap>>
    BY <1>1 DEF Write
  <2>2. past'.asked = past.asked /\ past'.rearmed = past.rearmed /\ past'.missed = past.missed /\ past'.crossed = past.crossed
    BY <1>0, <2>1 DEF PastType
  <2>3. run'[c].pc = "who" /\ run'[c].due = past.asked[c] /\ \A d \in Chats \ {c} : run'[d] = run[d]
    BY <1>0, <1>1 DEF Write, RunType, Procs
  <2>4. MailsOf(c) => MailsOf(c)'
    BY <2>1, <2>2, <2>3 DEF MailsOf, awaitingEmail
  <2> QED BY <2>1, <2>2, <2>3, <2>4, MailsStep
<1>2. ASSUME NEW c \in Chats, TurnAway(c) PROVE Mails'
  <2>1. past.crossed => past'.crossed
    BY <1>0, <1>2 DEF TurnAway, Failed, Fate, PastType
  <2>2. past'.missed = past.missed /\ past'.asked = past.asked /\ past'.rearmed = past.rearmed
    BY <1>0, <1>2 DEF TurnAway, Failed, Fate, PastType
  <2>3. mem'.email = mem.email
    BY <1>0, <1>2 DEF TurnAway, MemType
  <2>4. db'.email = db.email
    BY <1>0, <1>2 DEF TurnAway, DbType
  <2>5. tap' = tap
    BY <1>0, <1>2 DEF TurnAway, TapType
  <2>6. Stops(c, "who")
    BY <1>2, Moves
  <2> QED BY <2>1, <2>2, <2>3, <2>4, <2>5, <2>6, MailsQuiet DEF Steps, Stops, Others, Idle, Procs
<1>3. ASSUME NEW c \in Chats, FirstEars(c) PROVE Mails'
  <2>1. Stops(c, "who") \/ Steps(c, "who", "welcome")
    BY <1>3, Moves
  <2>2. past'.missed = past.missed /\ past'.crossed = past.crossed /\ past'.rearmed = past.rearmed
    BY <1>0, <1>3 DEF FirstEars, Fate, PastType
  <2>3. tap' = tap /\ \A d \in Chats \ {c} : run'[d] = run[d]
    BY <1>3, <2>1 DEF FirstEars, Stops, Steps, Others, Procs
  <2>4. CASE Kind(c) = "elsewhere"
    <3>1. /\ past'.asked[c] /\ \A d \in Chats \ {c} : past'.asked[d] = past.asked[d]
          /\ mem'.email[c] = "fresh" /\ \A d \in Chats \ {c} : mem'.email[d] = mem.email[d]
          /\ db'.email[c] = "awaiting" /\ \A d \in Chats \ {c} : db'.email[d] = db.email[d]
      <4>1. past' = [past EXCEPT !.fate[run[c].msg] = @ \cup {"elsewhere"}, !.asked[c] = TRUE]
        BY <1>3, <2>4 DEF FirstEars
      <4>2. mem' = [mem EXCEPT !.email[c] = "fresh"] /\ db' = [db EXCEPT !.linked[c] = TRUE, !.email[c] = "awaiting"]
        BY <1>3, <2>4 DEF FirstEars
      <4>3. past'.asked[c] /\ \A d \in Chats \ {c} : past'.asked[d] = past.asked[d]
        BY <1>0, <4>1 DEF PastType
      <4>4. mem'.email[c] = "fresh" /\ \A d \in Chats \ {c} : mem'.email[d] = mem.email[d]
        BY <1>0, <4>2 DEF MemType
      <4>5. db'.email[c] = "awaiting" /\ \A d \in Chats \ {c} : db'.email[d] = db.email[d]
        BY <1>0, <4>2 DEF DbType
      <4> QED BY <4>3, <4>4, <4>5
    <3>2. Done(c)
      BY <1>3, <2>4 DEF FirstEars
    <3>3. run'[c] = Idle
      BY <2>1, <3>2, Finishes DEF Stops, Steps
    <3>4. MailsOf(c)'
      BY <3>1, <3>3 DEF MailsOf, awaitingEmail, Idle
    <3> QED BY <2>2, <2>3, <3>1, <3>4, MailsStep
  <2>5. CASE Kind(c) # "elsewhere"
    <3>1. past'.asked = past.asked
      BY <1>0, <1>3, <2>5 DEF FirstEars, Fate, PastType
    <3>2. db'.email = db.email /\ mem' = mem
      BY <1>0, <1>3, <2>5 DEF FirstEars, DbType
    <3> QED BY <2>1, <2>2, <2>3, <3>1, <3>2, MailsQuiet DEF Stops, Steps, Idle
  <2> QED BY <2>4, <2>5
<1>4. ASSUME NEW c \in Chats, Welcome(c) PROVE Mails'
  <2>1. past.crossed => past'.crossed
    BY <1>0, <1>4 DEF Welcome, Failed, Fate, PastType
  <2>2. past'.missed = past.missed /\ past'.asked = past.asked /\ past'.rearmed = past.rearmed
    BY <1>0, <1>4 DEF Welcome, Failed, Fate, PastType
  <2>3. mem'.email = mem.email
    BY <1>0, <1>4 DEF Welcome, MemType
  <2>4. db'.email = db.email
    BY <1>0, <1>4 DEF Welcome, DbType
  <2>5. tap' = tap
    BY <1>0, <1>4 DEF Welcome, TapType
  <2>6. Stops(c, "welcome") \/ Steps(c, "welcome", "look") \/ Steps(c, "welcome", "greet")
    BY <1>4, Moves
  <2> QED BY <2>1, <2>2, <2>3, <2>4, <2>5, <2>6, MailsQuiet DEF Steps, Stops, Others, Idle, Procs
<1>5. ASSUME NEW c \in Chats, Greet(c) PROVE Mails'
  <2>1. past.crossed => past'.crossed
    BY <1>0, <1>5 DEF Greet, Failed, Fate, PastType
  <2>2. past'.missed = past.missed /\ past'.asked = past.asked /\ past'.rearmed = past.rearmed
    BY <1>0, <1>5 DEF Greet, Failed, Fate, PastType
  <2>3. mem'.email = mem.email
    BY <1>0, <1>5 DEF Greet, MemType
  <2>4. db'.email = db.email
    BY <1>0, <1>5 DEF Greet, DbType
  <2>5. tap' = tap
    BY <1>0, <1>5 DEF Greet, TapType
  <2>6. Stops(c, "greet") \/ Steps(c, "greet", "look")
    BY <1>5, Moves
  <2> QED BY <2>1, <2>2, <2>3, <2>4, <2>5, <2>6, MailsQuiet DEF Steps, Stops, Others, Idle, Procs
<1>6. ASSUME NEW c \in Chats, LookForEmail(c) PROVE Mails'
  <2>1. Steps(c, "look", "take") \/ Steps(c, "look", "active")
    BY <1>6, Moves
  <2>2. past'.crossed = past.crossed /\ past'.asked = past.asked /\ past'.rearmed = past.rearmed
    BY <1>0, <1>6 DEF LookForEmail, PastType
  <2>3. db' = db /\ tap' = tap /\ run[c].pc = "look"
    BY <1>6 DEF LookForEmail, At
  <2>4. \A d \in Chats \ {c} : run'[d] = run[d] /\ mem'.email[d] = mem.email[d]
    BY <1>0, <1>6, <2>1 DEF LookForEmail, MemType, Stops, Steps, Others, Procs
  <2>5. (mem'.email[c] = "fresh") <=> (mem.email[c] = "fresh")
    BY <1>0, <1>6 DEF LookForEmail, MemType
  <2>6. past'.missed => past.missed \/ (run[c].due /\ ~awaitingEmail(c))
    BY <1>0, <1>6 DEF LookForEmail, PastType
  <2>7. MailsOf(c) /\ ~past.missed => ~past'.missed /\ MailsOf(c)'
    BY <2>1, <2>2, <2>3, <2>5, <2>6 DEF MailsOf, awaitingEmail, Steps
  <2> QED BY <2>2, <2>3, <2>4, <2>7, MailsStep
<1>7. ASSUME NEW c \in Chats, handleEmailLinkReply(c) PROVE Mails'
  <2>1. Stops(c, "take") \/ Steps(c, "take", "skipped") \/ Steps(c, "take", "initiate")
    BY <1>7, Moves
  <2> DEFINE again == Kind(c) \notin {"skip", "email"}
  <2>2. /\ past'.missed = past.missed
        /\ past'.crossed <=> past.crossed \/ tap[c] \in {"link-db", "link-say"}
    BY <1>0, <1>7 DEF handleEmailLinkReply, PastType
  <2>3. (past'.asked[c] <=> again) /\ (past'.rearmed[c] <=> again)
    BY <1>0, <1>7 DEF handleEmailLinkReply, PastType
  <2>4. \A d \in Chats \ {c} : past'.asked[d] = past.asked[d] /\ past'.rearmed[d] = past.rearmed[d]
    BY <1>0, <1>7 DEF handleEmailLinkReply, PastType
  <2>5. db' = db /\ tap' = tap
    BY <1>7 DEF handleEmailLinkReply
  <2>6. \A d \in Chats \ {c} : run'[d] = run[d] /\ mem'.email[d] = mem.email[d]
    BY <1>0, <1>7, <2>1 DEF handleEmailLinkReply, MemType, Stops, Steps, Others, Procs
  <2>7. again => Done(c) /\ mem'.email[c] = "fresh"
    BY <1>0, <1>7 DEF handleEmailLinkReply, MemType
  <2>8. again => run'[c] = Idle
    BY <2>1, <2>7, Finishes DEF Stops, Steps
  <2>9. ~past'.crossed => MailsOf(c)'
    BY <2>1, <2>2, <2>3, <2>5, <2>7, <2>8 DEF MailsOf, awaitingEmail, Idle, Stops, Steps
  <2> QED BY <2>2, <2>4, <2>5, <2>6, <2>9, MailsStep
<1>8. ASSUME NEW c \in Chats, SettleEmail(c) PROVE Mails'
  <2>1. Stops(c, "skipped") \/ Stops(c, "initiate")
    BY <1>8, Moves
  <2>2. past'.missed = past.missed /\ past'.crossed = past.crossed /\ past'.rearmed = past.rearmed
    BY <1>0, <1>8 DEF SettleEmail, PastType
  <2>3. mem' = mem /\ tap' = tap
    BY <1>8 DEF SettleEmail
  <2>4. \A d \in Chats \ {c} : run'[d] = run[d] /\ db'.email[d] = db.email[d]
    <3>1. \A d \in Chats \ {c} : run'[d] = run[d]
      BY <2>1 DEF Stops, Steps, Others, Procs
    <3>2. \/ db' = db
          \/ db' = [db EXCEPT !.email[c] = "skipped"]
          \/ db' = [db EXCEPT !.email[c] = "sent"]
      BY <1>8 DEF SettleEmail
    <3>3. \A d \in Chats \ {c} : db'.email[d] = db.email[d]
      BY <1>0, <3>2, OtherEmails
    <3> QED BY <3>1, <3>3
  <2>5. past'.asked = past.asked \/ (db' = db /\ past'.asked = [past.asked EXCEPT ![c] = (db.email[c] = "awaiting")])
    <3>1. \/ past' = past
          \/ db' = db /\ past' = [past EXCEPT !.events = @ + 1, !.faults = TRUE, !.asked[c] = db.email[c] = "awaiting"]
      BY <1>8 DEF SettleEmail
    <3>2. CASE past' = past
      BY <3>2
    <3>3. CASE db' = db /\ past' = [past EXCEPT !.events = @ + 1, !.faults = TRUE, !.asked[c] = db.email[c] = "awaiting"]
      BY <1>0, <3>3 DEF PastType
    <3> QED BY <3>1, <3>2, <3>3
  <2>6. past.asked \in [Chats -> BOOLEAN]
    BY <1>0 DEF PastType
  <2>9. \A d \in Chats \ {c} : past'.asked[d] = past.asked[d]
    BY <2>5, <2>6
  <2>10. \/ past'.asked[c] = past.asked[c]
         \/ db' = db /\ (past'.asked[c] => db.email[c] = "awaiting")
    BY <2>5, <2>6
  <2>7. run'[c] = Idle /\ run[c].pc \in {"skipped", "initiate"}
    BY <2>1 DEF Stops
  <2>8. MailsOf(c) => MailsOf(c)'
    BY <2>2, <2>3, <2>7, <2>10 DEF MailsOf, awaitingEmail, Idle
  <2> QED BY <2>2, <2>3, <2>4, <2>9, <2>8, MailsStep
<1>9. ASSUME NEW c \in Chats, SetupCheck(c) PROVE Mails'
  <2>1. past.crossed => past'.crossed
    BY <1>0, <1>9 DEF SetupCheck, Failed, Fate, PastType
  <2>2. past'.missed = past.missed /\ past'.asked = past.asked /\ past'.rearmed = past.rearmed
    BY <1>0, <1>9 DEF SetupCheck, Failed, Fate, PastType
  <2>3. mem'.email = mem.email
    BY <1>0, <1>9 DEF SetupCheck, MemType
  <2>4. db'.email = db.email
    BY <1>0, <1>9 DEF SetupCheck, DbType
  <2>5. tap' = tap
    BY <1>0, <1>9 DEF SetupCheck, TapType
  <2>6. Stops(c, "active") \/ Steps(c, "active", "hold") \/ Steps(c, "active", "reply")
    BY <1>9, Moves
  <2> QED BY <2>1, <2>2, <2>3, <2>4, <2>5, <2>6, MailsQuiet DEF Steps, Stops, Others, Idle, Procs
<1>10. ASSUME NEW c \in Chats, HoldAtSetup(c) PROVE Mails'
  <2>1. past.crossed => past'.crossed
    BY <1>0, <1>10 DEF HoldAtSetup, holdTurn, Failed, Fate, PastType
  <2>2. past'.missed = past.missed /\ past'.asked = past.asked /\ past'.rearmed = past.rearmed
    BY <1>0, <1>10 DEF HoldAtSetup, holdTurn, Failed, Fate, PastType
  <2>3. mem'.email = mem.email
    BY <1>0, <1>10 DEF HoldAtSetup, holdTurn, MemType
  <2>4. db'.email = db.email
    BY <1>0, <1>10 DEF HoldAtSetup, holdTurn, DbType
  <2>5. tap' = tap
    BY <1>0, <1>10 DEF HoldAtSetup, holdTurn, TapType
  <2>6. Stops(c, "hold")
    BY <1>10, Moves
  <2> QED BY <2>1, <2>2, <2>3, <2>4, <2>5, <2>6, MailsQuiet DEF Steps, Stops, Others, Idle, Procs
<1>11. ASSUME NEW c \in Chats, TakeInstructions(c) PROVE Mails'
  <2>1. past.crossed => past'.crossed
    BY <1>0, <1>11 DEF TakeInstructions, Begin, Failed, Fate, PastType
  <2>2. past'.missed = past.missed /\ past'.asked = past.asked /\ past'.rearmed = past.rearmed
    BY <1>0, <1>11 DEF TakeInstructions, Begin, Failed, Fate, PastType
  <2>3. mem'.email = mem.email
    BY <1>0, <1>11 DEF TakeInstructions, Begin, MemType
  <2>4. db'.email = db.email
    BY <1>0, <1>11 DEF TakeInstructions, Begin, DbType
  <2>5. tap' = tap
    BY <1>0, <1>11 DEF TakeInstructions, Begin, TapType
  <2>6. Stops(c, "reply") \/ Steps(c, "reply", "turn")
    BY <1>11, Moves
  <2> QED BY <2>1, <2>2, <2>3, <2>4, <2>5, <2>6, MailsQuiet DEF Steps, Stops, Others, Idle, Procs
<1>12. ASSUME NEW p \in Procs, HandleTurn(p) PROVE Mails'
  <2>1. past.crossed => past'.crossed
    BY <1>0, <1>12 DEF HandleTurn, Begin, Failed, Fate, PastType
  <2>2. past'.missed = past.missed /\ past'.asked = past.asked /\ past'.rearmed = past.rearmed
    BY <1>0, <1>12 DEF HandleTurn, Begin, Failed, Fate, PastType
  <2>3. mem'.email = mem.email
    BY <1>0, <1>12 DEF HandleTurn, Begin, MemType
  <2>4. db'.email = db.email
    BY <1>0, <1>12 DEF HandleTurn, Begin, DbType
  <2>5. tap' = tap
    BY <1>0, <1>12 DEF HandleTurn, Begin, TapType
  <2>6. Steps(p, "begin", "turn")
    BY <1>12, Moves
  <2> QED BY <2>1, <2>2, <2>3, <2>4, <2>5, <2>6, MailsQuiet DEF Steps, Stops, Others, Idle, Procs
<1>13. ASSUME NEW p \in Procs, EndTurn(p) PROVE Mails'
  <2>1. past.crossed => past'.crossed
    BY <1>0, <1>13 DEF EndTurn, Failed, Fate, PastType
  <2>2. past'.missed = past.missed /\ past'.asked = past.asked /\ past'.rearmed = past.rearmed
    BY <1>0, <1>13 DEF EndTurn, Failed, Fate, PastType
  <2>3. mem'.email = mem.email
    BY <1>0, <1>13 DEF EndTurn, MemType
  <2>4. db'.email = db.email
    BY <1>0, <1>13 DEF EndTurn, DbType
  <2>5. tap' = tap
    BY <1>0, <1>13 DEF EndTurn, TapType
  <2>6. Stops(p, "turn")
    BY <1>13, Moves
  <2> QED BY <2>1, <2>2, <2>3, <2>4, <2>5, <2>6, MailsQuiet DEF Steps, Stops, Others, Idle, Procs
<1>14. ASSUME NEW p \in Procs, withAuthGate(p) PROVE Mails'
  <2>1. past.crossed => past'.crossed
    BY <1>0, <1>14 DEF withAuthGate, Failed, Fate, PastType
  <2>2. past'.missed = past.missed /\ past'.asked = past.asked /\ past'.rearmed = past.rearmed
    BY <1>0, <1>14 DEF withAuthGate, Failed, Fate, PastType
  <2>3. mem'.email = mem.email
    BY <1>0, <1>14 DEF withAuthGate, MemType
  <2>4. db'.email = db.email
    BY <1>0, <1>14 DEF withAuthGate, DbType
  <2>5. tap' = tap
    BY <1>0, <1>14 DEF withAuthGate, TapType
  <2>6. Steps(p, "turn", "turn") \/ Steps(p, "turn", "gate")
    BY <1>14, Moves
  <2> QED BY <2>1, <2>2, <2>3, <2>4, <2>5, <2>6, MailsQuiet DEF Steps, Stops, Others, Idle, Procs
<1>15. ASSUME NEW p \in Procs, shouldSendConnectPrompt(p) PROVE Mails'
  <2>1. past.crossed => past'.crossed
    BY <1>0, <1>15 DEF shouldSendConnectPrompt, Failed, Fate, PastType
  <2>2. past'.missed = past.missed /\ past'.asked = past.asked /\ past'.rearmed = past.rearmed
    BY <1>0, <1>15 DEF shouldSendConnectPrompt, Failed, Fate, PastType
  <2>3. mem'.email = mem.email
    BY <1>0, <1>15 DEF shouldSendConnectPrompt, MemType
  <2>4. db'.email = db.email
    BY <1>0, <1>15 DEF shouldSendConnectPrompt, DbType
  <2>5. tap' = tap
    BY <1>0, <1>15 DEF shouldSendConnectPrompt, TapType
  <2>6. Steps(p, "gate", "keep")
    BY <1>15, Moves
  <2> QED BY <2>1, <2>2, <2>3, <2>4, <2>5, <2>6, MailsQuiet DEF Steps, Stops, Others, Idle, Procs
<1>16. ASSUME NEW p \in Procs, storePending(p) PROVE Mails'
  <2>1. past.crossed => past'.crossed
    BY <1>0, <1>16 DEF storePending, holdTurn, Failed, Fate, PastType
  <2>2. past'.missed = past.missed /\ past'.asked = past.asked /\ past'.rearmed = past.rearmed
    BY <1>0, <1>16 DEF storePending, holdTurn, Failed, Fate, PastType
  <2>3. mem'.email = mem.email
    BY <1>0, <1>16 DEF storePending, holdTurn, MemType
  <2>4. db'.email = db.email
    BY <1>0, <1>16 DEF storePending, holdTurn, DbType
  <2>5. tap' = tap
    BY <1>0, <1>16 DEF storePending, holdTurn, TapType
  <2>6. Steps(p, "keep", "turn")
    BY <1>16, Moves
  <2> QED BY <2>1, <2>2, <2>3, <2>4, <2>5, <2>6, MailsQuiet DEF Steps, Stops, Others, Idle, Procs
<1>17. ASSUME SignIn PROVE Mails'
  <2>1. past.crossed => past'.crossed
    BY <1>0, <1>17 DEF SignIn, Failed, Fate, PastType
  <2>2. past'.missed = past.missed /\ past'.asked = past.asked /\ past'.rearmed = past.rearmed
    BY <1>0, <1>17 DEF SignIn, Failed, Fate, PastType
  <2>3. mem'.email = mem.email
    BY <1>0, <1>17 DEF SignIn, MemType
  <2>4. db'.email = db.email
    BY <1>0, <1>17 DEF SignIn, DbType
  <2>5. tap' = tap
    BY <1>0, <1>17 DEF SignIn, TapType
  <2>6. run' = run
    BY <1>17 DEF SignIn
  <2> QED BY <2>1, <2>2, <2>3, <2>4, <2>5, <2>6, MailsQuiet
<1>18. ASSUME Disconnect PROVE Mails'
  <2>1. past.crossed => past'.crossed
    BY <1>0, <1>18 DEF Disconnect, Failed, Fate, PastType
  <2>2. past'.missed = past.missed /\ past'.asked = past.asked /\ past'.rearmed = past.rearmed
    BY <1>0, <1>18 DEF Disconnect, Failed, Fate, PastType
  <2>3. mem'.email = mem.email
    BY <1>0, <1>18 DEF Disconnect, MemType
  <2>4. db'.email = db.email
    BY <1>0, <1>18 DEF Disconnect, DbType
  <2>5. tap' = tap
    BY <1>0, <1>18 DEF Disconnect, TapType
  <2>6. run' = run
    BY <1>18 DEF Disconnect
  <2> QED BY <2>1, <2>2, <2>3, <2>4, <2>5, <2>6, MailsQuiet
<1>19. ASSUME takeTurn PROVE Mails'
  <2>1. db'.email = db.email
    BY <1>0, <1>19 DEF takeTurn, TakePendingTurn, DbType
  <2>2. mem'.email = mem.email /\ tap' = tap
    BY <1>0, <1>19 DEF takeTurn, MemType
  <2>3. \A h : CarryOut(h) => past'.missed = past.missed /\ past'.crossed = past.crossed
    BY <1>0 DEF CarryOut, PastType
  <2>4. \A h : CarryOut(h) => past'.asked = past.asked /\ past'.rearmed = past.rearmed
    BY <1>0 DEF CarryOut, PastType
  <2>5. past'.missed = past.missed /\ past'.crossed = past.crossed /\ past'.asked = past.asked /\ past'.rearmed = past.rearmed
    BY <1>0, <1>19, <2>3, <2>4 DEF takeTurn, PastType
  <2>6. ASSUME NEW h \in Held, CarryOut(h) PROVE \A c \in Chats : run'[c] = run[c]
    <3>1. run' = run \/ Others(h.msg)
      BY <2>6, Carries
    <3>2. h.msg \notin Chats
      BY InboundConstants DEF Held
    <3> QED BY <3>1, <3>2 DEF Others, Procs
  <2>7. (Fresh(db.held) => db.held \in Held) /\ (mem.held.msg # NoMsg => mem.held \in Held)
    BY HeldOnes
  <2>8. run' = run \/ \A c \in Chats : run'[c] = run[c]
    BY <1>19, <2>6, <2>7 DEF takeTurn
  <2> QED BY <2>1, <2>2, <2>5, <2>8, MailsQuiet
<1>20. ASSUME NEW c \in Chats, NEW k \in TapKinds, Tap(c, k) PROVE Mails'
  <2>1. past' = [past EXCEPT !.events = @ + 1] /\ UNCHANGED <<db, mem, run>>
    BY <1>20 DEF Tap
  <2>2. past'.asked = past.asked /\ past'.rearmed = past.rearmed /\ past'.missed = past.missed /\ past'.crossed = past.crossed
    BY <1>0, <2>1 DEF PastType
  <2>3. tap'[c] = k /\ k \notin {"link-db", "link-say"} /\ \A d \in Chats \ {c} : tap'[d] = tap[d]
    BY <1>0, <1>20, InboundConstants DEF Tap, TapType
  <2>4. MailsOf(c) => MailsOf(c)'
    BY <2>1, <2>2, <2>3 DEF MailsOf, awaitingEmail
  <2> QED BY <2>1, <2>2, <2>3, <2>4, MailsStep
<1>21. ASSUME NEW c \in Chats, handleLinkAccountCallback(c) PROVE Mails'
  <2>1. /\ past'.missed = past.missed
        /\ past'.crossed <=> past.crossed \/ InEmail(c)
    BY <1>0, <1>21 DEF handleLinkAccountCallback, PastType
  <2>2. (past'.asked[c] <=> past.asked[c] \/ tap[c] = "link-say") /\ (past'.rearmed[c] <=> past.rearmed[c] /\ tap[c] # "link-db")
    BY <1>0, <1>21 DEF handleLinkAccountCallback, PastType
  <2>3. \A d \in Chats \ {c} : past'.asked[d] = past.asked[d] /\ past'.rearmed[d] = past.rearmed[d]
    BY <1>0, <1>21 DEF handleLinkAccountCallback, PastType
  <2>4. run' = run
    BY <1>21 DEF handleLinkAccountCallback
  <2>5. \A d \in Chats \ {c} : db'.email[d] = db.email[d] /\ mem'.email[d] = mem.email[d] /\ tap'[d] = tap[d]
    <3>1. \A d \in Chats \ {c} : db'.email[d] = db.email[d]
      <4>1. db' = db \/ db' = [db EXCEPT !.email[c] = "awaiting"]
        BY <1>21 DEF handleLinkAccountCallback
      <4> QED BY <1>0, <4>1, OtherEmails
    <3>2. \A d \in Chats \ {c} : mem'.email[d] = mem.email[d]
      BY <1>0, <1>21 DEF handleLinkAccountCallback, MemType
    <3>3. \A d \in Chats \ {c} : tap'[d] = tap[d]
      BY <1>0, <1>21 DEF handleLinkAccountCallback, TapType
    <3> QED BY <3>1, <3>2, <3>3
  <2>6. CASE tap[c] = "link"
    <3>1. mem'.email[c] = "fresh" /\ db' = db /\ tap'[c] = "link-db"
      BY <1>0, <1>21, <2>6 DEF handleLinkAccountCallback, MemType, TapType
    <3>2. ~past'.crossed /\ MailsOf(c) => MailsOf(c)'
      BY <2>1, <2>2, <2>4, <2>6, <3>1 DEF MailsOf, awaitingEmail, InEmail
    <3> QED BY <2>1, <2>3, <2>4, <2>5, <3>2, MailsStep
  <2>7. CASE tap[c] = "link-db"
    <3>1. db'.email[c] = "awaiting" /\ mem' = mem /\ tap'[c] = "link-say"
      <4>1. db' = [db EXCEPT !.email[c] = "awaiting"] /\ mem' = mem /\ tap' = [tap EXCEPT ![c] = "link-say"]
        BY <1>21, <2>7 DEF handleLinkAccountCallback
      <4>2. db'.email[c] = "awaiting"
        BY <1>0, <4>1 DEF DbType
      <4>3. tap'[c] = "link-say"
        BY <1>0, <4>1 DEF TapType
      <4> QED BY <4>1, <4>2, <4>3
    <3>2. ~past'.crossed /\ MailsOf(c) => MailsOf(c)'
      BY <2>1, <2>2, <2>4, <2>7, <3>1 DEF MailsOf, awaitingEmail, InEmail
    <3> QED BY <2>1, <2>3, <2>4, <2>5, <3>2, MailsStep
  <2>8. CASE tap[c] = "link-say"
    <3>1. db' = db /\ mem' = mem /\ tap'[c] = "idle"
      BY <1>0, <1>21, <2>8 DEF handleLinkAccountCallback, TapType
    <3>2. ~past'.crossed /\ MailsOf(c) => MailsOf(c)'
      BY <2>1, <2>2, <2>4, <2>8, <3>1 DEF MailsOf, awaitingEmail, InEmail
    <3> QED BY <2>1, <2>3, <2>4, <2>5, <3>2, MailsStep
  <2> QED BY <1>21, <2>6, <2>7, <2>8 DEF handleLinkAccountCallback
<1>22. ASSUME NEW c \in Chats, handleInstructionsCallback(c) PROVE Mails'
  <2>1. past'.missed = past.missed /\ past'.crossed = past.crossed /\ past'.asked = past.asked /\ past'.rearmed = past.rearmed
    BY <1>0, <1>22 DEF handleInstructionsCallback, Failed, PastType
  <2>2. mem'.email = mem.email
    BY <1>0, <1>22 DEF handleInstructionsCallback, MemType
  <2>3. db'.email = db.email /\ run' = run
    BY <1>0, <1>22 DEF handleInstructionsCallback, DbType
  <2>4. tap'[c] \notin {"link-db", "link-say"} /\ \A d \in Chats \ {c} : tap'[d] = tap[d]
    BY <1>0, <1>22 DEF handleInstructionsCallback, TapType
  <2>5. MailsOf(c) => MailsOf(c)'
    BY <2>1, <2>2, <2>3, <2>4 DEF MailsOf, awaitingEmail
  <2> QED BY <2>1, <2>2, <2>3, <2>4, <2>5, MailsStep
<1>23. ASSUME NEW c \in Chats, handleAppInstructionsCallback(c) PROVE Mails'
  <2>1. past'.missed = past.missed /\ past'.crossed = past.crossed /\ past'.asked = past.asked /\ past'.rearmed = past.rearmed
    BY <1>0, <1>23 DEF handleAppInstructionsCallback, Failed, PastType
  <2>2. mem'.email = mem.email
    BY <1>0, <1>23 DEF handleAppInstructionsCallback, MemType
  <2>3. db'.email = db.email /\ run' = run
    BY <1>0, <1>23 DEF handleAppInstructionsCallback, DbType
  <2>4. tap'[c] \notin {"link-db", "link-say"} /\ \A d \in Chats \ {c} : tap'[d] = tap[d]
    BY <1>0, <1>23 DEF handleAppInstructionsCallback, TapType
  <2>5. MailsOf(c) => MailsOf(c)'
    BY <2>1, <2>2, <2>3, <2>4 DEF MailsOf, awaitingEmail
  <2> QED BY <2>1, <2>2, <2>3, <2>4, <2>5, MailsStep
<1>24. ASSUME NEW c \in Chats, handleInstructionsSubmission(c) PROVE Mails'
  <2>1. past'.missed = past.missed /\ past'.crossed = past.crossed /\ past'.asked = past.asked /\ past'.rearmed = past.rearmed
    BY <1>0, <1>24 DEF handleInstructionsSubmission, Failed, PastType
  <2>2. mem'.email = mem.email
    BY <1>0, <1>24 DEF handleInstructionsSubmission, MemType
  <2>3. db'.email = db.email /\ run' = run
    BY <1>0, <1>24 DEF handleInstructionsSubmission, DbType
  <2>4. tap'[c] \notin {"link-db", "link-say"} /\ \A d \in Chats \ {c} : tap'[d] = tap[d]
    BY <1>0, <1>24 DEF handleInstructionsSubmission, TapType
  <2>5. MailsOf(c) => MailsOf(c)'
    BY <2>1, <2>2, <2>3, <2>4 DEF MailsOf, awaitingEmail
  <2> QED BY <2>1, <2>2, <2>3, <2>4, <2>5, MailsStep
<1>25. ASSUME HalfAMinute PROVE Mails'
  <2>1. past.crossed => past'.crossed
    BY <1>0, <1>25 DEF HalfAMinute, Failed, Fate, PastType
  <2>2. past'.missed = past.missed /\ past'.asked = past.asked /\ past'.rearmed = past.rearmed
    BY <1>0, <1>25 DEF HalfAMinute, Failed, Fate, PastType
  <2>3. mem'.email = mem.email
    BY <1>0, <1>25 DEF HalfAMinute, MemType
  <2>4. db'.email = db.email
    BY <1>0, <1>25 DEF HalfAMinute, DbType
  <2>5. tap' = tap
    BY <1>0, <1>25 DEF HalfAMinute, TapType
  <2>6. run' = run
    BY <1>25 DEF HalfAMinute
  <2> QED BY <2>1, <2>2, <2>3, <2>4, <2>5, <2>6, MailsQuiet
<1>26. ASSUME LongWait PROVE Mails'
  <2>1. past'.missed = past.missed /\ past'.crossed = past.crossed /\ \A c \in Chats : ~past'.asked[c]
    BY <1>0, <1>26 DEF LongWait, PastType
  <2>2. \A c \in Chats : run'[c].pc = "idle" /\ tap'[c] = "idle"
    BY <1>26 DEF LongWait, Busy, Procs
  <2> QED BY <2>1, <2>2 DEF Mails, MailsOf
<1>27. ASSUME Restart PROVE Mails'
  <2>1. past'.missed = past.missed /\ past'.crossed = past.crossed /\ db' = db
    BY <1>0, <1>27 DEF Restart, PastType
  <2>2. \A c \in Chats : past'.asked[c] => past.asked[c] /\ ~past.rearmed[c]
    BY <1>0, <1>27 DEF Restart, PastType
  <2>3. \A c \in Chats : run'[c].pc = "idle" /\ tap'[c] = "idle"
    BY <1>27 DEF Restart, Idle, Procs
  <2> QED BY <2>1, <2>2, <2>3 DEF Mails, MailsOf, awaitingEmail
<1>28. CASE UNCHANGED vars
  BY <1>28 DEF vars, Mails, MailsOf, awaitingEmail
<1> QED
  BY <1>1, <1>2, <1>3, <1>4, <1>5, <1>6, <1>7, <1>8, <1>9, <1>10, <1>11, <1>12, <1>13, <1>14, <1>15, <1>16, <1>17, <1>18, <1>19, <1>20, <1>21, <1>22, <1>23, <1>24, <1>25, <1>26, <1>27, <1>28 DEF Next, HandleInbound, Turn

(***************************************************************************)
(* The theorem.                                                            *)
(***************************************************************************)
LEMMA InitInvariant == Init => IInv
<1> SUFFICES ASSUME Init PROVE IInv
  OBVIOUS
<1>1. db \in DbType /\ db.held = NothingHeld
  <2>1. PICK linked, required, connected \in BOOLEAN :
          db = [linked |-> [c \in Chats |-> linked], onboarded |-> [c \in Chats |-> linked], noticed |-> FALSE,
                email |-> [c \in Chats |-> ""], instructions |-> NoMsg, app |-> NoMsg,
                required |-> required, connected |-> connected, held |-> NothingHeld]
    BY DEF Init
  <2>2. NoMsg \in Msgs
    BY DEF Msgs
  <2>3. db \in DbType
    BY <2>1, <2>2 DEF DbType
  <2> QED BY <2>1, <2>3
<1>2. mem \in MemType /\ mem.held = NothingHeld
  BY DEF Init, Fresh0, MemType
<1>3. run \in RunType /\ \A p \in Procs : run[p] = Idle
  BY DEF Init, RunType
<1>4. tap \in TapType /\ conn = Idle
  BY DEF Init, TapType
<1>5. past \in PastType
  <2>1. MaxMessages \in Nat /\ 0 \in 0 .. MaxMessages
    BY InboundConstants
  <2> QED BY <2>1 DEF Init, PastType
<1>6. Types
  BY <1>1, <1>2, <1>3, <1>4, <1>5 DEF Types, TypedState, Places, Busy, Idle, Procs
<1>7. Takers
  BY <1>1, <1>2, <1>3 DEF Init, Takers, Untaken, Turning, Idle, Procs
<1>8. Welcomed
  <2>1. \A c \in Chats : past.greeted[c] = 0
    BY DEF Init
  <2>2. \A c \in Chats : ~At(c, "greet")
    BY <1>3 DEF At, Idle, Procs
  <2> QED BY <2>1, <2>2 DEF Welcomed
<1>9. Prompted /\ MemoryOnly
  BY <1>2 DEF Init, Prompted, MemoryOnly
<1>10. Mails
  BY <1>3 DEF Init, Mails, MailsOf, Idle, Procs
<1>11. Awaited
  BY <1>1, <1>3 DEF Awaited, Between, Idle
<1>12. Counted
  <2>1. \A i \in Ids : NothingHeld.msg # i
    BY InboundConstants DEF NothingHeld
  <2>2. \A i \in Ids : past.replays[i] = 0 /\ past.holds[i] = 0
    BY DEF Init
  <2> QED BY <1>1, <1>2, <2>1, <2>2 DEF Counted, One
<1> QED BY <1>6, <1>7, <1>8, <1>9, <1>10, <1>11, <1>12 DEF IInv

LEMMA Invariance == Spec => []IInv
<1>1. IInv /\ [Next]_vars => IInv'
  <2> SUFFICES ASSUME IInv, [Next]_vars PROVE IInv'
    OBVIOUS
  <2>1. Types'
    BY TypesKept, PlacesKept DEF IInv, Types
  <2> QED BY <2>1, TakersKept, WelcomedKept, PromptedKept, MailsKept, AwaitedKept, CountedKept, MemoryOnlyKept DEF IInv
<1> QED BY <1>1, InitInvariant, PTL DEF Spec

\* One taker for each message, one welcome for each chat and one prompt at a time (handleInboundSafely, withAuthGate).
THEOREM InboundHolds == Spec => []InboundInv
<1>1. IInv => InboundInv
  <2> SUFFICES ASSUME IInv PROVE InboundInv
    OBVIOUS
  <2>1. Types
    BY DEF IInv
  <2>2. TypeOK
    <3>1. {db.noticed, db.required, db.connected, mem.cooling} \subseteq BOOLEAN
      BY <2>1 DEF Types, TypedState, DbType, MemType
    <3>2. {db.held.msg, mem.held.msg} \subseteq Msgs
      <4>1. {db.held, mem.held} \subseteq Held \cup {NothingHeld}
        BY <2>1 DEF Types, TypedState, DbType, MemType
      <4> QED BY <4>1 DEF Held, NothingHeld, Msgs
    <3>3. {db.instructions, db.app} \subseteq Msgs
      BY <2>1 DEF Types, TypedState, DbType
    <3>4. \A c \in Chats : db.email[c] \in {"", "awaiting", "lapsed", "skipped", "sent"} /\ mem.email[c] \in {"no", "fresh", "old"}
      BY <2>1 DEF Types, TypedState, DbType, MemType
    <3>5. \A c \in Chats : Busy(c) => run[c].chat = c /\ run[c].msg \in 1 .. past.sent
      <4>1. past.sent \in Nat
        BY <2>1, Numbers
      <4>2. \A c \in Chats : Busy(c) => run[c].msg \in Ids
        BY <2>1, Busies DEF Busy, Handling, Procs
      <4> QED BY <2>1, <4>1, <4>2 DEF Types, Places, Ids
    <3>6. \A i \in Ids : Busy(i) => run[i].msg = i
      BY <2>1 DEF Types, Places
    <3> QED BY <3>1, <3>2, <3>3, <3>4, <3>5, <3>6 DEF TypeOK
  <2>3. OneTaker
    <3> SUFFICES ASSUME NEW i \in Ids PROVE Cardinality(past.fate[i]) <= 1
      BY DEF OneTaker
    <3>1. CASE past.fate[i] = {}
      BY <3>1, FS_EmptySet
    <3>2. CASE past.fate[i] # {}
      <4>1. PICK x \in past.fate[i] : TRUE
        BY <3>2
      <4>2. \A y \in past.fate[i] : x = y
        BY <4>1 DEF IInv, Takers
      <4>3. past.fate[i] = {x}
        BY <4>1, <4>2
      <4> QED BY <4>3, FS_Singleton
    <3> QED BY <3>1, <3>2
  <2>4. WelcomedOnce /\ OnePrompt
    BY DEF IInv, Welcomed, WelcomedOnce, Prompted, OnePrompt
  <2> QED BY <2>2, <2>3, <2>4 DEF InboundInv
<1> QED BY <1>1, Invariance, PTL

\* What is written after the chat was asked for an address is taken as the reply (awaitingEmail).
THEOREM EmailTaken == Spec => []EmailRepliesTaken
<1>1. IInv => EmailRepliesTaken
  BY DEF IInv, Mails, EmailRepliesTaken
<1> QED BY <1>1, Invariance, PTL

\* What is held for a sign-in is carried out, once, while it is fresh (holdTurn, OnIntegrationConnected).
THEOREM HeldTurnsReplayed == Spec => []HeldAndReplayed
<1>1. IInv => HeldAndReplayed
  <2> SUFFICES ASSUME IInv PROVE HeldAndReplayed
    OBVIOUS
  <2>1. db.connected /\ conn = Idle /\ ~past.early /\ ~past.cut => db.held = NothingHeld
    BY DEF IInv, Awaited, Idle
  <2>2. ASSUME NEW i \in Ids PROVE past.replays[i] <= past.holds[i]
    <3>1. past.replays[i] \in Nat /\ past.holds[i] \in Nat
      BY DEF IInv, Types, TypedState, PastType
    <3> QED BY <3>1 DEF IInv, Counted, One
  <2>3. FreshWhenStored
    BY DEF IInv, MemoryOnly, FreshWhenStored
  <2> QED BY <2>1, <2>2, <2>3 DEF HeldAndReplayed, HeldIsCarriedOut
<1> QED BY <1>1, Invariance, PTL
=============================================================================

---------------------------- MODULE IncomingProofs ----------------------------
(***************************************************************************)
(* Proofs about the parts of MCIncoming, for any value of their constants.  *)
(*                                                                         *)
(* Questions: what waits for a token is an open question whose answer is    *)
(* not on its way, so a token that was taken out answers one question once; *)
(* and a token stands for one question for as long as the server runs.      *)
(*                                                                         *)
(* Peer: what is on its way to a Dispatch was given by its own task's       *)
(* handler, and a connection that serves is the one its name leads to.      *)
(*                                                                         *)
(* Listen: an account has one listener, or one to come, and as long as it   *)
(* is not cancelled the account is wanted and its cancel func is kept.      *)
(*                                                                         *)
(* Line: wherever a message is, those before it are ahead of it; and where  *)
(* nothing fails, the last message or its answer is always in one of the    *)
(* places an edit looks for it.                                            *)
(***************************************************************************)
EXTENDS MCIncoming, FiniteSetTheorems, TLAPS

(***************************************************************************)
(* Questions: the inductive invariant.                                     *)
(***************************************************************************)
Qs == Questions!Questions
Toks == Questions!Tokens
Said == Answers \cup {Questions!Words}
Asked == Questions!Asked
QuestionType == [step : {"idle", "registered", "shown", "posted", "late", "ended"}, chat : Chats \cup {0},
                 token : Toks \cup {0}, chan : SUBSET Said, result : SUBSET Said]
SendType == [to : Qs, what : Said, from : Qs \cup {0}]

PromptTypes ==
  /\ seq \in 0 .. MaxQuestions
  /\ waiters \in [Toks -> Qs \cup {0}] /\ byConv \in [Chats -> Toks \cup {0}]
  /\ question \in [Qs -> QuestionType] /\ \A q \in Qs : \A x, y \in question[q].chan : x = y
  /\ resolving \in SUBSET SendType /\ cutting \in SUBSET Toks
  /\ restarted \in BOOLEAN /\ mayBeLate \in BOOLEAN

IsOpen(q) == question[q].step \in Questions!Open
Told(q) == \E s \in resolving : s.to = q
\* Nothing has decided the question yet.
Waits(q) == IsOpen(q) /\ question[q].chan = {} /\ ~Told(q)

\* Questions are asked in their order, each with a token more.
InTurn == Asked = 1 .. Cardinality(Asked) /\ seq <= Cardinality(Asked)

\* The tokens of this run of the server are of one question each.
Numbered ==
  /\ \A q \in Asked : question[q].token \in Toks /\ question[q].chat \in Chats
  /\ \A q \in Asked : IsOpen(q) \/ ~restarted => question[q].token <= seq
  /\ \A q, r \in Asked : (IsOpen(q) /\ IsOpen(r)) \/ ~restarted => (question[q].token = question[r].token => q = r)

\* A conversation waits for one question at most.
Alone == \A q, r \in Asked : IsOpen(q) /\ IsOpen(r) /\ question[q].chat = question[r].chat => q = r

\* The maps hold what waits, and what waits is found.
Found ==
  /\ \A t \in Toks, q \in Qs : waiters[t] = q <=> Waits(q) /\ question[q].token = t
  /\ \A c \in Chats, t \in Toks : byConv[c] = t => \E q \in Qs : waiters[t] = q /\ question[q].chat = c
  /\ CutByWords => \A q \in Qs : Waits(q) => byConv[question[q].chat] = question[q].token

\* One answer is on its way to a question, and in the run that gave out its token it is its own.
OnTheirWay ==
  /\ \A s \in resolving : question[s.to].chan = {} /\ s.to \in Asked /\ (~restarted => s.from \in {0, s.to})
  /\ \A s, r \in resolving : s.to = r.to => s = r

\* A question whose tap was told TRUE is decided, or has its answer.
KeptTrue ==
  /\ ~mayBeLate => \A q \in Qs : question[q].step # "late"
  /\ accepted \subseteq Asked /\ \A q \in accepted : question[q].step # "registered"
  /\ ~mayBeLate /\ ~restarted => \A q \in accepted : IF IsOpen(q) THEN ~Waits(q) ELSE question[q].result # {}

PromptsIInv ==
  /\ PromptTypes /\ InTurn /\ Numbered /\ Alone /\ Found /\ OnTheirWay /\ KeptTrue
  /\ ~restarted => mixed = {}

(***************************************************************************)
(* Questions: the steps.                                                   *)
(***************************************************************************)
LEMMA PromptNumbers ==
  /\ MaxQuestions \in Nat \ {0} /\ Questions!None = 0 /\ 0 \notin Qs /\ 0 \notin Toks
  /\ Qs = 1 .. MaxQuestions /\ Toks = 1 .. MaxQuestions
  /\ Questions!Open = {"registered", "shown", "posted", "late"}
BY IncomingConstants DEF Questions!PromptsConstants, Questions!None, Questions!Open, Qs, Toks, Questions!Questions, Questions!Tokens

LEMMA AskedOnes ==
  /\ Asked = {q \in Qs : question[q].step # "idle"}
  /\ Questions!Cardinality(Asked) = Cardinality(Asked) /\ Cardinality(Asked) \in Nat
<1>1. 1 \in Int /\ MaxQuestions \in Int
  BY PromptNumbers
<1>2. IsFiniteSet(1 .. MaxQuestions)
  BY <1>1, FS_Interval
<1>3. Asked = {q \in Qs : question[q].step # "idle"} /\ Asked \subseteq 1 .. MaxQuestions
  BY PromptNumbers DEF Asked, Questions!Asked, Qs
<1>4. Cardinality(Asked) \in Nat
  BY <1>2, <1>3, FS_Subset, FS_CardinalityType
<1> QED BY <1>3, <1>4 DEF Questions!Cardinality, Cardinality

LEMMA PromptsInit == Questions!Init => PromptsIInv
<1> SUFFICES ASSUME Questions!Init PROVE PromptsIInv
  OBVIOUS
<1>1. /\ seq = 0 /\ waiters = [t \in Toks |-> 0] /\ byConv = [c \in Chats |-> 0] /\ resolving = {} /\ cutting = {}
      /\ question = [q \in Qs |-> Questions!NotAsked] /\ restarted = FALSE /\ mayBeLate \in BOOLEAN /\ accepted = {} /\ mixed = {}
  BY PromptNumbers DEF Questions!Init, Qs, Toks
<1>2. \A q \in Qs : question[q] = [step |-> "idle", chat |-> 0, token |-> 0, chan |-> {}, result |-> {}]
  BY <1>1, PromptNumbers DEF Questions!NotAsked
<1>3. PromptTypes
  <2>1. seq \in 0 .. MaxQuestions
    BY <1>1, PromptNumbers
  <2>2. question \in [Qs -> QuestionType]
    <3>1. Questions!NotAsked \in QuestionType
      BY PromptNumbers DEF Questions!NotAsked, QuestionType
    <3> QED BY <1>1, <3>1
  <2>3. waiters \in [Toks -> Qs \cup {0}] /\ byConv \in [Chats -> Toks \cup {0}]
    BY <1>1
  <2>4. \A q \in Qs : \A x, y \in question[q].chan : x = y
    BY <1>2
  <2> QED BY <1>1, <2>1, <2>2, <2>3, <2>4 DEF PromptTypes
<1>4. \A q \in Qs : question[q].step = "idle" /\ ~IsOpen(q)
  BY <1>2, PromptNumbers DEF IsOpen
<1>5. Asked = {}
  BY <1>4, AskedOnes
<1>6. InTurn
  BY <1>1, <1>5, FS_EmptySet DEF InTurn
<1>7. Numbered /\ Alone
  BY <1>5 DEF Numbered, Alone
<1>8. Found
  BY <1>1, <1>4, PromptNumbers DEF Found, Waits, Toks
<1>9. OnTheirWay /\ KeptTrue
  BY <1>1, <1>4 DEF OnTheirWay, KeptTrue
<1> QED BY <1>1, <1>3, <1>6, <1>7, <1>8, <1>9 DEF PromptsIInv

\* No question is asked or opened: what is known of tokens and chats stays.
LEMMA FewerOpen ==
  ASSUME PromptTypes, InTurn, Numbered, Alone, seq' = seq, restarted' = restarted,
         \A q \in Qs : /\ question'[q].token = question[q].token /\ question'[q].chat = question[q].chat
                       /\ question'[q].step = "idle" <=> question[q].step = "idle"
                       /\ IsOpen(q)' => IsOpen(q)
  PROVE  Asked' = Asked /\ InTurn' /\ Numbered' /\ Alone'
<1>1. Asked' = Asked /\ Asked \subseteq Qs
  BY DEF Asked, Questions!Asked, Qs
<1>2. InTurn'
  BY <1>1 DEF InTurn
<1>3. Numbered' /\ Alone'
  BY <1>1 DEF Numbered, Alone
<1> QED BY <1>1, <1>2, <1>3

\* A question that is open waits no more, and its token is forgotten.
LEMMA Forgotten ==
  ASSUME PromptTypes, Numbered, Found, NEW q \in Asked, IsOpen(q), Questions!Forgets(question[q].token),
         \A r \in Qs : /\ question'[r].token = question[r].token /\ question'[r].chat = question[r].chat
                       /\ Waits(r)' <=> Waits(r) /\ r # q
  PROVE  Found' /\ waiters' \in [Toks -> Qs \cup {0}] /\ byConv' \in [Chats -> Toks \cup {0}]
<1> DEFINE t == question[q].token
<1>1. q \in Qs /\ t \in Toks
  BY AskedOnes DEF Numbered
<1>2. /\ waiters' = [waiters EXCEPT ![t] = 0]
      /\ byConv' = [c \in Chats |-> IF byConv[c] = t THEN 0 ELSE byConv[c]]
  BY PromptNumbers DEF Questions!Forgets
<1>3. waiters' \in [Toks -> Qs \cup {0}] /\ byConv' \in [Chats -> Toks \cup {0}]
  BY <1>2 DEF PromptTypes
<1>4. \A u \in Toks : waiters'[u] = IF u = t THEN 0 ELSE waiters[u]
  BY <1>2 DEF PromptTypes
<1>5. \A c \in Chats : byConv'[c] = IF byConv[c] = t THEN 0 ELSE byConv[c]
  BY <1>2
<1>6. \A r \in Qs : Waits(r) => r \in Asked /\ IsOpen(r) /\ question[r].chat \in Chats
                               /\ (question[r].token = t => r = q)
  BY AskedOnes, PromptNumbers DEF Waits, IsOpen, Numbered
<1> HIDE DEF t
<1>7. \A u \in Toks, r \in Qs : waiters'[u] = r <=> Waits(r)' /\ question'[r].token = u
  BY <1>4, <1>6, PromptNumbers DEF Found, t
<1>8. \A c \in Chats, u \in Toks : byConv'[c] = u => \E r \in Qs : waiters'[u] = r /\ question'[r].chat = c
  BY <1>4, <1>5, PromptNumbers DEF Found
<1>9. CutByWords => \A r \in Qs : Waits(r)' => byConv'[question'[r].chat] = question'[r].token
  BY <1>5, <1>6 DEF Found
<1> QED BY <1>3, <1>7, <1>8, <1>9 DEF Found

\* An open question gets on, and stays open.
LEMMA GetsOn ==
  ASSUME PromptsIInv, NEW q \in Qs, NEW s \in {"shown", "posted", "late"}, IsOpen(q),
         question' = [question EXCEPT ![q].step = s], s = "late" => mayBeLate,
         UNCHANGED <<seq, waiters, byConv, resolving, cutting, restarted, mayBeLate, accepted, mixed>>
  PROVE  PromptsIInv'
<1>1. \A r \in Qs : /\ question'[r].token = question[r].token /\ question'[r].chat = question[r].chat
                    /\ question'[r].chan = question[r].chan /\ question'[r].result = question[r].result
                    /\ question'[r].step = IF r = q THEN s ELSE question[r].step
  BY DEF PromptsIInv, PromptTypes, QuestionType
<1>2. question' \in [Qs -> QuestionType]
  BY DEF PromptsIInv, PromptTypes, QuestionType
<1>3. PromptTypes'
  BY <1>1, <1>2 DEF PromptsIInv, PromptTypes
<1>4. \A r \in Qs : (IsOpen(r)' <=> IsOpen(r)) /\ (Waits(r)' <=> Waits(r)) /\ (question'[r].step = "idle" <=> question[r].step = "idle")
  BY <1>1, PromptNumbers DEF IsOpen, Waits, Told
<1>5. Asked' = Asked /\ InTurn' /\ Numbered' /\ Alone'
  BY <1>1, <1>4, FewerOpen DEF PromptsIInv
<1>6. Found'
  BY <1>1, <1>4, PromptNumbers DEF PromptsIInv, Found, PromptTypes
<1>7. OnTheirWay'
  <2>1. \A x \in resolving : x.to \in Qs
    BY DEF PromptsIInv, PromptTypes, SendType
  <2> QED BY <1>1, <1>5, <2>1 DEF PromptsIInv, OnTheirWay
<1>8. KeptTrue'
  <2>1. accepted \subseteq Qs
    BY AskedOnes DEF PromptsIInv, KeptTrue
  <2> QED BY <1>1, <1>4, <1>5, <2>1 DEF PromptsIInv, KeptTrue
<1> QED BY <1>3, <1>5, <1>6, <1>7, <1>8 DEF PromptsIInv

\* An open question that nobody was told TRUE about ends, and is forgotten.
LEMMA Ends ==
  ASSUME PromptsIInv, NEW q \in Qs, IsOpen(q), q \in accepted => mayBeLate \/ restarted,
         question' = [question EXCEPT ![q].step = "ended"], Questions!Forgets(question[q].token),
         UNCHANGED <<seq, resolving, cutting, restarted, mayBeLate, accepted, mixed>>
  PROVE  PromptsIInv'
<1>0. q \in Asked
  BY AskedOnes, PromptNumbers DEF PromptsIInv, Numbered, IsOpen
<1>1. \A r \in Qs : /\ question'[r].token = question[r].token /\ question'[r].chat = question[r].chat
                    /\ question'[r].chan = question[r].chan /\ question'[r].result = question[r].result
                    /\ question'[r].step = IF r = q THEN "ended" ELSE question[r].step
  BY DEF PromptsIInv, PromptTypes, QuestionType
<1>4. \A r \in Qs : /\ IsOpen(r)' <=> IsOpen(r) /\ r # q
                    /\ Waits(r)' <=> Waits(r) /\ r # q
                    /\ question'[r].step = "idle" <=> question[r].step = "idle"
  BY <1>1, PromptNumbers DEF IsOpen, Waits, Told
<1>5. Asked' = Asked /\ InTurn' /\ Numbered' /\ Alone'
  BY <1>1, <1>4, FewerOpen DEF PromptsIInv
<1>6. Found' /\ waiters' \in [Toks -> Qs \cup {0}] /\ byConv' \in [Chats -> Toks \cup {0}]
  BY <1>0, <1>1, <1>4, Forgotten DEF PromptsIInv
<1>3. PromptTypes'
  <2>1. question' \in [Qs -> QuestionType]
    BY DEF PromptsIInv, PromptTypes, QuestionType
  <2> QED BY <1>1, <1>6, <2>1 DEF PromptsIInv, PromptTypes
<1>7. OnTheirWay'
  <2>1. \A x \in resolving : x.to \in Qs
    BY DEF PromptsIInv, PromptTypes, SendType
  <2> QED BY <1>1, <1>5, <2>1 DEF PromptsIInv, OnTheirWay
<1>8. KeptTrue'
  <2>1. accepted \subseteq Qs
    BY AskedOnes DEF PromptsIInv, KeptTrue
  <2> QED BY <1>1, <1>4, <1>5, <2>1 DEF PromptsIInv, KeptTrue
<1> QED BY <1>3, <1>5, <1>6, <1>7, <1>8 DEF PromptsIInv

\* A token is taken out, by a tap on the button of a question or by words typed instead.
LEMMA Takes ==
  ASSUME PromptsIInv, NEW t \in Toks, NEW what \in Said, NEW from \in Qs \cup {0}, Questions!Take(t, what, from),
         from # 0 => question[from].token = t /\ question[from].step \notin {"idle", "registered"},
         cutting' \in SUBSET Toks, UNCHANGED <<seq, question, restarted, mayBeLate, mixed>>
  PROVE  PromptsIInv'
<1>1. CASE waiters[t] = 0
  <2>1. UNCHANGED <<waiters, byConv, resolving, accepted>>
    BY <1>1, PromptNumbers DEF Questions!Take
  <2>2. PromptTypes'
    BY <2>1 DEF PromptsIInv, PromptTypes
  <2>3. InTurn' /\ Numbered' /\ Alone' /\ Asked' = Asked
    BY DEF PromptsIInv, InTurn, Numbered, Alone, Asked, Questions!Asked, IsOpen
  <2>4. Found' /\ OnTheirWay' /\ KeptTrue'
    BY <2>1, <2>3 DEF PromptsIInv, Found, OnTheirWay, KeptTrue, Waits, IsOpen, Told
  <2> QED BY <2>2, <2>3, <2>4 DEF PromptsIInv
<1>2. CASE waiters[t] # 0
  <2> DEFINE q == waiters[t]
  <2>1. q \in Qs /\ Waits(q) /\ question[q].token = t /\ q \in Asked
    <3>1. q \in Qs /\ Waits(q) /\ question[q].token = t
      BY <1>2 DEF PromptsIInv, Found, PromptTypes
    <3> QED BY <3>1, AskedOnes, PromptNumbers DEF Waits, IsOpen
  <2> DEFINE s == [to |-> q, what |-> what, from |-> from]
  <2>2. /\ resolving' = resolving \cup {s}
        /\ accepted' = IF from = 0 THEN accepted ELSE accepted \cup {from}
        /\ Questions!Forgets(t)
    BY <1>2, PromptNumbers DEF Questions!Take
  <2>3. s \in SendType /\ s.to = q /\ s.from = from
    BY <2>1 DEF SendType
  <2> HIDE DEF s
  <2>5. InTurn' /\ Numbered' /\ Alone' /\ Asked' = Asked
    BY DEF PromptsIInv, InTurn, Numbered, Alone, Asked, Questions!Asked, IsOpen
  <2>6. \A r \in Qs : (IsOpen(r)' <=> IsOpen(r)) /\ (Told(r)' <=> Told(r) \/ r = q) /\ (Waits(r)' <=> Waits(r) /\ r # q)
    BY <2>2, <2>3 DEF IsOpen, Waits, Told
  <2>7. Found' /\ waiters' \in [Toks -> Qs \cup {0}] /\ byConv' \in [Chats -> Toks \cup {0}]
    BY <2>1, <2>2, <2>6, Forgotten DEF PromptsIInv, Waits
  <2>4. PromptTypes'
    BY <2>2, <2>3, <2>7 DEF PromptsIInv, PromptTypes
  <2>8. from # 0 => from \in Asked /\ (~restarted => from = q)
    BY <2>1, AskedOnes DEF PromptsIInv, Numbered
  <2>9. OnTheirWay'
    <3>1. question[q].chan = {} /\ \A r \in resolving : r.to # q
      BY <2>1 DEF Waits, Told
    <3>2. \A x \in resolving' : question'[x.to].chan = {} /\ x.to \in Asked /\ (~restarted => x.from \in {0, x.to})
      BY <2>1, <2>2, <2>3, <2>8, <3>1 DEF PromptsIInv, OnTheirWay
    <3>3. \A x, r \in resolving' : x.to = r.to => x = r
      BY <2>2, <2>3, <3>1 DEF PromptsIInv, OnTheirWay
    <3> QED BY <2>5, <3>2, <3>3 DEF OnTheirWay
  <2>10. KeptTrue'
    <3>1. accepted \subseteq Qs
      BY AskedOnes DEF PromptsIInv, KeptTrue
    <3>2. accepted' \subseteq Asked /\ \A r \in accepted' : question[r].step # "registered"
      BY <2>2, <2>8 DEF PromptsIInv, KeptTrue
    <3>3. ~mayBeLate /\ ~restarted => \A r \in accepted' : IF IsOpen(r)' THEN ~Waits(r)' ELSE question[r].result # {}
      BY <2>1, <2>2, <2>6, <2>8, <3>1 DEF PromptsIInv, KeptTrue, Waits
    <3> QED BY <2>5, <3>2, <3>3 DEF PromptsIInv, KeptTrue
  <2> QED BY <2>4, <2>5, <2>7, <2>9, <2>10 DEF PromptsIInv
<1> QED BY <1>1, <1>2

\* A question is asked: the next of them, with the next token.
LEMMA Asks == ASSUME PromptsIInv, NEW c \in Chats, Questions!Ask(c) PROVE PromptsIInv'
<1> DEFINE n == Cardinality(Asked)
           q == n + 1
           t == seq + 1
<1>1. n \in Nat /\ Asked = 1 .. n /\ seq \in Nat /\ seq <= n
  BY AskedOnes DEF PromptsIInv, InTurn, PromptTypes
<1>2. /\ q \in Qs /\ seq' = t /\ waiters' = [waiters EXCEPT ![t] = q]
      /\ byConv' = IF CutByWords THEN [byConv EXCEPT ![c] = t] ELSE byConv
      /\ question' = [question EXCEPT ![q] = [Questions!NotAsked EXCEPT !.step = "registered", !.chat = c, !.token = t]]
      /\ UNCHANGED <<resolving, cutting, restarted, mayBeLate, accepted, mixed>>
      /\ \A r \in Asked : question[r].chat # c \/ question[r].step = "ended"
  BY AskedOnes DEF Questions!Ask, Questions!Under, Asked, Qs
<1> DEFINE new == [Questions!NotAsked EXCEPT !.step = "registered", !.chat = c, !.token = t]
<1>3. question' = [question EXCEPT ![q] = new]
  BY <1>2
<1>4. t \in Toks /\ q \notin Asked /\ t <= q /\ seq < t
  BY <1>1, <1>2, PromptNumbers
<1>5. new \in QuestionType /\ new.step = "registered" /\ new.chat = c /\ new.token = t /\ new.chan = {} /\ new.result = {}
  <2>1. /\ Questions!NotAsked \in QuestionType
        /\ Questions!NotAsked.chan = {} /\ Questions!NotAsked.result = {}
    BY DEF QuestionType, Questions!NotAsked, Questions!None
  <2> HIDE DEF t
  <2>2. \A r \in QuestionType, x \in Toks :
          LET s == [r EXCEPT !.step = "registered", !.chat = c, !.token = x]
          IN  s \in QuestionType /\ s.step = "registered" /\ s.chat = c /\ s.token = x
              /\ s.chan = r.chan /\ s.result = r.result
    BY DEF QuestionType
  <2> QED BY <1>4, <2>1, <2>2
<1> HIDE DEF new, q, t, n
<1>6. \A r \in Qs : question'[r] = IF r = q THEN new ELSE question[r]
  BY <1>3 DEF PromptsIInv, PromptTypes
<1>7. \A r \in Asked : r \in Qs /\ r # q /\ question'[r] = question[r]
  BY <1>4, <1>6, AskedOnes
<1>8. question' \in [Qs -> QuestionType] /\ waiters' \in [Toks -> Qs \cup {0}] /\ byConv' \in [Chats -> Toks \cup {0}]
  BY <1>2, <1>3, <1>4, <1>5 DEF PromptsIInv, PromptTypes
<1>9. PromptTypes'
  <2>1. t \in 0 .. MaxQuestions
    BY <1>4, PromptNumbers
  <2>2. \A r \in Qs : \A x, y \in question'[r].chan : x = y
    BY <1>5, <1>6 DEF PromptsIInv, PromptTypes
  <2> QED BY <1>2, <1>8, <2>1, <2>2 DEF PromptsIInv, PromptTypes
<1>10. Asked' = Asked \cup {q}
  <2>1. Asked' = {r \in Qs : question'[r].step # "idle"}
    BY DEF Asked, Questions!Asked, Qs
  <2> QED BY <1>2, <1>5, <1>6, <2>1, AskedOnes
<1>11. InTurn'
  <2>1. Asked' = 1 .. q /\ Cardinality(1 .. q) = q /\ t <= q
    <3>1. q \in Nat \ {0} /\ q \in Int /\ 1 \in Int /\ q = n + 1
      BY <1>1 DEF q
    <3>2. Cardinality(1 .. q) = q
      BY <3>1, FS_Interval
    <3>3. Asked' = 1 .. q
      BY <1>1, <1>10, <3>1
    <3> QED BY <1>4, <3>2, <3>3
  <2> QED BY <1>2, <2>1 DEF InTurn
<1>12. \A r \in Qs : /\ IsOpen(r)' <=> r = q \/ (IsOpen(r) /\ r # q)
                     /\ Waits(r)' <=> r = q \/ Waits(r)
                     /\ Waits(r) => r # q
  <2>1. ~Told(q)
    BY <1>4 DEF PromptsIInv, OnTheirWay, Told
  <2>2. \A r \in Qs : (IsOpen(r)' <=> r = q \/ (IsOpen(r) /\ r # q)) /\ (IsOpen(r) => r # q)
    BY <1>4, <1>5, <1>6, PromptNumbers, AskedOnes DEF IsOpen
  <2> QED BY <1>2, <1>5, <1>6, <2>1, <2>2 DEF Waits, Told
<1>13. Numbered'
  <2>1. \A r \in Asked' : question'[r].token \in Toks /\ question'[r].chat \in Chats
    BY <1>2, <1>4, <1>5, <1>6, <1>7, <1>10 DEF PromptsIInv, Numbered
  <2>2. \A r \in Asked : IsOpen(r)' \/ ~restarted => question'[r].token <= seq /\ question'[r].token # t
    <3>1. \A x \in Toks : x <= seq => x # t
      BY <1>1, <1>4, PromptNumbers
    <3> QED BY <1>7, <1>12, <3>1 DEF PromptsIInv, Numbered
  <2>3. \A x \in Toks : x <= seq => x <= t
    BY <1>1, <1>4, PromptNumbers
  <2>4. t <= t
    BY <1>4, PromptNumbers
  <2>5. \A r \in Asked' : IsOpen(r)' \/ ~restarted' => question'[r].token <= seq'
    BY <1>2, <1>5, <1>6, <1>10, <2>1, <2>2, <2>3, <2>4
  <2>6. \A r, s \in Asked' : (IsOpen(r)' /\ IsOpen(s)') \/ ~restarted' => (question'[r].token = question'[s].token => r = s)
    BY <1>2, <1>5, <1>6, <1>7, <1>10, <1>12, <2>2 DEF PromptsIInv, Numbered
  <2> QED BY <2>1, <2>5, <2>6 DEF Numbered
<1>14. Alone'
  <2>1. \A r \in Asked : IsOpen(r) => question[r].chat # c
    BY <1>2, PromptNumbers DEF IsOpen
  <2> QED BY <1>2, <1>5, <1>6, <1>7, <1>10, <1>12, <2>1 DEF PromptsIInv, Alone
<1>15. Found'
  <2>1. Found /\ PromptTypes /\ Numbered
    BY DEF PromptsIInv
  <2>2. \A r \in Qs : Waits(r) => r \in Asked /\ IsOpen(r) /\ question[r].token # t /\ question[r].chat # c
                                  /\ question[r].chat \in Chats
    <3>1. \A r \in Qs : Waits(r) => r \in Asked /\ IsOpen(r)
      BY AskedOnes, PromptNumbers DEF Waits, IsOpen
    <3>2. \A x \in Toks : x <= seq => x # t
      BY <1>1, <1>4, PromptNumbers
    <3>3. \A r \in Asked : IsOpen(r) => question[r].chat # c
      BY <1>2, PromptNumbers DEF IsOpen
    <3> QED BY <2>1, <3>1, <3>2, <3>3 DEF Numbered
  <2>3. \A u \in Toks : waiters'[u] = IF u = t THEN q ELSE waiters[u]
    BY <1>2, <1>4, <2>1 DEF PromptTypes
  <2>4. \A d \in Chats : byConv'[d] = IF CutByWords /\ d = c THEN t ELSE byConv[d]
    BY <1>2, <2>1 DEF PromptTypes
  <2>5. \A u \in Toks, r \in Qs : waiters'[u] = r <=> Waits(r)' /\ question'[r].token = u
    BY <1>2, <1>5, <1>6, <1>12, <2>1, <2>2, <2>3 DEF Found
  <2>6. \A d \in Chats, u \in Toks : byConv'[d] = u => \E r \in Qs : waiters'[u] = r /\ question'[r].chat = d
    <3> SUFFICES ASSUME NEW d \in Chats, NEW u \in Toks, byConv'[d] = u
                 PROVE  \E r \in Qs : waiters'[u] = r /\ question'[r].chat = d
      OBVIOUS
    <3>1. CASE CutByWords /\ d = c
      BY <1>2, <1>4, <1>5, <1>6, <2>3, <2>4, <3>1
    <3>2. CASE ~(CutByWords /\ d = c)
      <4>1. PICK r \in Qs : waiters[u] = r /\ question[r].chat = d
        BY <2>1, <2>4, <3>2 DEF Found
      <4>2. Waits(r) /\ u # t
        BY <2>1, <2>2, <4>1 DEF Found
      <4> QED BY <1>6, <1>12, <2>3, <4>1, <4>2
    <3> QED BY <3>1, <3>2
  <2>7. CutByWords => \A r \in Qs : Waits(r)' => byConv'[question'[r].chat] = question'[r].token
    BY <1>2, <1>5, <1>6, <1>12, <2>1, <2>2, <2>4 DEF Found
  <2> QED BY <2>5, <2>6, <2>7 DEF Found
<1>16. OnTheirWay'
  <2>1. \A x \in resolving : x.to \in Asked
    BY DEF PromptsIInv, OnTheirWay
  <2> QED BY <1>2, <1>7, <1>10, <2>1 DEF PromptsIInv, OnTheirWay
<1>17. KeptTrue'
  <2>1. \A r \in accepted : r \in Asked /\ r \in Qs /\ r # q /\ question'[r] = question[r]
    BY <1>7 DEF PromptsIInv, KeptTrue
  <2>2. ~mayBeLate => \A r \in Qs : question'[r].step # "late"
    BY <1>5, <1>6 DEF PromptsIInv, KeptTrue
  <2>3. ~mayBeLate /\ ~restarted => \A r \in accepted : IF IsOpen(r)' THEN ~Waits(r)' ELSE question'[r].result # {}
    BY <1>12, <2>1 DEF PromptsIInv, KeptTrue
  <2> QED BY <1>2, <1>10, <2>1, <2>2, <2>3 DEF PromptsIInv, KeptTrue
<1> QED BY <1>2, <1>9, <1>11, <1>13, <1>14, <1>15, <1>16, <1>17 DEF PromptsIInv

\* An answer that was on its way arrives.
LEMMA Sends == ASSUME PromptsIInv, NEW s \in resolving, Questions!Send(s) PROVE PromptsIInv'
<1>1. s \in SendType /\ s.to \in Qs /\ s.what \in Said /\ s.from \in Qs \cup {0} /\ s.to \in Asked
  BY DEF PromptsIInv, PromptTypes, SendType, OnTheirWay
<1> DEFINE q == s.to
<1>2. /\ question[q].chan = {} /\ resolving' = resolving \ {s}
      /\ question' = [question EXCEPT ![q].chan = {s.what}]
      /\ mixed' = IF s.from \in {0, q} THEN mixed ELSE mixed \cup {q}
      /\ UNCHANGED <<seq, waiters, byConv, cutting, restarted, mayBeLate, accepted>>
  BY PromptNumbers DEF Questions!Send
<1>3. \A r \in Qs : /\ question'[r].token = question[r].token /\ question'[r].chat = question[r].chat
                    /\ question'[r].step = question[r].step /\ question'[r].result = question[r].result
                    /\ question'[r].chan = IF r = q THEN {s.what} ELSE question[r].chan
  BY <1>1, <1>2 DEF PromptsIInv, PromptTypes, QuestionType
<1>4. question' \in [Qs -> QuestionType]
  BY <1>1, <1>2 DEF PromptsIInv, PromptTypes, QuestionType
<1>5. PromptTypes'
  BY <1>2, <1>3, <1>4 DEF PromptsIInv, PromptTypes
<1>6. \A r \in Qs : (IsOpen(r)' <=> IsOpen(r)) /\ (Waits(r)' <=> Waits(r)) /\ (question'[r].step = "idle" <=> question[r].step = "idle")
  <2>1. \A r \in Qs : r # q => (Told(r)' <=> Told(r))
    BY <1>2 DEF Told
  <2>2. Told(q)
    BY DEF Told
  <2> QED BY <1>3, <2>1, <2>2 DEF IsOpen, Waits
<1>7. Asked' = Asked /\ InTurn' /\ Numbered' /\ Alone'
  BY <1>2, <1>3, <1>6, FewerOpen DEF PromptsIInv
<1>8. Found'
  BY <1>2, <1>3, <1>6 DEF PromptsIInv, Found
<1>9. OnTheirWay'
  <2>1. \A x \in resolving' : x \in resolving /\ x.to \in Qs /\ x.to # q
    BY <1>2 DEF PromptsIInv, PromptTypes, SendType, OnTheirWay
  <2> QED BY <1>2, <1>3, <1>7, <2>1 DEF PromptsIInv, OnTheirWay
<1>10. KeptTrue'
  <2>1. accepted \subseteq Qs
    BY AskedOnes DEF PromptsIInv, KeptTrue
  <2> QED BY <1>2, <1>3, <1>6, <1>7, <2>1 DEF PromptsIInv, KeptTrue
<1>11. ~restarted' => mixed' = {}
  BY <1>2 DEF PromptsIInv, OnTheirWay
<1> QED BY <1>5, <1>7, <1>8, <1>9, <1>10, <1>11 DEF PromptsIInv

\* The answer is read, and with it the question ends.
LEMMA Hears == ASSUME PromptsIInv, NEW q \in Qs, Questions!Answered(q) PROVE PromptsIInv'
<1>1. /\ question[q].step = "posted" /\ question[q].chan # {}
      /\ question' = [question EXCEPT ![q].step = "ended", ![q].result = question[q].chan]
      /\ UNCHANGED <<seq, waiters, byConv, resolving, cutting, restarted, mayBeLate, accepted, mixed>>
  BY DEF Questions!Answered
<1>2. \A r \in Qs : /\ question'[r].token = question[r].token /\ question'[r].chat = question[r].chat
                    /\ question'[r].chan = question[r].chan
                    /\ question'[r].step = IF r = q THEN "ended" ELSE question[r].step
                    /\ question'[r].result = IF r = q THEN question[q].chan ELSE question[r].result
  BY <1>1 DEF PromptsIInv, PromptTypes, QuestionType
<1>3. question' \in [Qs -> QuestionType]
  <2>1. question[q].chan \in SUBSET Said
    BY DEF PromptsIInv, PromptTypes, QuestionType
  <2>2. \A r \in QuestionType, a \in SUBSET Said : [r EXCEPT !.step = "ended", !.result = a] \in QuestionType
    BY DEF QuestionType
  <2>3. question' = [question EXCEPT ![q] = [question[q] EXCEPT !.step = "ended", !.result = question[q].chan]]
    BY <1>1 DEF PromptsIInv, PromptTypes
  <2> QED BY <2>1, <2>2, <2>3 DEF PromptsIInv, PromptTypes
<1>10. /\ UNCHANGED <<seq, waiters, byConv, resolving, cutting, restarted, mayBeLate, accepted, mixed>>
       /\ question[q].step = "posted" /\ question[q].chan # {}
  BY <1>1
<1>4. PromptTypes'
  BY <1>10, <1>2, <1>3 DEF PromptsIInv, PromptTypes
<1>5. \A r \in Qs : /\ IsOpen(r)' <=> IsOpen(r) /\ r # q
                    /\ Waits(r)' <=> Waits(r)
                    /\ question'[r].step = "idle" <=> question[r].step = "idle"
  <2>1. \A r \in Qs : Told(r)' <=> Told(r)
    BY <1>10 DEF Told
  <2>2. \A r \in Qs : IsOpen(r)' <=> IsOpen(r) /\ r # q
    BY <1>2, PromptNumbers DEF IsOpen
  <2> QED BY <1>2, <1>10, <2>1, <2>2 DEF Waits
<1>6. Asked' = Asked /\ InTurn' /\ Numbered' /\ Alone'
  BY <1>10, <1>2, <1>5, FewerOpen DEF PromptsIInv
<1>7. Found'
  BY <1>10, <1>2, <1>5 DEF PromptsIInv, Found
<1>8. OnTheirWay'
  <2>1. \A x \in resolving : x.to \in Qs
    BY DEF PromptsIInv, PromptTypes, SendType
  <2> QED BY <1>10, <1>2, <1>6, <2>1 DEF PromptsIInv, OnTheirWay
<1>9. KeptTrue'
  <2>1. accepted \subseteq Qs
    BY AskedOnes DEF PromptsIInv, KeptTrue
  <2> QED BY <1>10, <1>2, <1>5, <1>6, <2>1 DEF PromptsIInv, KeptTrue
<1> QED BY <1>10, <1>4, <1>6, <1>7, <1>8, <1>9 DEF PromptsIInv

\* The server starts again: every question has ended, nothing waits, the tokens begin anew.
LEMMA Restarts == ASSUME PromptsIInv, Questions!Restart PROVE PromptsIInv'
<1>1. /\ restarted' = TRUE /\ seq' = 0 /\ resolving' = {} /\ cutting' = {}
      /\ waiters' = [t \in Toks |-> 0] /\ byConv' = [c \in Chats |-> 0]
      /\ question' = [q \in Qs |-> IF question[q].step \in Questions!Open THEN [question[q] EXCEPT !.step = "ended"] ELSE question[q]]
      /\ UNCHANGED <<mayBeLate, accepted, mixed>>
  BY PromptNumbers DEF Questions!Restart, Qs, Toks
<1>2. question' \in [Qs -> QuestionType] /\ waiters' \in [Toks -> Qs \cup {0}] /\ byConv' \in [Chats -> Toks \cup {0}]
  <2>1. \A r \in QuestionType : [r EXCEPT !.step = "ended"] \in QuestionType
    BY DEF QuestionType
  <2> QED BY <1>1, <2>1 DEF PromptsIInv, PromptTypes
<1>3. \A q \in Qs : /\ question'[q].token = question[q].token /\ question'[q].chat = question[q].chat
                    /\ question'[q].chan = question[q].chan
                    /\ question'[q].step = IF IsOpen(q) THEN "ended" ELSE question[q].step
  <2>1. \A r \in QuestionType : LET e == [r EXCEPT !.step = "ended"]
                                IN  e.token = r.token /\ e.chat = r.chat /\ e.chan = r.chan /\ e.step = "ended"
    BY DEF QuestionType
  <2> QED BY <1>1, <2>1 DEF PromptsIInv, PromptTypes, IsOpen
<1>4. PromptTypes'
  BY <1>1, <1>2, <1>3, PromptNumbers DEF PromptsIInv, PromptTypes
<1>5. \A q \in Qs : ~IsOpen(q)' /\ question'[q].step # "late" /\ (question'[q].step = "idle" <=> question[q].step = "idle")
                    /\ (question[q].step # "registered" => question'[q].step # "registered")
  <2>1. \A q \in Qs : question[q].step \in {"idle", "ended"} \cup Questions!Open
    BY PromptNumbers DEF PromptsIInv, PromptTypes, QuestionType
  <2> QED BY <1>3, <2>1, PromptNumbers DEF IsOpen
<1>6. Asked' = Asked /\ Asked \subseteq Qs
  BY <1>5 DEF Asked, Questions!Asked, Qs
<1>7. InTurn'
  BY <1>1, <1>6, AskedOnes DEF PromptsIInv, InTurn
<1>8. Numbered' /\ Alone'
  BY <1>1, <1>3, <1>5, <1>6 DEF PromptsIInv, Numbered, Alone
<1>9. Found'
  BY <1>1, <1>5, PromptNumbers DEF Found, Waits
<1>10. OnTheirWay' /\ KeptTrue'
  BY <1>1, <1>5, <1>6 DEF PromptsIInv, OnTheirWay, KeptTrue
<1> QED BY <1>1, <1>4, <1>7, <1>8, <1>9, <1>10 DEF PromptsIInv

LEMMA PromptsStep == ASSUME PromptsIInv, Questions!Next PROVE PromptsIInv'
<1>1. Answers \subseteq Said /\ Questions!Words \in Said
  BY DEF Said
<1>2. ASSUME NEW c \in Chats, Questions!Ask(c) PROVE PromptsIInv'
  BY <1>2, Asks
<1>3. ASSUME NEW c \in Chats, Questions!Type(c) PROVE PromptsIInv'
  <2>1. /\ byConv[c] # 0 /\ cutting' = cutting \cup {byConv[c]}
        /\ UNCHANGED <<seq, waiters, byConv, question, resolving, restarted, mayBeLate, accepted, mixed>>
    BY <1>3, PromptNumbers DEF Questions!Type
  <2>2. PromptTypes'
    BY <2>1 DEF PromptsIInv, PromptTypes
  <2>3. Asked' = Asked
    BY <2>1 DEF Asked, Questions!Asked
  <2> QED BY <2>1, <2>2, <2>3 DEF PromptsIInv, InTurn, Numbered, Alone, Found, OnTheirWay, KeptTrue, Waits, IsOpen, Told
<1>4. ASSUME NEW q \in Qs, Questions!Post(q) PROVE PromptsIInv'
  <2>1. UNCHANGED <<seq, waiters, byConv, resolving, cutting, restarted, mayBeLate, accepted, mixed>>
    BY <1>4 DEF Questions!Post
  <2>2. IsOpen(q) /\ (question' = [question EXCEPT ![q].step = "shown"] \/ question' = [question EXCEPT ![q].step = "posted"])
    BY <1>4, PromptNumbers DEF Questions!Post, IsOpen
  <2> QED BY <2>1, <2>2, GetsOn
<1>5. ASSUME NEW q \in Qs, Questions!PostFails(q) PROVE PromptsIInv'
  <2>1. /\ question[q].step = "registered" /\ question' = [question EXCEPT ![q].step = "ended"]
        /\ Questions!Forgets(question[q].token)
        /\ UNCHANGED <<seq, resolving, cutting, restarted, mayBeLate, accepted, mixed>>
    BY <1>5 DEF Questions!PostFails
  <2>2. IsOpen(q) /\ q \notin accepted
    BY <2>1, PromptNumbers DEF IsOpen, PromptsIInv, KeptTrue
  <2> QED BY <2>1, <2>2, Ends
<1>6. ASSUME NEW q \in Qs, Questions!TimeOut(q) PROVE PromptsIInv'
  <2>1. /\ question[q].step = "posted" /\ (mayBeLate \/ (question[q].chan = {} /\ ~Told(q)))
        /\ UNCHANGED <<seq, resolving, cutting, restarted, mayBeLate, accepted, mixed>>
    BY <1>6 DEF Questions!TimeOut, Told
  <2>2. IsOpen(q)
    BY <2>1, PromptNumbers DEF IsOpen
  <2>3. CASE mayBeLate
    <3>1. question' = [question EXCEPT ![q].step = "late"] /\ UNCHANGED <<waiters, byConv>>
      BY <1>6, <2>3 DEF Questions!TimeOut
    <3> QED BY <2>1, <2>2, <2>3, <3>1, GetsOn
  <2>4. CASE ~mayBeLate
    <3>1. question' = [question EXCEPT ![q].step = "ended"] /\ Questions!Forgets(question[q].token)
      BY <1>6, <2>4 DEF Questions!TimeOut
    <3>2. q \in accepted => restarted
      BY <2>1, <2>2, <2>4 DEF PromptsIInv, KeptTrue, Waits
    <3> QED BY <2>1, <2>2, <3>1, <3>2, Ends
  <2> QED BY <2>3, <2>4
<1>7. ASSUME NEW q \in Qs, Questions!CleanUp(q) PROVE PromptsIInv'
  <2>1. /\ question[q].step = "late" /\ question' = [question EXCEPT ![q].step = "ended"]
        /\ Questions!Forgets(question[q].token)
        /\ UNCHANGED <<seq, resolving, cutting, restarted, mayBeLate, accepted, mixed>>
    BY <1>7 DEF Questions!CleanUp
  <2>2. IsOpen(q) /\ mayBeLate
    BY <2>1, PromptNumbers DEF IsOpen, PromptsIInv, PromptTypes, KeptTrue
  <2> QED BY <2>1, <2>2, Ends
<1>8. ASSUME NEW q \in Qs, NEW a \in Answers, Questions!Tap(q, a) PROVE PromptsIInv'
  <2>1. /\ question[q].step \in {"shown", "posted", "late", "ended"} /\ Questions!Take(question[q].token, a, q)
        /\ UNCHANGED <<seq, question, cutting, restarted, mayBeLate, mixed>>
    BY <1>8 DEF Questions!Tap
  <2>2. question[q].token \in Toks
    BY <2>1, AskedOnes DEF PromptsIInv, Numbered
  <2>3. cutting' \in SUBSET Toks
    BY <2>1 DEF PromptsIInv, PromptTypes
  <2> QED BY <1>1, <2>1, <2>2, <2>3, Takes
<1>9. ASSUME NEW t \in Toks, Questions!Cut(t) PROVE PromptsIInv'
  <2>1. /\ cutting' = cutting \ {t} /\ Questions!Take(t, Questions!Words, 0)
        /\ UNCHANGED <<seq, question, restarted, mayBeLate, mixed>>
    BY <1>9 DEF Questions!Cut, Questions!None
  <2>2. cutting' \in SUBSET Toks
    BY <2>1 DEF PromptsIInv, PromptTypes
  <2> QED BY <1>1, <2>1, <2>2, Takes
<1> QED BY <1>2, <1>3, <1>4, <1>5, <1>6, <1>7, <1>8, <1>9, Hears, Sends, Restarts DEF Questions!Next, Qs, Toks

LEMMA PromptsInvariant == FairSpec => []PromptsIInv
<1>1. Init => PromptsIInv
  BY PromptsInit DEF Init
<1>2. PromptsIInv /\ [Next]_vars => PromptsIInv'
  <2> SUFFICES ASSUME PromptsIInv, [Next]_vars PROVE PromptsIInv'
    OBVIOUS
  <2>1. CASE Questions!Next
    BY <2>1, PromptsStep
  <2>2. CASE UNCHANGED questionsVars
    <3>1. UNCHANGED <<seq, waiters, byConv, question, resolving, cutting, restarted, mayBeLate, accepted, mixed>>
      BY <2>2 DEF questionsVars
    <3>2. PromptTypes' /\ Asked' = Asked
      BY <3>1 DEF PromptsIInv, PromptTypes, Asked, Questions!Asked
    <3> QED BY <3>1, <3>2 DEF PromptsIInv, InTurn, Numbered, Alone, Found, OnTheirWay, KeptTrue, Waits, IsOpen, Told
  <2> QED BY <2>1, <2>2 DEF Next, vars
<1> QED BY <1>1, <1>2, PTL DEF FairSpec

(* The requesters' maps and the open questions agree, no tap's goroutine      *)
(* hangs, and until a restart an answer is to the question whose button was   *)
(* tapped and a tap that was told TRUE is its answer (approval.go, choice.go).*)
THEOREM QuestionsHold == FairSpec => []PromptsInv
<1>1. ASSUME PromptsIInv PROVE PromptsInv
  <2>0. /\ PromptTypes /\ Numbered /\ Found /\ OnTheirWay /\ KeptTrue /\ (~restarted => mixed = {})
        /\ \A q \in Qs : Waits(q) => question[q].chat \in Chats
    BY <1>1, AskedOnes, PromptNumbers DEF PromptsIInv, Numbered, Waits, IsOpen
  <2>1. Questions!TypeOK
    <3>1. ASSUME NEW S \in SUBSET Said, \A x, y \in S : x = y PROVE Questions!Cardinality(S) <= 1
      <4>1. S = {} \/ \E x \in S : S = {x}
        BY <3>1
      <4>2. Cardinality(S) \in {0, 1}
        BY <4>1, FS_EmptySet, FS_Singleton
      <4>3. Questions!Cardinality(S) = Cardinality(S)
        BY DEF Questions!Cardinality, Cardinality
      <4> QED BY <4>2, <4>3
    <3>2. \A q \in Qs : question[q] \in QuestionType /\ \A x, y \in question[q].chan : x = y
      BY <2>0 DEF PromptTypes
    <3>3. \A r \in QuestionType : /\ r.step \in {"idle", "ended"} \cup Questions!Open
                                   /\ r.chat \in Chats \cup {0} /\ r.token \in Toks \cup {0}
                                   /\ r.chan \in SUBSET Said /\ r.result \in SUBSET Said
      BY PromptNumbers DEF QuestionType
    <3>4. \A q \in Qs : Questions!Cardinality(question[q].chan) <= 1
      BY <3>1, <3>2, <3>3
    <3>5. {restarted, mayBeLate} \subseteq BOOLEAN /\ resolving \subseteq SendType /\ cutting \subseteq Toks
          /\ seq \in 0 .. MaxQuestions /\ waiters \in [Toks -> Qs \cup {0}] /\ byConv \in [Chats -> Toks \cup {0}]
      BY <2>0 DEF PromptTypes
    <3> QED BY <3>2, <3>3, <3>4, <3>5, PromptNumbers DEF Questions!TypeOK, Qs, Toks, Said, SendType
  <2>2. Questions!NothingLeft
    <3>1. \A t \in Toks : waiters[t] # 0 => waiters[t] \in Qs /\ question[waiters[t]].token = t /\ IsOpen(waiters[t])
      BY <2>0 DEF PromptTypes, Found, Waits
    <3>2. \A c \in Chats : byConv[c] # 0 => waiters[byConv[c]] # 0 /\ question[waiters[byConv[c]]].chat = c
      BY <2>0, PromptNumbers DEF PromptTypes, Found
    <3> QED BY <3>1, <3>2, PromptNumbers DEF Questions!NothingLeft, IsOpen, Toks
  <2>3. Questions!CanBeCut
    BY <2>0, PromptNumbers DEF Questions!CanBeCut, Found, Waits, IsOpen, Told, Qs
  <2>4. Questions!NobodyHangs
    BY <2>0 DEF Questions!NobodyHangs, OnTheirWay
  <2>5. Questions!RightAnswerSince
    BY <2>0 DEF Questions!RightAnswerSince
  <2>6. Questions!TrueCounts
    BY <2>0, PromptNumbers DEF Questions!TrueCounts, KeptTrue, IsOpen
  <2> QED BY <2>1, <2>2, <2>3, <2>4, <2>5, <2>6 DEF PromptsInv, Questions!PromptsInv
<1> QED BY <1>1, PromptsInvariant, PTL

(***************************************************************************)
(* Peer: the inductive invariant.                                          *)
(***************************************************************************)
Conns == Peer!Conns
Tasks == Peer!Tasks
FrameType == [kind : {"task", "side", "result"}, task : Tasks]
ConnType == [hub : {"none", "new", "serving", "gone"}, worker : {"none", "serving", "gone"}, cut : BOOLEAN,
             up : Seq(FrameType), down : Seq(FrameType)]
TaskType == [step : {"none", "refused", "sending", "waiting", "answered", "failed"}, on : Conns \cup {0}, chan : {0, 1}]
WorkType == [step : {"none", "running", "calling", "called", "done", "dead"}, on : Conns \cup {0}]
CallType == [task : Tasks, on : Conns, step : {"look", "run", "answer"}]
PastType == [overtook : BOOLEAN, late : BOOLEAN]

\* The tasks whose frames of this kind are under way.
Of(kind, s) == {s[i].task : i \in {j \in 1 .. Len(s) : s[j].kind = kind}}
OnceIn(s) == \A i, j \in 1 .. Len(s) : s[i].kind = "task" /\ s[j].kind = "task" /\ s[i].task = s[j].task => i = j

PeerTypes ==
  /\ peer \in Conns \cup {0} /\ conn \in [Conns -> ConnType] /\ put \in [Conns -> SUBSET Tasks]
  /\ task \in [Tasks -> TaskType] /\ work \in [Tasks -> WorkType] /\ call \in SUBSET CallType /\ past \in PastType

Finished == {t \in Tasks : work[t].step \in {"done", "dead"}}
Unread   == {t \in Tasks : work[t].step = "none"}
Unsent   == {t \in Tasks : task[t].step \in {"none", "refused", "sending"}}

\* What goes back as a task's result is one, on each stretch of its way.
ResultsReal ==
  /\ \A c \in Conns : Of("result", conn[c].up) \subseteq Finished /\ put[c] \subseteq Finished
  /\ \A t \in Tasks : task[t].step = "answered" \/ task[t].chan = 1 => t \in Finished

\* A task is written to one connection, once, and begins when it is read there.
GivenOnce ==
  /\ Unsent \subseteq Unread
  /\ \A c \in Conns : Of("task", conn[c].down) \subseteq Unread \ Unsent /\ OnceIn(conn[c].down)
  /\ \A c, d \in Conns : c # d => Of("task", conn[c].down) \cap Of("task", conn[d].down) = {}

Somewhere ==
  /\ \A t \in Tasks : work[t].step # "none" => work[t].on \in Conns
  /\ \A t \in Tasks : task[t].step \notin {"none", "refused"} => task[t].on \in Conns

\* One connection is served, and has the name, unless a hello overtook the end of the one before.
Named == ~past.overtook => \A c \in Conns : conn[c].hub = "serving" => peer = c

PeersIInv == PeerTypes /\ ResultsReal /\ GivenOnce /\ Somewhere /\ Named

(***************************************************************************)
(* Peer: sequences of frames.                                              *)
(***************************************************************************)
LEMMA PeerNumbers == Peer!None = 0 /\ 0 \notin Conns /\ 0 \notin Tasks /\ Conns \subseteq Int /\ Tasks \subseteq Int
BY DEF Peer!None, Conns, Tasks, Peer!Conns, Peer!Tasks

LEMMA NoFrames == <<>> \in Seq(FrameType) /\ OnceIn(<<>>) /\ \A k : Of(k, <<>>) = {}
BY DEF Of, OnceIn

LEMMA OneMore ==
  ASSUME NEW s \in Seq(FrameType), NEW f \in FrameType
  PROVE  /\ Append(s, f) \in Seq(FrameType)
         /\ \A k : Of(k, Append(s, f)) = Of(k, s) \cup {t \in {f.task} : f.kind = k}
         /\ OnceIn(s) /\ (f.kind = "task" => f.task \notin Of("task", s)) => OnceIn(Append(s, f))
<1> DEFINE a == Append(s, f)
<1>1. a \in Seq(FrameType) /\ Len(a) = Len(s) + 1 /\ Len(s) \in Nat /\ a[Len(s) + 1] = f
      /\ \A i \in 1 .. Len(s) : a[i] = s[i]
  OBVIOUS
<1> HIDE DEF a
<1>2. 1 .. Len(a) = 1 .. Len(s) \cup {Len(s) + 1}
  BY <1>1
<1>3. ASSUME NEW k PROVE Of(k, a) = Of(k, s) \cup {t \in {f.task} : f.kind = k}
  <2>1. {j \in 1 .. Len(a) : a[j].kind = k} = {j \in 1 .. Len(s) : s[j].kind = k} \cup {j \in {Len(s) + 1} : f.kind = k}
    BY <1>1, <1>2
  <2> QED BY <1>1, <2>1 DEF Of
<1>4. OnceIn(s) /\ (f.kind = "task" => f.task \notin Of("task", s)) => OnceIn(a)
  BY <1>1, <1>2 DEF OnceIn, Of
<1> QED BY <1>1, <1>3, <1>4 DEF a

LEMMA OneLess ==
  ASSUME NEW s \in Seq(FrameType), s # <<>>
  PROVE  /\ Head(s) \in FrameType /\ Tail(s) \in Seq(FrameType)
         /\ \A k : Of(k, Tail(s)) \subseteq Of(k, s) /\ (Head(s).kind = k => Head(s).task \in Of(k, s))
         /\ OnceIn(s) => OnceIn(Tail(s)) /\ (Head(s).kind = "task" => Head(s).task \notin Of("task", Tail(s)))
<1> DEFINE a == Tail(s)
           h == Head(s)
<1>1. a \in Seq(FrameType) /\ h \in FrameType /\ Len(a) \in Nat /\ Len(s) = Len(a) + 1 /\ h = s[1]
      /\ \A i \in 1 .. Len(a) : a[i] = s[i + 1]
  OBVIOUS
<1> HIDE DEF a, h
<1>2. \A i \in 1 .. Len(a) : i + 1 \in 1 .. Len(s) /\ i + 1 # 1
  BY <1>1
<1>3. 1 \in 1 .. Len(s)
  BY <1>1
<1>4. \A k : Of(k, a) \subseteq Of(k, s) /\ (h.kind = k => h.task \in Of(k, s))
  <2> SUFFICES ASSUME NEW k PROVE Of(k, a) \subseteq Of(k, s) /\ (h.kind = k => h.task \in Of(k, s))
    OBVIOUS
  <2>1. Of(k, a) \subseteq Of(k, s)
    BY <1>1, <1>2 DEF Of
  <2>2. h.kind = k => h.task \in Of(k, s)
    BY <1>1, <1>3 DEF Of
  <2> QED BY <2>1, <2>2
<1>5. OnceIn(s) => OnceIn(a) /\ (h.kind = "task" => h.task \notin Of("task", a))
  <2>1. OnceIn(s) => OnceIn(a)
    BY <1>1, <1>2 DEF OnceIn
  <2>2. OnceIn(s) /\ h.kind = "task" => h.task \notin Of("task", a)
    BY <1>1, <1>2, <1>3 DEF OnceIn, Of
  <2> QED BY <2>1, <2>2
<1> QED BY <1>1, <1>4, <1>5 DEF a, h

LEMMA PeersInit == Peer!Init => PeersIInv
<1> SUFFICES ASSUME Peer!Init PROVE PeersIInv
  OBVIOUS
<1>1. /\ peer = 0 /\ put = [c \in Conns |-> {}] /\ call = {} /\ past = [overtook |-> FALSE, late |-> FALSE]
      /\ conn = [c \in Conns |-> [hub |-> "none", worker |-> "none", cut |-> FALSE, up |-> <<>>, down |-> <<>>]]
      /\ task = [t \in Tasks |-> [step |-> "none", on |-> 0, chan |-> 0]]
      /\ work = [t \in Tasks |-> [step |-> "none", on |-> 0]]
  BY PeerNumbers DEF Peer!Init, Conns, Tasks
<1>2. PeerTypes
  <2>1. conn \in [Conns -> ConnType]
    <3>1. [hub |-> "none", worker |-> "none", cut |-> FALSE, up |-> <<>>, down |-> <<>>] \in ConnType
      BY DEF ConnType
    <3> QED BY <1>1, <3>1
  <2>2. task \in [Tasks -> TaskType] /\ work \in [Tasks -> WorkType] /\ put \in [Conns -> SUBSET Tasks]
    BY <1>1 DEF TaskType, WorkType
  <2>3. past \in PastType /\ call \in SUBSET CallType /\ peer \in Conns \cup {0}
    BY <1>1 DEF PastType
  <2> QED BY <2>1, <2>2, <2>3 DEF PeerTypes
<1>3. /\ \A c \in Conns : conn[c].hub = "none" /\ conn[c].up = <<>> /\ conn[c].down = <<>> /\ put[c] = {}
      /\ \A t \in Tasks : task[t].step = "none" /\ task[t].chan = 0 /\ work[t].step = "none"
  BY <1>1
<1>4. ResultsReal /\ GivenOnce
  BY <1>3, NoFrames DEF ResultsReal, GivenOnce, Unsent, Unread
<1>5. Somewhere /\ Named
  BY <1>3 DEF Somewhere, Named
<1> QED BY <1>2, <1>4, <1>5 DEF PeersIInv

(***************************************************************************)
(* Peer: the steps.                                                        *)
(***************************************************************************)
\* No result comes about but by a task's end, and each is passed on along its way.
LEMMA ResultsStay ==
  ASSUME ResultsReal, Finished \subseteq Finished',
         \A c \in Conns : /\ Of("result", conn'[c].up) \subseteq Of("result", conn[c].up) \cup Finished'
                          /\ put'[c] \subseteq put[c] \cup Of("result", conn[c].up),
         \A t \in Tasks : task'[t].step = "answered" \/ task'[t].chan = 1 =>
                            task[t].step = "answered" \/ task[t].chan = 1 \/ t \in Finished
  PROVE  ResultsReal'
BY DEF ResultsReal

\* No task is written, and those under way stay unread.
LEMMA GivenStays ==
  ASSUME GivenOnce, Unsent' \subseteq Unsent, Unread' = Unread,
         \A c \in Conns : /\ Of("task", conn'[c].down) \subseteq Of("task", conn[c].down)
                          /\ OnceIn(conn[c].down) => OnceIn(conn'[c].down)
  PROVE  GivenOnce'
BY DEF GivenOnce

\* The fields of one connection are set.
LEMMA ConnSets ==
  ASSUME PeerTypes, NEW c \in Conns, NEW r \in ConnType, conn' = [conn EXCEPT ![c] = r]
  PROVE  conn' \in [Conns -> ConnType] /\ \A d \in Conns : conn'[d] = IF d = c THEN r ELSE conn[d]
BY DEF PeerTypes

LEMMA Writes ==
  ASSUME PeerTypes, NEW c \in Conns, NEW f \in FrameType
  PROVE  /\ Peer!SendUp(c, f) =>
              /\ conn' \in [Conns -> ConnType]
              /\ \A d \in Conns : /\ conn'[d].hub = conn[d].hub /\ conn'[d].down = conn[d].down
                                  /\ conn'[d].up = conn[d].up \/ (d = c /\ conn'[d].up = Append(conn[d].up, f))
         /\ Peer!SendDown(c, f) =>
              /\ conn' \in [Conns -> ConnType]
              /\ \A d \in Conns : /\ conn'[d].hub = conn[d].hub /\ conn'[d].up = conn[d].up
                                  /\ conn'[d].down = conn[d].down \/ (d = c /\ conn'[d].down = Append(conn[d].down, f))
<1>1. conn[c] \in ConnType /\ conn[c].up \in Seq(FrameType) /\ conn[c].down \in Seq(FrameType)
  BY DEF PeerTypes, ConnType
<1>2. Append(conn[c].up, f) \in Seq(FrameType) /\ Append(conn[c].down, f) \in Seq(FrameType)
  BY <1>1
<1>3. CASE conn[c].cut
  BY <1>3 DEF Peer!SendUp, Peer!SendDown, PeerTypes
<1>4. CASE ~conn[c].cut
  <2>0. PICK s \in Seq(FrameType), p \in Seq(FrameType) : s = Append(conn[c].up, f) /\ p = Append(conn[c].down, f)
    BY <1>2
  <2> DEFINE u == [conn[c] EXCEPT !.up = s]
             v == [conn[c] EXCEPT !.down = p]
  <2>1. u \in ConnType /\ u.hub = conn[c].hub /\ u.down = conn[c].down /\ u.up = s
    BY <1>1 DEF ConnType
  <2>2. v \in ConnType /\ v.hub = conn[c].hub /\ v.up = conn[c].up /\ v.down = p
    BY <1>1 DEF ConnType
  <2>3. /\ Peer!SendUp(c, f) => conn' = [conn EXCEPT ![c] = u]
        /\ Peer!SendDown(c, f) => conn' = [conn EXCEPT ![c] = v]
    BY <1>4, <2>0 DEF Peer!SendUp, Peer!SendDown, PeerTypes
  <2> HIDE DEF u, v
  <2>4. \A r \in ConnType : conn' = [conn EXCEPT ![c] = r] =>
          conn' \in [Conns -> ConnType] /\ \A d \in Conns : conn'[d] = IF d = c THEN r ELSE conn[d]
    BY ConnSets
  <2> QED BY <2>0, <2>1, <2>2, <2>3, <2>4
<1> QED BY <1>3, <1>4

\* What Of and OnceIn say of the frames of every connection.
LEMMA ConnFrames ==
  ASSUME PeerTypes, NEW c \in Conns
  PROVE  conn[c] \in ConnType /\ conn[c].up \in Seq(FrameType) /\ conn[c].down \in Seq(FrameType)
BY DEF PeerTypes, ConnType

LEMMA HubStep == ASSUME PeersIInv, NEW c \in Conns, Peer!Hub(c) PROVE PeersIInv'
<1> USE PeerNumbers
<1>0. PeerTypes /\ ResultsReal /\ GivenOnce /\ Somewhere /\ Named
  BY DEF PeersIInv
<1>1. conn[c] \in ConnType /\ conn[c].up \in Seq(FrameType) /\ conn[c].down \in Seq(FrameType)
  BY <1>0, ConnFrames
<1>2. CASE Peer!Hello(c)
  <2> DEFINE r == [conn[c] EXCEPT !.hub = "serving"]
  <2>1. /\ conn' = [conn EXCEPT ![c] = r] /\ peer' = c /\ UNCHANGED <<put, task, work, call>>
        /\ past' = [past EXCEPT !.overtook = @ \/ \E b \in Conns : conn[b].hub = "serving"]
    BY <1>2, <1>0 DEF Peer!Hello, Peer!register, Conns, PeerTypes
  <2>2. r \in ConnType /\ r.hub = "serving" /\ r.up = conn[c].up /\ r.down = conn[c].down
    BY <1>1 DEF ConnType
  <2> HIDE DEF r
  <2>3. conn' \in [Conns -> ConnType] /\ \A d \in Conns : conn'[d] = IF d = c THEN r ELSE conn[d]
    BY <1>0, <2>1, <2>2, ConnSets
  <2>4. past' \in PastType /\ (~past'.overtook => ~past.overtook /\ \A b \in Conns : conn[b].hub # "serving")
    BY <1>0, <2>1 DEF PeerTypes, PastType
  <2>5. PeerTypes'
    BY <1>0, <2>1, <2>3, <2>4 DEF PeerTypes
  <2>6. Finished' = Finished /\ Unread' = Unread /\ Unsent' = Unsent
    BY <2>1 DEF Finished, Unread, Unsent
  <2>7. ResultsReal' /\ GivenOnce'
    BY <1>0, <2>1, <2>2, <2>3, <2>6 DEF ResultsReal, GivenOnce
  <2>8. Somewhere' /\ Named'
    BY <1>0, <2>1, <2>3, <2>4 DEF Somewhere, Named
  <2> QED BY <2>5, <2>7, <2>8 DEF PeersIInv
<1>3. CASE Peer!HubReads(c)
  <2> DEFINE f == Head(conn[c].up)
             r == [conn[c] EXCEPT !.up = Tail(conn[c].up)]
  <2>1. /\ conn[c].up # <<>> /\ conn' = [conn EXCEPT ![c] = r] /\ UNCHANGED <<peer, task, work, past>>
        /\ put' = IF f.kind = "result" THEN [put EXCEPT ![c] = Peer!Pending(c, f.task)] ELSE put
        /\ call' = IF f.kind = "side" THEN call \cup {[task |-> f.task, on |-> c, step |-> "look"]} ELSE call
    BY <1>3, <1>0 DEF Peer!HubReads, PeerTypes
  <2>2. f \in FrameType /\ f.task \in Tasks /\ Tail(conn[c].up) \in Seq(FrameType)
    BY <1>1, <2>1, OneLess DEF FrameType
  <2>3. r \in ConnType /\ r.hub = conn[c].hub /\ r.up = Tail(conn[c].up) /\ r.down = conn[c].down
    BY <1>1, <2>2 DEF ConnType
  <2>4. Of("result", r.up) \subseteq Of("result", conn[c].up) /\ (f.kind = "result" => f.task \in Of("result", conn[c].up))
    BY <1>1, <2>1, <2>3, OneLess
  <2>5. Peer!Pending(c, f.task) \subseteq {f.task}
    BY DEF Peer!Pending
  <2> HIDE DEF r, f
  <2>6. conn' \in [Conns -> ConnType] /\ \A d \in Conns : conn'[d] = IF d = c THEN r ELSE conn[d]
    BY <1>0, <2>1, <2>3, ConnSets
  <2>7. PeerTypes'
    <3>1. put' \in [Conns -> SUBSET Tasks]
      BY <1>0, <2>1, <2>2, <2>5 DEF PeerTypes
    <3>2. [task |-> f.task, on |-> c, step |-> "look"] \in CallType
      BY <2>2 DEF CallType
    <3> QED BY <1>0, <2>1, <2>6, <3>1, <3>2 DEF PeerTypes
  <2>8. Finished' = Finished /\ Unread' = Unread /\ Unsent' = Unsent
    BY <2>1 DEF Finished, Unread, Unsent
  <2>9. ResultsReal'
    <3>1. \A d \in Conns : put'[d] \subseteq put[d] \cup Of("result", conn[d].up)
      BY <1>0, <2>1, <2>4, <2>5 DEF PeerTypes
    <3> QED BY <1>0, <2>1, <2>4, <2>6, <2>8, <3>1, ResultsStay
  <2>10. GivenOnce'
    BY <1>0, <2>3, <2>6, <2>8, GivenStays
  <2>11. Somewhere' /\ Named'
    BY <1>0, <2>1, <2>3, <2>6 DEF Somewhere, Named
  <2> QED BY <2>7, <2>9, <2>10, <2>11 DEF PeersIInv
<1>4. CASE Peer!HubPuts(c)
  <2>1. PICK t \in put[c] : Peer!HasRoom(t) /\ task' = [task EXCEPT ![t].chan = @ + 1]
    BY <1>4 DEF Peer!HubPuts
  <2>2. put' = [put EXCEPT ![c] = {}] /\ UNCHANGED <<peer, conn, work, call, past>>
    BY <1>4 DEF Peer!HubPuts
  <2>3. t \in Tasks /\ t \in Finished /\ task[t].chan = 0
    BY <1>0, <2>1 DEF PeerTypes, ResultsReal, Peer!HasRoom
  <2>4. /\ task' \in [Tasks -> TaskType]
        /\ \A u \in Tasks : /\ task'[u].step = task[u].step /\ task'[u].on = task[u].on
                            /\ u # t => task'[u].chan = task[u].chan
    BY <1>0, <2>1, <2>3 DEF PeerTypes, TaskType
  <2>5. put' \in [Conns -> SUBSET Tasks] /\ \A d \in Conns : put'[d] \subseteq put[d]
    BY <1>0, <2>2 DEF PeerTypes
  <2>6. PeerTypes'
    BY <1>0, <2>2, <2>4, <2>5 DEF PeerTypes
  <2>7. Finished' = Finished /\ Unread' = Unread /\ Unsent' = Unsent
    BY <2>2, <2>4 DEF Finished, Unread, Unsent
  <2>8. ResultsReal'
    BY <1>0, <2>2, <2>3, <2>4, <2>5, <2>7, ResultsStay
  <2>9. GivenOnce'
    BY <1>0, <2>2, <2>7 DEF GivenOnce
  <2>10. Somewhere' /\ Named'
    BY <1>0, <2>2, <2>4 DEF Somewhere, Named
  <2> QED BY <2>6, <2>8, <2>9, <2>10 DEF PeersIInv
<1>5. CASE Peer!HubEnds(c)
  <2> DEFINE r == [conn[c] EXCEPT !.hub = "gone", !.up = <<>>]
  <2>1. /\ conn' = [conn EXCEPT ![c] = r] /\ UNCHANGED <<put, task, work, call, past>>
        /\ (conn[c].hub = "new" /\ peer' = peer) \/ (conn[c].hub = "serving" /\ peer' = 0)
    BY <1>5, <1>0 DEF Peer!HubEnds, Peer!unregister, PeerTypes
  <2>2. r \in ConnType /\ r.hub = "gone" /\ r.up = <<>> /\ r.down = conn[c].down
    <3>1. \A x \in ConnType, s \in Seq(FrameType) :
            LET e == [x EXCEPT !.hub = "gone", !.up = s] IN e \in ConnType /\ e.hub = "gone" /\ e.up = s /\ e.down = x.down
      BY DEF ConnType
    <3> QED BY <1>1, <3>1, NoFrames
  <2> HIDE DEF r
  <2>3. conn' \in [Conns -> ConnType] /\ \A d \in Conns : conn'[d] = IF d = c THEN r ELSE conn[d]
    BY <1>0, <2>1, <2>2, ConnSets
  <2>4. PeerTypes'
    BY <1>0, <2>1, <2>3 DEF PeerTypes
  <2>5. Finished' = Finished /\ Unread' = Unread /\ Unsent' = Unsent
    BY <2>1 DEF Finished, Unread, Unsent
  <2>6. ResultsReal'
    BY <1>0, <2>1, <2>2, <2>3, <2>5, NoFrames DEF ResultsReal
  <2>7. GivenOnce'
    BY <1>0, <2>2, <2>3, <2>5, GivenStays
  <2>8. Somewhere' /\ Named'
    BY <1>0, <2>1, <2>2, <2>3 DEF Somewhere, Named
  <2> QED BY <2>4, <2>6, <2>7, <2>8 DEF PeersIInv
<1> QED BY <1>2, <1>3, <1>4, <1>5 DEF Peer!Hub

LEMMA SideStep == ASSUME PeersIInv, NEW x \in call, Peer!Side(x) PROVE PeersIInv'
<1> USE PeerNumbers
<1>0. PeerTypes /\ ResultsReal /\ GivenOnce /\ Somewhere /\ Named
  BY DEF PeersIInv
<1>1. x \in CallType /\ x.task \in Tasks /\ x.on \in Conns
  BY <1>0 DEF PeerTypes, CallType
<1>2. UNCHANGED <<peer, put, task, work>>
  BY DEF Peer!Side, Peer!LooksUp, Peer!RunsSide, Peer!AnswersSide
<1>3. Finished' = Finished /\ Unread' = Unread /\ Unsent' = Unsent
  BY <1>2 DEF Finished, Unread, Unsent
<1>4. /\ call' \in SUBSET CallType
      /\ past' \in PastType /\ past'.overtook = past.overtook
  <2>1. \A s \in {"look", "run", "answer"} : [x EXCEPT !.step = s] \in CallType
    BY <1>1 DEF CallType
  <2>2. CASE Peer!LooksUp(x)
    BY <1>0, <2>1, <2>2 DEF Peer!LooksUp, PeerTypes
  <2>3. CASE Peer!RunsSide(x)
    BY <1>0, <2>1, <2>3 DEF Peer!RunsSide, PeerTypes, PastType
  <2>4. CASE Peer!AnswersSide(x)
    BY <1>0, <2>4 DEF Peer!AnswersSide, PeerTypes
  <2> QED BY <2>2, <2>3, <2>4 DEF Peer!Side
<1>5. /\ conn' \in [Conns -> ConnType]
      /\ \A d \in Conns : /\ conn'[d].hub = conn[d].hub /\ conn'[d].up = conn[d].up
                          /\ Of("task", conn'[d].down) \subseteq Of("task", conn[d].down)
                          /\ OnceIn(conn[d].down) => OnceIn(conn'[d].down)
  <2>1. CASE conn' = conn
    BY <1>0, <2>1 DEF PeerTypes
  <2>2. CASE Peer!AnswersSide(x)
    <3> DEFINE f == [kind |-> "side", task |-> x.task]
    <3>1. f \in FrameType /\ f.kind = "side" /\ Peer!SendDown(x.on, f)
      BY <1>1, <2>2 DEF Peer!AnswersSide, Peer!Frame, FrameType
    <3> HIDE DEF f
    <3>2. /\ conn' \in [Conns -> ConnType]
          /\ \A d \in Conns : /\ conn'[d].hub = conn[d].hub /\ conn'[d].up = conn[d].up
                              /\ conn'[d].down = conn[d].down \/ (d = x.on /\ conn'[d].down = Append(conn[d].down, f))
      BY <1>0, <1>1, <3>1, Writes
    <3>3. \A d \in Conns : conn[d].down \in Seq(FrameType)
      BY <1>0, ConnFrames
    <3>4. \A s \in Seq(FrameType) : Of("task", Append(s, f)) \subseteq Of("task", s) /\ (OnceIn(s) => OnceIn(Append(s, f)))
      BY <3>1, OneMore
    <3> QED BY <3>2, <3>3, <3>4
  <2> QED BY <2>1, <2>2 DEF Peer!Side, Peer!LooksUp, Peer!RunsSide
<1>6. PeerTypes'
  BY <1>0, <1>2, <1>4, <1>5 DEF PeerTypes
<1>7. ResultsReal'
  BY <1>0, <1>2, <1>3, <1>5, ResultsStay
<1>8. GivenOnce'
  BY <1>0, <1>3, <1>5, GivenStays
<1>9. Somewhere' /\ Named'
  BY <1>0, <1>2, <1>4, <1>5 DEF Somewhere, Named
<1> QED BY <1>6, <1>7, <1>8, <1>9 DEF PeersIInv

LEMMA DispatchStep ==
  ASSUME PeersIInv, NEW t \in Tasks, Peer!Dispatch(t) \/ Peer!Waits(t) \/ Peer!GivesUp(t)
  PROVE  PeersIInv'
<1> USE PeerNumbers
<1>0. PeerTypes /\ ResultsReal /\ GivenOnce /\ Somewhere /\ Named
  BY DEF PeersIInv
<1>1. UNCHANGED <<peer, put, work, call, past>>
  BY DEF Peer!Dispatch, Peer!Waits, Peer!GivesUp, Peer!SendsTask, Peer!Receives
<1>2. Finished' = Finished /\ Unread' = Unread
  BY <1>1 DEF Finished, Unread
<1>3. \A d \in Conns : conn[d].up \in Seq(FrameType) /\ conn[d].down \in Seq(FrameType)
  BY <1>0, ConnFrames
<1>4. ASSUME conn' = conn, task' \in [Tasks -> TaskType],
             \A u \in Tasks \ {t} : task'[u] = task[u],
             t \in Unsent' => t \in Unsent,
             task'[t].step \notin {"none", "refused"} => task'[t].on \in Conns,
             task'[t].step = "answered" \/ task'[t].chan = 1 => task[t].step = "answered" \/ task[t].chan = 1 \/ t \in Finished
      PROVE  PeersIInv'
  <2>1. PeerTypes' /\ Somewhere' /\ Named'
    BY <1>0, <1>1, <1>4 DEF PeerTypes, Somewhere, Named
  <2>2. Unsent' \subseteq Unsent
    BY <1>4 DEF Unsent
  <2>3. ResultsReal'
    BY <1>0, <1>1, <1>2, <1>4, ResultsStay
  <2>4. GivenOnce'
    BY <1>0, <1>2, <1>4, <2>2, GivenStays
  <2> QED BY <2>1, <2>3, <2>4 DEF PeersIInv
<1>5. CASE Peer!Dispatch(t)
  <2> DEFINE s == IF peer = 0 THEN "refused" ELSE "sending"
  <2>1. task[t].step = "none" /\ task' = [task EXCEPT ![t].step = s, ![t].on = peer] /\ conn' = conn
    BY <1>5 DEF Peer!Dispatch
  <2>2. s \in {"refused", "sending"} /\ (s # "refused" => peer \in Conns)
    BY <1>0 DEF PeerTypes
  <2> HIDE DEF s
  <2>3. /\ task' \in [Tasks -> TaskType] /\ \A u \in Tasks \ {t} : task'[u] = task[u]
        /\ task'[t].step = s /\ task'[t].on = peer /\ task'[t].chan = task[t].chan
    BY <1>0, <2>1, <2>2 DEF PeerTypes, TaskType
  <2>4. t \in Unsent
    BY <2>1 DEF Unsent
  <2> QED BY <1>4, <2>1, <2>2, <2>3, <2>4
<1>6. CASE Peer!SendsTask(t, TRUE) \/ Peer!GivesUp(t)
  <2>1. task[t].step \in {"sending", "waiting"} /\ task' = [task EXCEPT ![t].step = "failed"] /\ conn' = conn
    BY <1>6 DEF Peer!SendsTask, Peer!GivesUp
  <2>2. /\ task' \in [Tasks -> TaskType] /\ \A u \in Tasks \ {t} : task'[u] = task[u]
        /\ task'[t].step = "failed" /\ task'[t].on = task[t].on /\ task'[t].chan = task[t].chan
    BY <1>0, <2>1 DEF PeerTypes, TaskType
  <2>3. t \notin Unsent' /\ task[t].on \in Conns
    BY <1>0, <2>1, <2>2 DEF Unsent, Somewhere
  <2> QED BY <1>4, <2>1, <2>2, <2>3
<1>7. CASE Peer!Receives(t)
  <2>1. task[t].step = "waiting" /\ task[t].chan > 0 /\ conn' = conn
        /\ task' = [task EXCEPT ![t].step = "answered", ![t].chan = @ - 1]
    BY <1>7 DEF Peer!Receives
  <2>2. task[t].chan = 1 /\ task[t].on \in Conns
    BY <1>0, <2>1 DEF PeerTypes, TaskType, Somewhere
  <2>3. /\ task' \in [Tasks -> TaskType] /\ \A u \in Tasks \ {t} : task'[u] = task[u]
        /\ task'[t].step = "answered" /\ task'[t].on = task[t].on
    BY <1>0, <2>1, <2>2 DEF PeerTypes, TaskType
  <2>4. t \notin Unsent'
    BY <2>3 DEF Unsent
  <2> QED BY <1>4, <2>1, <2>2, <2>3, <2>4
<1>8. CASE Peer!SendsTask(t, FALSE)
  <2> DEFINE f == [kind |-> "task", task |-> t]
             c == task[t].on
  <2>1. /\ task[t].step = "sending" /\ task' = [task EXCEPT ![t].step = "waiting"] /\ Peer!SendDown(c, f)
    BY <1>8 DEF Peer!SendsTask, Peer!Frame
  <2>2. c \in Conns /\ t \in Unsent
    BY <1>0, <2>1 DEF Somewhere, Unsent
  <2>3. f \in FrameType /\ f.kind = "task" /\ f.task = t
    BY DEF FrameType
  <2> HIDE DEF f
  <2>4. /\ task' \in [Tasks -> TaskType]
        /\ \A u \in Tasks : /\ task'[u].on = task[u].on /\ task'[u].chan = task[u].chan
                            /\ task'[u].step = IF u = t THEN "waiting" ELSE task[u].step
    BY <1>0, <2>1 DEF PeerTypes, TaskType
  <2> HIDE DEF c
  <2>5. /\ conn' \in [Conns -> ConnType]
        /\ \A d \in Conns : /\ conn'[d].hub = conn[d].hub /\ conn'[d].up = conn[d].up
                            /\ conn'[d].down = conn[d].down \/ (d = c /\ conn'[d].down = Append(conn[d].down, f))
    BY <1>0, <2>1, <2>2, <2>3, Writes
  <2>6. PeerTypes' /\ Somewhere' /\ Named'
    <3>1. PeerTypes'
      BY <1>0, <1>1, <2>4, <2>5 DEF PeerTypes
    <3>2. Somewhere'
      BY <1>0, <1>1, <2>1, <2>4 DEF Somewhere
    <3> QED BY <1>0, <1>1, <2>5, <3>1, <3>2 DEF Named
  <2>7. Unsent' = Unsent \ {t}
    BY <2>4 DEF Unsent
  <2>8. \A s \in Seq(FrameType) : /\ Of("task", Append(s, f)) \subseteq Of("task", s) \cup {t}
                                  /\ OnceIn(s) /\ t \notin Of("task", s) => OnceIn(Append(s, f))
    BY <2>3, OneMore
  <2>9. \A d \in Conns : t \notin Of("task", conn[d].down)
    BY <1>0, <2>2 DEF GivenOnce
  <2>10. \A d \in Conns : /\ Of("task", conn'[d].down) \subseteq Of("task", conn[d].down) \cup {u \in {t} : d = c}
                          /\ OnceIn(conn'[d].down)
    BY <1>0, <1>3, <2>5, <2>8, <2>9 DEF GivenOnce
  <2>11. GivenOnce'
    BY <1>0, <1>2, <2>2, <2>7, <2>9, <2>10 DEF GivenOnce
  <2>12. ResultsReal'
    BY <1>0, <1>1, <1>2, <2>4, <2>5, ResultsStay
  <2> QED BY <2>6, <2>11, <2>12 DEF PeersIInv
<1> QED BY <1>5, <1>6, <1>7, <1>8 DEF Peer!Waits

LEMMA WorkerStep ==
  ASSUME PeersIInv, NEW c \in Conns, Peer!Worker(c) \/ Peer!DialsAgain(c) \/ Peer!WorkerDies(c) \/ Peer!Breaks(c)
  PROVE  PeersIInv'
<1> USE PeerNumbers
<1>0. PeerTypes /\ ResultsReal /\ GivenOnce /\ Somewhere /\ Named
  BY DEF PeersIInv
<1>1. conn[c] \in ConnType /\ conn[c].up \in Seq(FrameType) /\ conn[c].down \in Seq(FrameType)
  BY <1>0, ConnFrames
<1>2. UNCHANGED <<peer, put, task, call, past>> /\ Unsent' = Unsent
  BY DEF Unsent, Peer!Worker, Peer!WorkerReads, Peer!WorkerEnds, Peer!DialsAgain, Peer!WorkerDies, Peer!Breaks
\* One end of the connection changes; work may begin, go on or die.
<1>3. ASSUME NEW r \in ConnType, conn' = [conn EXCEPT ![c] = r], r.hub # "serving" \/ r.hub = conn[c].hub, r.up = conn[c].up,
             Of("task", r.down) \subseteq Of("task", conn[c].down), OnceIn(r.down), work' \in [Tasks -> WorkType],
             \A t \in Tasks : /\ work'[t].step # "none" => work'[t].on \in Conns
                              /\ t \in Finished => t \in Finished'
                              /\ t \in Unread \ (Of("task", conn[c].down) \ Of("task", r.down)) => t \in Unread'
      PROVE  PeersIInv'
  <2>1. conn' \in [Conns -> ConnType] /\ \A d \in Conns : conn'[d] = IF d = c THEN r ELSE conn[d]
    BY <1>0, <1>3, ConnSets
  <2>2. PeerTypes'
    BY <1>0, <1>2, <1>3, <2>1 DEF PeerTypes
  <2>3. ResultsReal'
    <3>1. Finished \subseteq Finished'
      BY <1>3 DEF Finished
    <3> QED BY <1>0, <1>2, <1>3, <2>1, <3>1, ResultsStay
  <2>4. GivenOnce'
    <3>1. Unsent \subseteq Unread \ Of("task", conn[c].down)
      BY <1>0 DEF GivenOnce
    <3>2. Unsent \subseteq Tasks /\ Unread \subseteq Tasks
      BY DEF Unsent, Unread
    <3>3. Unsent' \subseteq Unread'
      BY <1>2, <1>3, <3>1, <3>2
    <3>4. \A d \in Conns : Of("task", conn'[d].down) \subseteq Of("task", conn[d].down)
      BY <1>3, <2>1
    <3>5. \A d \in Conns : Of("task", conn'[d].down) \subseteq Unread' \ Unsent'
      <4> SUFFICES ASSUME NEW d \in Conns, NEW t \in Of("task", conn'[d].down) PROVE t \in Unread' \ Unsent'
        OBVIOUS
      <4>1. t \in Of("task", conn[d].down) /\ t \in Unread \ Unsent /\ t \in Tasks
        BY <1>0, <3>2, <3>4 DEF GivenOnce
      <4>2. t \notin Of("task", conn[c].down) \ Of("task", r.down)
        BY <1>0, <2>1, <4>1 DEF GivenOnce
      <4> QED BY <1>2, <1>3, <4>1, <4>2
    <3>6. \A d \in Conns : OnceIn(conn'[d].down)
      BY <1>0, <1>3, <2>1 DEF GivenOnce
    <3>7. \A d, e \in Conns : d # e => Of("task", conn'[d].down) \cap Of("task", conn'[e].down) = {}
      BY <1>0, <3>4 DEF GivenOnce
    <3> QED BY <3>3, <3>5, <3>6, <3>7 DEF GivenOnce
  <2>5. Somewhere' /\ Named'
    BY <1>0, <1>2, <1>3, <2>1 DEF Somewhere, Named
  <2> QED BY <2>2, <2>3, <2>4, <2>5 DEF PeersIInv
<1>4. work \in [Tasks -> WorkType] /\ \A t \in Tasks : work[t].step # "none" => work[t].on \in Conns
  BY <1>0 DEF PeerTypes, Somewhere
<1>5. OnceIn(conn[c].down) /\ Of("task", conn[c].down) \subseteq Unread /\ Unread \subseteq Tasks
  BY <1>0 DEF GivenOnce, Unread
<1>6. ASSUME work' = work PROVE Finished' = Finished /\ Unread' = Unread
  BY <1>6 DEF Finished, Unread
<1>7. CASE Peer!DialsAgain(c) \/ Peer!Breaks(c)
  <2> DEFINE r == IF Peer!Breaks(c) THEN [conn[c] EXCEPT !.cut = TRUE]
                  ELSE [conn[c] EXCEPT !.worker = "serving", !.hub = "new"]
  <2>1. conn' = [conn EXCEPT ![c] = r] /\ work' = work
    BY <1>0, <1>7 DEF Peer!DialsAgain, Peer!Breaks, PeerTypes
  <2>2. r \in ConnType /\ (r.hub # "serving" \/ r.hub = conn[c].hub) /\ r.up = conn[c].up /\ r.down = conn[c].down
    BY <1>1 DEF ConnType
  <2> HIDE DEF r
  <2> QED BY <1>3, <1>4, <1>5, <1>6, <2>1, <2>2
<1>8. CASE Peer!WorkerEnds(c) \/ Peer!WorkerDies(c)
  <2> DEFINE r == IF Peer!WorkerEnds(c) THEN [conn[c] EXCEPT !.worker = "gone", !.down = <<>>]
                  ELSE [conn[c] EXCEPT !.worker = "gone", !.cut = TRUE, !.down = <<>>]
  <2>1. conn' = [conn EXCEPT ![c] = r]
    BY <1>0, <1>8 DEF Peer!WorkerEnds, Peer!WorkerDies, PeerTypes
  <2>2. r \in ConnType /\ r.hub = conn[c].hub /\ r.up = conn[c].up /\ r.down = <<>>
    <3>1. \A x \in ConnType, s \in Seq(FrameType) :
            /\ LET e == [x EXCEPT !.worker = "gone", !.down = s] IN e \in ConnType /\ e.hub = x.hub /\ e.up = x.up /\ e.down = s
            /\ LET e == [x EXCEPT !.worker = "gone", !.cut = TRUE, !.down = s]
               IN  e \in ConnType /\ e.hub = x.hub /\ e.up = x.up /\ e.down = s
      BY DEF ConnType
    <3> QED BY <1>1, <3>1, NoFrames
  <2> HIDE DEF r
  <2>3. /\ work' \in [Tasks -> WorkType]
        /\ \A t \in Tasks : work'[t].on = work[t].on /\ work'[t].step \in {work[t].step, "dead"}
                            /\ (work[t].step = "none" <=> work'[t].step = "none")
    <3>1. CASE Peer!WorkerEnds(c)
      BY <1>4, <3>1 DEF Peer!WorkerEnds
    <3>2. CASE Peer!WorkerDies(c)
      <4>1. work' = [t \in Tasks |-> IF work[t].step = "none" THEN work[t] ELSE [work[t] EXCEPT !.step = "dead"]]
        BY <3>2 DEF Peer!WorkerDies, Tasks
      <4>2. \A w \in WorkType : LET e == [w EXCEPT !.step = "dead"] IN e \in WorkType /\ e.step = "dead" /\ e.on = w.on
        BY DEF WorkType
      <4> QED BY <1>4, <4>1, <4>2
    <3> QED BY <1>8, <3>1, <3>2
  <2>4. \A t \in Tasks : (t \in Finished => t \in Finished') /\ (t \in Unread => t \in Unread')
    BY <2>3 DEF Finished, Unread
  <2>5. Of("task", r.down) = {} /\ OnceIn(r.down)
    BY <2>2, NoFrames
  <2> QED BY <1>3, <1>4, <2>1, <2>2, <2>3, <2>4, <2>5
<1>9. CASE Peer!WorkerReads(c)
  <2> DEFINE f == Head(conn[c].down)
             r == [conn[c] EXCEPT !.down = Tail(conn[c].down)]
  <2>1. conn[c].down # <<>> /\ conn' = [conn EXCEPT ![c] = r]
    BY <1>0, <1>9 DEF Peer!WorkerReads, PeerTypes
  <2>2. f \in FrameType /\ f.task \in Tasks /\ Tail(conn[c].down) \in Seq(FrameType)
    BY <1>1, <2>1, OneLess DEF FrameType
  <2>3. r \in ConnType /\ r.hub = conn[c].hub /\ r.up = conn[c].up /\ r.down = Tail(conn[c].down)
    BY <1>1, <2>2 DEF ConnType
  <2>4. /\ Of("task", r.down) \subseteq Of("task", conn[c].down) /\ OnceIn(r.down)
        /\ f.kind = "task" => f.task \in Of("task", conn[c].down) \ Of("task", r.down)
    BY <1>1, <1>5, <2>1, <2>3, OneLess
  <2>5. work' = CASE f.kind = "task" -> [work EXCEPT ![f.task] = [step |-> "running", on |-> c]]
                  [] f.kind = "side" /\ work[f.task].step = "calling" -> [work EXCEPT ![f.task].step = "called"]
                  [] OTHER -> work
    BY <1>9 DEF Peer!WorkerReads
  <2> HIDE DEF r, f
  <2>6. CASE f.kind = "task"
    <3>1. work' = [work EXCEPT ![f.task] = [step |-> "running", on |-> c]]
      BY <2>5, <2>6
    <3>2. /\ work' \in [Tasks -> WorkType] /\ \A t \in Tasks \ {f.task} : work'[t] = work[t]
          /\ work'[f.task].step = "running" /\ work'[f.task].on = c
      BY <1>4, <2>2, <3>1 DEF WorkType
    <3>3. f.task \in Unread
      BY <1>5, <2>4, <2>6
    <3>4. \A t \in Tasks : (t \in Finished => t \in Finished') /\ (t \in Unread \ {f.task} => t \in Unread')
      BY <3>2, <3>3 DEF Finished, Unread
    <3> QED BY <1>3, <1>4, <1>5, <2>1, <2>3, <2>4, <2>6, <3>2, <3>4
  <2>7. CASE f.kind # "task" /\ f.kind = "side" /\ work[f.task].step = "calling"
    <3>1. work' = [work EXCEPT ![f.task].step = "called"]
      BY <2>5, <2>7
    <3>2. /\ work' \in [Tasks -> WorkType]
          /\ \A t \in Tasks : work'[t].on = work[t].on /\ (t # f.task => work'[t].step = work[t].step)
          /\ work'[f.task].step = "called"
      BY <1>4, <2>2, <3>1 DEF WorkType
    <3>3. \A t \in Tasks : (t \in Finished => t \in Finished') /\ (t \in Unread => t \in Unread')
      BY <2>7, <3>2 DEF Finished, Unread
    <3>4. \A t \in Tasks : work'[t].step # "none" => work'[t].on \in Conns
      BY <1>4, <2>7, <3>2
    <3> QED BY <1>3, <2>1, <2>3, <2>4, <3>2, <3>3, <3>4
  <2>8. CASE f.kind # "task" /\ ~(f.kind = "side" /\ work[f.task].step = "calling")
    <3>1. work' = work
      BY <2>5, <2>8
    <3> QED BY <1>3, <1>4, <1>6, <2>1, <2>3, <2>4, <3>1
  <2> QED BY <2>6, <2>7, <2>8
<1> QED BY <1>7, <1>8, <1>9 DEF Peer!Worker

LEMMA TaskStep ==
  ASSUME PeersIInv, NEW t \in Tasks, Peer!CallsBack(t) \/ Peer!Ends(t)
  PROVE  PeersIInv'
<1> USE PeerNumbers
<1>0. PeerTypes /\ ResultsReal /\ GivenOnce /\ Somewhere /\ Named
  BY DEF PeersIInv
<1>1. UNCHANGED <<peer, put, task, call, past>> /\ Unsent' = Unsent
  BY DEF Unsent, Peer!CallsBack, Peer!Ends, Peer!CallTimesOut, Peer!Finishes
<1> DEFINE s == IF Peer!CallsBack(t) THEN "calling" ELSE IF Peer!CallTimesOut(t) THEN "called" ELSE "done"
<1>2. work[t].step \in {"running", "calling", "called"} /\ work' = [work EXCEPT ![t].step = s]
  BY DEF Peer!CallsBack, Peer!Ends, Peer!CallTimesOut, Peer!Finishes
<1>3. s \in {"calling", "called", "done"}
  OBVIOUS
<1>4. s # "done" => Peer!CallsBack(t) \/ Peer!CallTimesOut(t)
  OBVIOUS
<1> HIDE DEF s
<1>5. /\ work' \in [Tasks -> WorkType]
      /\ \A u \in Tasks : work'[u].on = work[u].on /\ (u # t => work'[u].step = work[u].step)
      /\ work'[t].step = s
  BY <1>0, <1>2, <1>3 DEF PeerTypes, WorkType
<1>6. Finished' = IF s = "done" THEN Finished \cup {t} ELSE Finished
  BY <1>2, <1>3, <1>5 DEF Finished
<1>7. Unread' = Unread
  BY <1>2, <1>3, <1>5 DEF Unread
<1>8. work[t].on \in Conns
  BY <1>0, <1>2 DEF Somewhere
<1>9. /\ conn' \in [Conns -> ConnType]
      /\ \A d \in Conns : /\ conn'[d].hub = conn[d].hub /\ conn'[d].down = conn[d].down
                          /\ Of("result", conn'[d].up) \subseteq Of("result", conn[d].up) \cup Finished'
  <2>1. CASE Peer!CallTimesOut(t)
    BY <1>0, <2>1 DEF Peer!CallTimesOut, PeerTypes
  <2>2. ASSUME NEW f \in FrameType, f.task = t, f.kind = "result" => s = "done", Peer!SendUp(work[t].on, f)
        PROVE  <1>9!1 /\ <1>9!2
    <3>1. /\ conn' \in [Conns -> ConnType]
          /\ \A d \in Conns : /\ conn'[d].hub = conn[d].hub /\ conn'[d].down = conn[d].down
                              /\ conn'[d].up = conn[d].up \/ (d = work[t].on /\ conn'[d].up = Append(conn[d].up, f))
      BY <1>0, <1>8, <2>2, Writes
    <3>2. \A d \in Conns : conn[d].up \in Seq(FrameType)
      BY <1>0, ConnFrames
    <3>3. \A q \in Seq(FrameType) : Of("result", Append(q, f)) \subseteq Of("result", q) \cup Finished'
      BY <1>6, <2>2, OneMore
    <3> QED BY <3>1, <3>2, <3>3
  <2>3. CASE Peer!CallsBack(t)
    <3>1. [kind |-> "side", task |-> t] \in FrameType /\ Peer!SendUp(work[t].on, [kind |-> "side", task |-> t])
      BY <2>3 DEF Peer!CallsBack, Peer!Frame, FrameType
    <3> QED BY <2>2, <3>1
  <2>4. CASE Peer!Finishes(t) /\ s = "done"
    <3>1. [kind |-> "result", task |-> t] \in FrameType /\ Peer!SendUp(work[t].on, [kind |-> "result", task |-> t])
      BY <2>4 DEF Peer!Finishes, Peer!Frame, FrameType
    <3> QED BY <2>2, <2>4, <3>1
  <2> QED BY <1>3, <1>4, <2>1, <2>3, <2>4 DEF Peer!Ends
<1>10. PeerTypes'
  BY <1>0, <1>1, <1>5, <1>9 DEF PeerTypes
<1>11. ResultsReal'
  BY <1>0, <1>1, <1>6, <1>9, ResultsStay
<1>12. GivenOnce'
  BY <1>0, <1>1, <1>7, <1>9, GivenStays
<1>13. Somewhere' /\ Named'
  BY <1>0, <1>1, <1>2, <1>5, <1>8, <1>9 DEF Somewhere, Named
<1> QED BY <1>10, <1>11, <1>12, <1>13 DEF PeersIInv

LEMMA PeersInvariant == FairSpec => []PeersIInv
<1>1. Init => PeersIInv
  BY PeersInit DEF Init
<1>2. PeersIInv /\ [Next]_vars => PeersIInv'
  <2> SUFFICES ASSUME PeersIInv, [Next]_vars PROVE PeersIInv'
    OBVIOUS
  <2>1. CASE Peer!Next
    BY <2>1, HubStep, SideStep, DispatchStep, WorkerStep, TaskStep DEF Peer!Next, Conns, Tasks
  <2>2. CASE UNCHANGED peersVars
    <3>1. UNCHANGED <<peer, conn, put, task, work, call, past>>
      BY <2>2 DEF peersVars
    <3>2. Finished' = Finished /\ Unread' = Unread /\ Unsent' = Unsent
      BY <3>1 DEF Finished, Unread, Unsent
    <3> QED BY <3>1, <3>2 DEF PeersIInv, PeerTypes, ResultsReal, GivenOnce, Somewhere, Named
  <2> QED BY <2>1, <2>2 DEF Next, vars
<1> QED BY <1>1, <1>2, PTL DEF FairSpec

(* A Dispatch returns its own task's result, given by that task's handler,    *)
(* over whatever connections it was sent and answered, and a worker whose     *)
(* connections ended in order can be given tasks (peer.go: handleConn,        *)
(* register, unregister).                                                     *)
THEOREM PeersHold == FairSpec => []PeersInv
<1>1. ASSUME PeersIInv PROVE PeersInv
  <2>1. Peer!RightResult
    <3>1. \A t \in Tasks : task[t].chan > 0 => task[t].chan = 1
      BY <1>1 DEF PeersIInv, PeerTypes, TaskType
    <3> QED BY <1>1, <3>1 DEF Peer!RightResult, PeersIInv, ResultsReal, Finished, Tasks
  <2>2. Peer!ReachedInOrder
    BY <1>1 DEF Peer!ReachedInOrder, PeersIInv, Named, Conns
  <2> QED BY <2>1, <2>2 DEF PeersInv, Peer!PeersInv
<1> QED BY <1>1, PeersInvariant, PTL

(***************************************************************************)
(* Listen: the inductive invariant, of a world where accounts change when   *)
(* the server serves, one change after the other.                          *)
(***************************************************************************)
Steps == {"listening", "handing", "waiting", "leaving", "gone"}
BoxType(m) == [msgs : Listen!BoundedSeq(1 .. m, Room), worker : {"none", "on", "draining", "gone"}]
EarType(n, m) == [id : Identities, inbox : 1 .. n, step : Steps, msg : 0 .. m, cancelled : BOOLEAN]
StartType(n) == [id : Identities, inbox : 0 .. n]
Ears == 1 .. Len(listeners)
Boxes == 1 .. Len(inboxes)
Live(l) == listeners[l].step # "gone"
Uncancelled(l) == Live(l) /\ ~listeners[l].cancelled

ListenTypes ==
  /\ boot \in {"off", "begun", "stored", "started", "nobody", "serving"} /\ stopping \in BOOLEAN /\ cut \in BOOLEAN
  /\ wanted \in SUBSET attached /\ attached \in SUBSET Identities
  /\ received \in 0 .. MaxMessages /\ handled \in SUBSET (1 .. received)
  /\ inboxes \in Seq(BoxType(received)) /\ stored \in 0 .. Len(inboxes)
  /\ listeners \in Seq(EarType(Len(inboxes), received)) /\ starts \in SUBSET StartType(Len(inboxes))
  /\ cancels \in [Identities -> 0 .. Len(listeners)]
  /\ \A l \in Ears : listeners[l].step = "handing" => listeners[l].msg # 0

\* How far ListenAndServe is, and that an inbox without a worker is nobody's once it serves.
Booting ==
  /\ boot \in {"off", "begun", "stored"} => listeners = <<>>
  /\ boot \in {"off", "begun"} => inboxes = <<>>
  /\ boot \in {"stored", "started", "nobody"} => Len(inboxes) = 1 /\ inboxes[1].worker = "none" /\ stored = 1
  /\ boot # "serving" => starts = {} /\ wanted = attached
Served ==
  boot \in {"nobody", "serving"} => \A i \in Boxes : inboxes[i].worker = "none" =>
    /\ boot = "serving" => stored # i
    /\ \A l \in Ears : listeners[l].inbox # i
    /\ \A s \in starts : s.inbox # i

\* One listener of an account, or one to come.
OneEach ==
  /\ \A s, r \in starts : s.id = r.id => s = r
  /\ \A s \in starts : s.id \in wanted /\ \A l \in Ears : Live(l) => listeners[l].id # s.id
  /\ \A l, k \in Ears : Live(l) /\ Live(k) /\ listeners[l].id = listeners[k].id => l = k

\* What is not cancelled is wanted, and can be cancelled.
Reached == \A l \in Ears : Uncancelled(l) => listeners[l].id \in wanted /\ cancels[listeners[l].id] = l

\* The bound of the model: there is room for the listeners to come.
Bounded ==
  /\ IsFiniteSet(starts)
  /\ boot \in {"off", "begun", "stored"} => Cardinality(attached) <= MaxListeners
  /\ Len(listeners) + Cardinality(starts) <= MaxListeners

ListenIInv == ListenTypes /\ Booting /\ Served /\ OneEach /\ Reached /\ Bounded

(***************************************************************************)
(* Listen: sequences.                                                      *)
(***************************************************************************)
LEMMA ListenNumbers ==
  /\ Room \in Nat \ {0} /\ MaxListeners \in Nat \ {0} /\ MaxMessages \in Nat \ {0} /\ IsFiniteSet(Identities)
  /\ Listen!None = 0 /\ Listen!Running = {"listening", "handing", "waiting", "leaving"}
  /\ \A B \in Boots : B \in SUBSET Identities /\ Cardinality(B) <= MaxListeners
<1>1. \A S : Listen!Cardinality(S) = Cardinality(S)
  BY DEF Listen!Cardinality, Cardinality
<1>2. IsFiniteSet(Identities)
  BY IncomingConstants DEF Listen!ListenersConstants, Listen!IsFiniteSet, IsFiniteSet
<1> QED BY <1>1, <1>2, IncomingConstants DEF Listen!ListenersConstants, Listen!None, Listen!Running

LEMMA OneSet ==
  ASSUME NEW T, NEW s \in Seq(T), NEW i \in 1 .. Len(s), NEW x \in T
  PROVE  /\ [s EXCEPT ![i] = x] \in Seq(T) /\ Len([s EXCEPT ![i] = x]) = Len(s)
         /\ \A j \in 1 .. Len(s) : [s EXCEPT ![i] = x][j] = IF j = i THEN x ELSE s[j]
OBVIOUS

LEMMA OneAppended ==
  ASSUME NEW T, NEW s \in Seq(T), NEW x \in T
  PROVE  /\ Append(s, x) \in Seq(T) /\ Len(Append(s, x)) = Len(s) + 1 /\ Len(s) \in Nat
         /\ \A j \in 1 .. Len(s) : Append(s, x)[j] = s[j]
         /\ Append(s, x)[Len(s) + 1] = x
OBVIOUS

LEMMA Widened == ASSUME NEW T, NEW U, T \subseteq U, NEW s \in Seq(T) PROVE s \in Seq(U)
OBVIOUS

LEMMA BoxMessages ==
  ASSUME NEW m \in Nat
  PROVE  /\ <<>> \in Listen!BoundedSeq(1 .. m, Room)
         /\ Listen!BoundedSeq(1 .. m, Room) \subseteq Listen!BoundedSeq(1 .. (m + 1), Room)
         /\ \A s \in Listen!BoundedSeq(1 .. m, Room) :
              /\ Len(s) \in 0 .. Room
              /\ \A x \in 1 .. m : Len(s) < Room => Append(s, x) \in Listen!BoundedSeq(1 .. m, Room)
              /\ s # <<>> => Head(s) \in 1 .. m /\ Tail(s) \in Listen!BoundedSeq(1 .. m, Room)
<1>1. Room \in Nat
  BY ListenNumbers
<1>2. \A n \in Nat : Listen!BoundedSeq(1 .. n, Room) = {s \in Seq(1 .. n) : Len(s) <= Room}
  BY <1>1 DEF Listen!BoundedSeq, Listen!SeqOf
<1>3. <<>> \in Seq(1 .. m) /\ Len(<<>>) <= Room
  BY <1>1
<1>4. \A s \in Seq(1 .. m) : s \in Seq(1 .. (m + 1))
  <2>1. 1 .. m \subseteq 1 .. (m + 1)
    OBVIOUS
  <2> QED BY <2>1, Widened
<1>5. \A s \in Seq(1 .. m) : /\ Len(s) \in Nat
                             /\ \A x \in 1 .. m : Append(s, x) \in Seq(1 .. m) /\ Len(Append(s, x)) = Len(s) + 1
                             /\ s # <<>> => Head(s) \in 1 .. m /\ Tail(s) \in Seq(1 .. m) /\ Len(Tail(s)) = Len(s) - 1
  OBVIOUS
<1>6. m + 1 \in Nat
  OBVIOUS
<1>7. \A s : s \in Listen!BoundedSeq(1 .. m, Room) <=> s \in Seq(1 .. m) /\ Len(s) <= Room
  BY <1>2
<1>8. Listen!BoundedSeq(1 .. m, Room) \subseteq Listen!BoundedSeq(1 .. (m + 1), Room)
  BY <1>2, <1>4, <1>6
<1>9. ASSUME NEW s \in Seq(1 .. m), Len(s) <= Room
      PROVE  /\ Len(s) \in 0 .. Room
             /\ \A x \in 1 .. m : Len(s) < Room => Append(s, x) \in Listen!BoundedSeq(1 .. m, Room)
             /\ s # <<>> => Head(s) \in 1 .. m /\ Tail(s) \in Listen!BoundedSeq(1 .. m, Room)
  <2>1. Len(s) \in 0 .. Room
    BY <1>1, <1>5, <1>9
  <2>2. ASSUME NEW x \in 1 .. m, Len(s) < Room PROVE Append(s, x) \in Listen!BoundedSeq(1 .. m, Room)
    <3>1. Append(s, x) \in Seq(1 .. m) /\ Len(Append(s, x)) <= Room
      BY <1>1, <1>5, <2>1, <2>2
    <3> QED BY <1>7, <3>1
  <2>3. ASSUME s # <<>> PROVE Head(s) \in 1 .. m /\ Tail(s) \in Listen!BoundedSeq(1 .. m, Room)
    <3>1. Head(s) \in 1 .. m /\ Tail(s) \in Seq(1 .. m) /\ Len(Tail(s)) <= Room
      BY <1>1, <1>5, <2>1, <2>3
    <3> QED BY <1>7, <3>1
  <2> QED BY <2>1, <2>2, <2>3
<1>10. <<>> \in Listen!BoundedSeq(1 .. m, Room)
  BY <1>3, <1>7
<1> QED BY <1>7, <1>8, <1>9, <1>10

\* The accounts in a sequence, each once.
LEMMA EachOnce ==
  ASSUME NEW S, IsFiniteSet(S)
  PROVE  LET q == Listen!SetToSeq(S)
         IN  /\ q \in [1 .. Cardinality(S) -> S] /\ DOMAIN q = 1 .. Cardinality(S)
             /\ \A i, j \in 1 .. Cardinality(S) : q[i] = q[j] => i = j
             /\ \A x \in S : \E i \in 1 .. Cardinality(S) : q[i] = x
<1> DEFINE n == Cardinality(S)
           q == Listen!SetToSeq(S)
<1>1. n \in Nat /\ ExistsBijection(1 .. n, S)
  BY FS_CardinalityType
<1>2. PICK f : f \in Bijection(1 .. n, S)
  BY <1>1 DEF ExistsBijection
<1>3. f \in [1 .. n -> S] /\ \A a, b \in 1 .. n : f[a] = f[b] => a = b
  BY <1>2 DEF Bijection, Injection, IsInjective
<1>4. q = CHOOSE g \in [1 .. n -> S] : \A a, b \in DOMAIN g : g[a] = g[b] => a = b
  BY DEF Listen!SetToSeq, Listen!IsInjective, Listen!Cardinality, Cardinality
<1>5. q \in [1 .. n -> S] /\ \A a, b \in DOMAIN q : q[a] = q[b] => a = b
  <2> HIDE DEF q, n
  <2>1. \E g \in [1 .. n -> S] : \A a, b \in DOMAIN g : g[a] = g[b] => a = b
    BY <1>3
  <2> QED BY <1>4, <2>1
<1>6. IsFiniteSet(1 .. n) /\ Cardinality(1 .. n) = n
  <2>1. 1 \in Int /\ n \in Int
    BY <1>1
  <2> QED BY <1>1, <2>1, FS_Interval
<1>7. q \in Injection(1 .. n, S)
  BY <1>5 DEF Injection, IsInjective
<1>8. q \in Surjection(1 .. n, S)
  BY <1>6, <1>7, FS_Injection
<1> QED BY <1>5, <1>8 DEF Surjection

LEMMA ListenInit == Listen!Init => ListenIInv
<1> SUFFICES ASSUME Listen!Init PROVE ListenIInv
  OBVIOUS
<1>1. /\ boot = "off" /\ stopping = FALSE /\ cut = FALSE /\ wanted \in Boots /\ attached = wanted
      /\ stored = 0 /\ inboxes = <<>> /\ listeners = <<>> /\ cancels = [i \in Identities |-> 0]
      /\ starts = {} /\ received = 0 /\ handled = {}
  BY ListenNumbers DEF Listen!Init
<1>2. /\ Len(inboxes) = 0 /\ Len(listeners) = 0 /\ Ears = {} /\ Boxes = {}
      /\ \A T : inboxes \in Seq(T) /\ listeners \in Seq(T)
  BY <1>1 DEF Ears, Boxes
<1>3. ListenTypes
  <2>1. wanted \in SUBSET attached /\ attached \in SUBSET Identities
    BY <1>1, ListenNumbers
  <2>2. received \in 0 .. MaxMessages /\ handled \in SUBSET (1 .. received)
    BY <1>1, ListenNumbers
  <2>3. stored \in 0 .. Len(inboxes) /\ starts \in SUBSET StartType(Len(inboxes))
    BY <1>1, <1>2
  <2>4. cancels \in [Identities -> 0 .. Len(listeners)]
    <3>1. 0 \in 0 .. 0
      OBVIOUS
    <3> QED BY <1>1, <1>2, <3>1
  <2>5. inboxes \in Seq(BoxType(received)) /\ listeners \in Seq(EarType(Len(inboxes), received))
    BY <1>2
  <2>6. boot \in {"off", "begun", "stored", "started", "nobody", "serving"} /\ stopping \in BOOLEAN /\ cut \in BOOLEAN
    BY <1>1
  <2>7. \A l \in Ears : listeners[l].step = "handing" => listeners[l].msg # 0
    BY <1>2
  <2> QED BY <2>1, <2>2, <2>3, <2>4, <2>5, <2>6, <2>7 DEF ListenTypes
<1>4. Booting /\ Served /\ OneEach /\ Reached
  BY <1>1, <1>2 DEF Booting, Served, OneEach, Reached
<1>5. Bounded
  BY <1>1, <1>2, FS_EmptySet, ListenNumbers DEF Bounded
<1> QED BY <1>3, <1>4, <1>5 DEF ListenIInv

\* ListenAndServe.
LEMMA ServeStep == ASSUME ListenIInv, Listen!Serve PROVE ListenIInv'
<1> USE ListenNumbers
<1>0. ListenTypes /\ Booting /\ Served /\ OneEach /\ Reached /\ Bounded
  BY DEF ListenIInv
<1>1. CASE Listen!Begin
  <2>1. /\ boot = "off" /\ boot' = "begun"
        /\ UNCHANGED <<stopping, cut, wanted, attached, stored, inboxes, listeners, cancels, starts, received, handled>>
    BY <1>1 DEF Listen!Begin
  <2>2. Ears' = Ears /\ Boxes' = Boxes
    BY <2>1 DEF Ears, Boxes
  <2>3. ListenTypes'
    BY <1>0, <2>1, <2>2 DEF ListenTypes
  <2>4. Booting' /\ Served' /\ Bounded'
    BY <1>0, <2>1, <2>2 DEF Booting, Served, Bounded
  <2>5. OneEach' /\ Reached'
    BY <1>0, <2>1, <2>2 DEF OneEach, Reached, Uncancelled, Live
  <2> QED BY <2>3, <2>4, <2>5 DEF ListenIInv
<1>2. CASE Listen!StoreInbox
  <2> DEFINE b == [msgs |-> <<>>, worker |-> "none"]
  <2>1. /\ boot = "begun" /\ boot' = "stored" /\ inboxes' = Append(inboxes, b) /\ stored' = Len(inboxes) + 1
        /\ UNCHANGED <<stopping, cut, wanted, attached, listeners, cancels, starts, received, handled>>
    BY <1>2 DEF Listen!StoreInbox, Listen!Inbox
  <2>2. inboxes = <<>> /\ listeners = <<>> /\ starts = {} /\ wanted = attached /\ received \in Nat
    BY <1>0, <2>1 DEF Booting, ListenTypes
  <2>3. inboxes' = <<b>> /\ Len(inboxes') = 1 /\ stored' = 1 /\ inboxes'[1].worker = "none"
    BY <2>1, <2>2
  <2>4. b \in BoxType(received)
    BY <2>2, BoxMessages DEF BoxType
  <2> HIDE DEF b
  <2>5. inboxes' \in Seq(BoxType(received))
    BY <2>3, <2>4
  <2>6. Len(listeners) = 0 /\ Ears = {} /\ Ears' = {} /\ \A T : listeners \in Seq(T)
    BY <2>1, <2>2 DEF Ears
  <2>7. ListenTypes'
    BY <1>0, <2>1, <2>2, <2>3, <2>5, <2>6 DEF ListenTypes
  <2>8. Booting' /\ Served' /\ Bounded'
    BY <1>0, <2>1, <2>2, <2>3 DEF Booting, Served, Bounded
  <2>9. OneEach' /\ Reached'
    BY <2>1, <2>2, <2>6 DEF OneEach, Reached
  <2> QED BY <2>7, <2>8, <2>9 DEF ListenIInv
<1>3. CASE Listen!DeleteInbox
  <2>1. /\ boot = "nobody" /\ boot' = "serving" /\ stored' = 0
        /\ UNCHANGED <<stopping, cut, wanted, attached, inboxes, listeners, cancels, starts, received, handled>>
    BY <1>3 DEF Listen!DeleteInbox
  <2>2. Ears' = Ears /\ Boxes' = Boxes /\ 0 \notin Boxes
    BY <2>1 DEF Ears, Boxes
  <2>3. ListenTypes'
    BY <1>0, <2>1, <2>2 DEF ListenTypes
  <2>4. Booting' /\ Served' /\ Bounded'
    BY <1>0, <2>1, <2>2 DEF Booting, Served, Bounded
  <2>5. OneEach' /\ Reached'
    BY <1>0, <2>1, <2>2 DEF OneEach, Reached, Uncancelled, Live
  <2> QED BY <2>3, <2>4, <2>5 DEF ListenIInv
<1>4. ASSUME boot \in {"stored", "started"} PROVE Listen!Made = 1
  <2>1. inboxes \in Seq(BoxType(received)) /\ Len(inboxes) = 1 /\ inboxes[1].worker = "none"
    BY <1>0, <1>4 DEF ListenTypes, Booting
  <2>2. DOMAIN inboxes = {1}
    BY <2>1
  <2> QED BY <2>1, <2>2 DEF Listen!Made
<1>5. CASE Listen!StartWorker
  <2>1. /\ boot = "started" /\ boot' = "serving" /\ inboxes' = [inboxes EXCEPT ![1].worker = "on"]
        /\ UNCHANGED <<stopping, cut, wanted, attached, stored, listeners, cancels, starts, received, handled>>
    BY <1>4, <1>5 DEF Listen!StartWorker
  <2>2. inboxes \in Seq(BoxType(received)) /\ Len(inboxes) = 1 /\ 1 \in 1 .. Len(inboxes)
    BY <1>0, <2>1 DEF ListenTypes, Booting
  <2> DEFINE b == [inboxes[1] EXCEPT !.worker = "on"]
  <2>3. b \in BoxType(received) /\ b.worker = "on"
    <3>1. inboxes[1] \in BoxType(received)
      BY <2>2
    <3> QED BY <3>1 DEF BoxType
  <2>4. inboxes' = [inboxes EXCEPT ![1] = b]
    BY <2>1, <2>2
  <2> HIDE DEF b
  <2>5. inboxes' \in Seq(BoxType(received)) /\ Len(inboxes') = 1 /\ inboxes'[1] = b
    BY <2>2, <2>3, <2>4, OneSet
  <2>6. Ears' = Ears /\ Boxes' = {1}
    <3>1. Ears' = Ears
      BY <2>1 DEF Ears
    <3>2. Len(inboxes') = 1
      BY <2>5
    <3>3. Boxes' = {1}
      BY <3>2 DEF Boxes
    <3> QED BY <3>1, <3>3
  <2>7. ListenTypes'
    BY <1>0, <2>1, <2>2, <2>5, <2>6 DEF ListenTypes
  <2>8. Booting' /\ Served' /\ Bounded'
    BY <1>0, <2>1, <2>3, <2>5, <2>6 DEF Booting, Served, Bounded
  <2>9. OneEach' /\ Reached'
    BY <1>0, <2>1, <2>6 DEF OneEach, Reached, Uncancelled, Live
  <2> QED BY <2>7, <2>8, <2>9 DEF ListenIInv
<1>6. CASE Listen!StartListeners
  <2> DEFINE n == Cardinality(attached)
             ids == Listen!SetToSeq(attached)
             Ear(i) == [id |-> i, inbox |-> 1, step |-> "listening", msg |-> 0, cancelled |-> FALSE]
  <2>1. /\ boot = "stored" /\ boot' = (IF attached = {} THEN "nobody" ELSE "started")
        /\ listeners' = listeners \o [k \in DOMAIN ids |-> Ear(ids[k])]
        /\ cancels' = [i \in Identities |->
             IF i \in attached THEN Len(listeners) + CHOOSE k \in DOMAIN ids : ids[k] = i ELSE cancels[i]]
        /\ UNCHANGED <<stopping, cut, wanted, attached, stored, inboxes, starts, received, handled>>
    BY <1>4, <1>6 DEF Listen!StartListeners, Listen!Listener
  <2>2. /\ listeners = <<>> /\ Len(listeners) = 0 /\ starts = {} /\ wanted = attached /\ received \in Nat /\ attached \in SUBSET Identities
        /\ Len(inboxes) = 1 /\ inboxes[1].worker = "none" /\ stored = 1 /\ n <= MaxListeners
    BY <1>0, <2>1 DEF Booting, ListenTypes, Bounded
  <2>3. IsFiniteSet(attached) /\ n \in Nat
    BY <2>2, FS_Subset, FS_CardinalityType
  <2>4. /\ ids \in [1 .. n -> attached] /\ DOMAIN ids = 1 .. n
        /\ \A i, j \in 1 .. n : ids[i] = ids[j] => i = j
        /\ \A x \in attached : \E i \in 1 .. n : ids[i] = x
    BY <2>3, EachOnce
  <2> HIDE DEF n, ids
  <2>5. \A i \in attached : LET e == Ear(i) IN e \in EarType(1, received) /\ e.id = i /\ e.inbox = 1 /\ e.step = "listening" /\ ~e.cancelled
    BY <2>2 DEF EarType, Steps
  <2>6. /\ listeners' \in Seq(EarType(1, received)) /\ Len(listeners') = n
        /\ \A k \in 1 .. n : listeners'[k] = Ear(ids[k])
    <3> DEFINE new == [k \in 1 .. n |-> Ear(ids[k])]
    <3>1. new \in Seq(EarType(1, received)) /\ Len(new) = n
      <4> HIDE DEF Ear
      <4>1. new \in [1 .. n -> EarType(1, received)]
        BY <2>4, <2>5
      <4> QED BY <2>3, <4>1
    <3>2. listeners' = new
      <4>1. listeners' = listeners \o new
        BY <2>1, <2>4
      <4> HIDE DEF new
      <4> QED BY <2>2, <3>1, <4>1
    <3> QED BY <3>1, <3>2
  <2> HIDE DEF Ear
  <2>7. \A k \in 1 .. n : /\ listeners'[k].id = ids[k] /\ ids[k] \in attached /\ listeners'[k].inbox = 1
                          /\ listeners'[k].step = "listening" /\ ~listeners'[k].cancelled
    BY <2>4, <2>5, <2>6
  <2>8. \A i \in attached : cancels'[i] \in 1 .. n /\ ids[cancels'[i]] = i
    <3> SUFFICES ASSUME NEW i \in attached PROVE cancels'[i] \in 1 .. n /\ ids[cancels'[i]] = i
      OBVIOUS
    <3>1. PICK k \in 1 .. n : k = CHOOSE j \in 1 .. n : ids[j] = i
      BY <2>4
    <3>2. ids[k] = i
      BY <2>4, <3>1
    <3>3. cancels'[i] = 0 + k
      BY <2>1, <2>2, <2>4, <3>1
    <3> QED BY <3>2, <3>3
  <2>9. cancels' \in [Identities -> 0 .. n]
    <3>1. \A i \in Identities \ attached : cancels'[i] = 0
      BY <1>0, <2>1, <2>2 DEF ListenTypes
    <3>2. \A i \in Identities : cancels'[i] \in 0 .. n
      BY <2>3, <2>8, <3>1
    <3>3. DOMAIN cancels' = Identities /\ cancels' = [i \in Identities |-> cancels'[i]]
      BY <2>1
    <3> QED BY <3>2, <3>3
  <2>10. Ears' = 1 .. n /\ Boxes' = {1}
    BY <2>1, <2>2, <2>6 DEF Ears, Boxes
  <2>11. ListenTypes'
    BY <1>0, <2>1, <2>2, <2>6, <2>7, <2>9, <2>10 DEF ListenTypes
  <2>12. Booting'
    BY <2>1, <2>2 DEF Booting
  <2>13. attached = {} => Ears' = {}
    BY <2>3, <2>4, <2>10
  <2>14. Served'
    BY <2>1, <2>2, <2>10, <2>13 DEF Served
  <2>15. OneEach' /\ Reached'
    BY <2>1, <2>2, <2>4, <2>7, <2>8, <2>10 DEF OneEach, Reached, Uncancelled, Live
  <2>16. Bounded'
    BY <1>0, <2>1, <2>2, <2>3, <2>6, FS_EmptySet DEF Bounded
  <2> QED BY <2>11, <2>12, <2>14, <2>15, <2>16 DEF ListenIInv
<1> QED BY <1>1, <1>2, <1>3, <1>5, <1>6 DEF Listen!Serve

\* StartListenerForAgent, after it has counted the account in.
LEMMA StartStep == ASSUME ListenIInv, Listen!Start PROVE ListenIInv'
<1> USE ListenNumbers
<1>0. ListenTypes /\ Booting /\ Served /\ OneEach /\ Reached /\ Bounded
  BY DEF ListenIInv
<1>1. PICK s \in starts : Listen!GetInbox(s) \/ Listen!StartOne(s)
  BY DEF Listen!Start
<1>2. /\ s \in StartType(Len(inboxes)) /\ s.id \in Identities /\ s.inbox \in 0 .. Len(inboxes) /\ s.id \in wanted
      /\ s = [id |-> s.id, inbox |-> s.inbox] /\ boot = "serving"
      /\ inboxes \in Seq(BoxType(received)) /\ Len(inboxes) \in Nat /\ received \in Nat /\ Len(listeners) \in Nat
      /\ listeners \in Seq(EarType(Len(inboxes), received)) /\ stored \in 0 .. Len(inboxes)
  <2>1. s \in StartType(Len(inboxes)) /\ s.id \in wanted /\ boot = "serving"
    BY <1>0 DEF ListenTypes, OneEach, Booting
  <2>2. s.id \in Identities /\ s.inbox \in 0 .. Len(inboxes) /\ s = [id |-> s.id, inbox |-> s.inbox]
    BY <2>1 DEF StartType
  <2>3. /\ inboxes \in Seq(BoxType(received)) /\ received \in Nat /\ stored \in 0 .. Len(inboxes)
        /\ listeners \in Seq(EarType(Len(inboxes), received))
    BY <1>0 DEF ListenTypes
  <2>4. Len(inboxes) \in Nat /\ Len(listeners) \in Nat
    BY <2>3
  <2> QED BY <2>1, <2>2, <2>3, <2>4
<1>3. \A l \in Ears : LET e == listeners[l] IN
        e \in EarType(Len(inboxes), received) /\ e.id \in Identities
  <2>1. \A l \in Ears : listeners[l] \in EarType(Len(inboxes), received)
    BY <1>2 DEF Ears
  <2> QED BY <2>1 DEF EarType
<1>4. CASE Listen!GetInbox(s)
  <2>1. /\ s.inbox = 0
        /\ UNCHANGED <<boot, stopping, cut, wanted, attached, listeners, cancels, received, handled>>
    BY <1>4 DEF Listen!GetInbox
  <2>2. Ears' = Ears
    BY <2>1 DEF Ears
  <2>3. ASSUME NEW b \in Nat \ {0}, NEW r, r = [id |-> s.id, inbox |-> b], starts' = (starts \ {s}) \cup {r},
               b <= Len(inboxes')
        PROVE  /\ OneEach' /\ Reached' /\ Bounded' /\ r \in StartType(Len(inboxes')) /\ r.inbox = b
    <3>1. r.id = s.id /\ r.inbox = b
      BY <2>3
    <3>2. r \in StartType(Len(inboxes'))
      <4>1. b \in 0 .. Len(inboxes')
        BY <2>3
      <4> QED BY <1>2, <2>3, <4>1 DEF StartType
    <3>3. \A t \in starts' : t = r \/ (t \in starts /\ t # s)
      BY <2>3
    <3>4. OneEach' /\ Reached'
      BY <1>0, <2>1, <2>2, <3>1, <3>3 DEF OneEach, Reached, Uncancelled, Live
    <3>5. r \notin starts
      BY <1>0, <2>1, <2>3, <3>1 DEF OneEach
    <3>6. IsFiniteSet(starts') /\ Cardinality(starts') = Cardinality(starts) /\ Cardinality(starts) \in Nat
      <4>1. IsFiniteSet(starts \ {s}) /\ Cardinality(starts \ {s}) = Cardinality(starts) - 1
        BY <1>0, FS_RemoveElement DEF Bounded
      <4>2. IsFiniteSet(starts') /\ Cardinality(starts') = Cardinality(starts \ {s}) + 1
        BY <2>3, <3>5, <4>1, FS_AddElement
      <4>3. Cardinality(starts) \in Nat
        BY <1>0, FS_CardinalityType DEF Bounded
      <4> QED BY <4>1, <4>2, <4>3
    <3>7. Bounded'
      BY <1>0, <2>1, <3>6 DEF Bounded
    <3> QED BY <3>1, <3>2, <3>4, <3>7
  <2>4. CASE stored # 0
    <3> DEFINE r == [id |-> s.id, inbox |-> stored]
    <3>1. starts' = (starts \ {s}) \cup {r} /\ inboxes' = inboxes /\ stored' = stored
      <4>1. [s EXCEPT !.inbox = stored] = r
        BY <1>2
      <4> QED BY <1>4, <2>4, <4>1 DEF Listen!GetInbox
    <3>2. stored \in Nat \ {0} /\ stored <= Len(inboxes')
      BY <1>2, <2>4, <3>1
    <3>3. OneEach' /\ Reached' /\ Bounded' /\ r \in StartType(Len(inboxes)) /\ r.inbox = stored
      BY <2>3, <3>1, <3>2
    <3> HIDE DEF r
    <3>4. ListenTypes'
      BY <1>0, <2>1, <2>2, <3>1, <3>3 DEF ListenTypes
    <3>5. Boxes' = Boxes
      BY <3>1 DEF Boxes
    <3>6. Booting'
      BY <1>2, <2>1 DEF Booting
    <3>7. Served'
      BY <1>0, <1>2, <2>1, <2>2, <3>1, <3>3, <3>5 DEF Served
    <3> QED BY <3>3, <3>4, <3>6, <3>7 DEF ListenIInv
  <2>5. CASE stored = 0
    <3> DEFINE b == [msgs |-> <<>>, worker |-> "on"]
               n == Len(inboxes) + 1
               r == [id |-> s.id, inbox |-> n]
    <3>1. inboxes' = Append(inboxes, b) /\ stored' = Len(inboxes') /\ starts' = (starts \ {s}) \cup {[s EXCEPT !.inbox = Len(inboxes')]}
      BY <1>4, <2>5 DEF Listen!GetInbox, Listen!Inbox
    <3>2. b \in BoxType(received) /\ b.worker = "on"
      BY <1>2, BoxMessages DEF BoxType
    <3> HIDE DEF b
    <3>3. /\ inboxes' \in Seq(BoxType(received)) /\ Len(inboxes') = n /\ n \in Nat \ {0}
          /\ \A i \in 1 .. Len(inboxes) : inboxes'[i] = inboxes[i]
          /\ inboxes'[n] = b
      BY <1>2, <3>1, <3>2, OneAppended
    <3>4. starts' = (starts \ {s}) \cup {r} /\ stored' = n
      <4>1. [s EXCEPT !.inbox = n] = r
        BY <1>2
      <4> HIDE DEF r, n
      <4> QED BY <3>1, <3>3, <4>1
    <3>5. OneEach' /\ Reached' /\ Bounded' /\ r \in StartType(n) /\ r.inbox = n
      <4>1. n <= Len(inboxes')
        BY <3>3
      <4> HIDE DEF n
      <4> QED BY <2>3, <3>3, <3>4, <4>1
    <3> HIDE DEF r
    <3>6. Boxes' = 1 .. n /\ \A i \in Boxes' : i = n \/ (i \in Boxes /\ i # n)
      <4>1. Boxes' = 1 .. n
        BY <3>3 DEF Boxes
      <4> QED BY <1>2, <4>1 DEF Boxes
    <3>7. starts' \in SUBSET StartType(n)
      <4>1. StartType(Len(inboxes)) \subseteq StartType(n)
        <5>1. 0 .. Len(inboxes) \subseteq 0 .. n
          BY <1>2
        <5> QED BY <5>1 DEF StartType
      <4>2. starts \in SUBSET StartType(Len(inboxes))
        BY <1>0 DEF ListenTypes
      <4> QED BY <3>4, <3>5, <4>1, <4>2
    <3>8. listeners \in Seq(EarType(n, received))
      <4>1. 1 .. Len(inboxes) \subseteq 1 .. n
        BY <1>2
      <4>2. EarType(Len(inboxes), received) \subseteq EarType(n, received)
        BY <4>1 DEF EarType
      <4> QED BY <1>2, <4>2, Widened
    <3>9. ListenTypes'
      <4>1. stored' \in 0 .. n
        BY <3>3, <3>4
      <4>2. Len(inboxes') = n /\ inboxes' \in Seq(BoxType(received))
        BY <3>3
      <4> HIDE DEF n
      <4> QED BY <1>0, <2>1, <2>2, <3>7, <3>8, <4>1, <4>2 DEF ListenTypes
    <3>10. Booting'
      BY <1>2, <2>1 DEF Booting
    <3>11. Served'
      <4>1. \A i \in Boxes' : inboxes'[i].worker = "none" => i \in Boxes /\ i # n /\ inboxes[i].worker = "none"
        BY <3>2, <3>3, <3>6 DEF Boxes
      <4> HIDE DEF n
      <4> QED BY <1>0, <1>2, <2>1, <2>2, <3>4, <3>5, <4>1 DEF Served
    <3> QED BY <3>5, <3>9, <3>10, <3>11 DEF ListenIInv
  <2> QED BY <2>4, <2>5
<1>5. CASE Listen!StartOne(s)
  <2> DEFINE e == [id |-> s.id, inbox |-> s.inbox, step |-> "listening", msg |-> 0, cancelled |-> FALSE]
             n == Len(listeners) + 1
  <2>1. /\ s.inbox # 0 /\ starts' = starts \ {s} /\ listeners' = Append(listeners, e)
        /\ cancels' = [cancels EXCEPT ![s.id] = Len(listeners')]
        /\ UNCHANGED <<boot, stopping, cut, wanted, attached, stored, inboxes, received, handled>>
    BY <1>5 DEF Listen!StartOne, Listen!Listener
  <2>2. /\ e \in EarType(Len(inboxes), received) /\ e.id = s.id /\ e.inbox = s.inbox /\ e.step = "listening"
        /\ ~e.cancelled
    <3>1. s.inbox \in 1 .. Len(inboxes) /\ 0 \in 0 .. received
      BY <1>2, <2>1
    <3> QED BY <1>2, <3>1 DEF EarType, Steps
  <2> HIDE DEF e
  <2>3. /\ listeners' \in Seq(EarType(Len(inboxes), received)) /\ Len(listeners') = n
        /\ \A l \in 1 .. Len(listeners) : listeners'[l] = listeners[l]
        /\ listeners'[n] = e
    BY <1>2, <2>1, <2>2, OneAppended
  <2>4. Ears' = 1 .. n /\ \A l \in Ears' : l = n \/ (l \in Ears /\ l # n)
    <3>1. Ears' = 1 .. n
      BY <2>3 DEF Ears
    <3> QED BY <1>2, <3>1 DEF Ears
  <2>5. n \in Nat \ {0} /\ \A l \in Ears : listeners'[l] = listeners[l] /\ l # n
    BY <1>2, <2>3 DEF Ears
  <2>6. cancels' \in [Identities -> 0 .. n] /\ \A i \in Identities : cancels'[i] = IF i = s.id THEN n ELSE cancels[i]
    <3>1. cancels \in [Identities -> 0 .. Len(listeners)]
      BY <1>0 DEF ListenTypes
    <3>2. cancels' = [cancels EXCEPT ![s.id] = n] /\ n \in 0 .. n /\ \A c \in 0 .. Len(listeners) : c \in 0 .. n
      BY <1>2, <2>1, <2>3
    <3> HIDE DEF n
    <3> QED BY <3>1, <3>2
  <2>7. starts' \subseteq starts /\ \A t \in starts' : t # s
    BY <2>1
  <2> HIDE DEF n
  <2>8. ListenTypes'
    BY <1>0, <2>1, <2>2, <2>3, <2>4, <2>5, <2>6, <2>7 DEF ListenTypes
  <2>9. Booting'
    BY <1>2, <2>1 DEF Booting
  <2>10. Boxes' = Boxes
    BY <2>1 DEF Boxes
  <2>11. Served'
    BY <1>0, <1>2, <2>1, <2>2, <2>3, <2>4, <2>5, <2>7, <2>10 DEF Served
  <2>12. \A l \in Ears : Live(l) => listeners[l].id # s.id
    BY <1>0 DEF OneEach
  <2>13. OneEach'
    BY <1>0, <2>1, <2>2, <2>3, <2>4, <2>5, <2>7, <2>12 DEF OneEach, Live
  <2>14. Reached'
    BY <1>0, <1>2, <1>3, <2>1, <2>2, <2>3, <2>4, <2>5, <2>6, <2>12 DEF Reached, Uncancelled, Live
  <2>15. Bounded'
    <3>1. IsFiniteSet(starts') /\ Cardinality(starts') = Cardinality(starts) - 1
      BY <1>0, <2>1, FS_RemoveElement DEF Bounded
    <3>2. Cardinality(starts) \in Nat
      BY <1>0, FS_CardinalityType DEF Bounded
    <3>3. Len(listeners') = Len(listeners) + 1
      BY <2>3 DEF n
    <3> QED BY <1>0, <1>2, <2>1, <3>1, <3>2, <3>3 DEF Bounded
  <2> QED BY <2>8, <2>9, <2>11, <2>13, <2>14, <2>15 DEF ListenIInv
<1> QED BY <1>1, <1>4, <1>5

\* An inbox's messages change, or its worker that was started.
LEMMA BoxStep ==
  ASSUME ListenIInv, stopping' \in BOOLEAN, cut' \in BOOLEAN,
         inboxes' \in Seq(BoxType(received)), Len(inboxes') = Len(inboxes), handled' \in SUBSET (1 .. received),
         \A i \in Boxes : inboxes'[i].worker = "none" <=> inboxes[i].worker = "none",
         UNCHANGED <<boot, wanted, attached, stored, listeners, cancels, starts, received>>
  PROVE  ListenIInv'
<1>0. ListenTypes /\ Booting /\ Served /\ OneEach /\ Reached /\ Bounded
  BY DEF ListenIInv
<1>1. Ears' = Ears /\ Boxes' = Boxes
  BY DEF Ears, Boxes
<1>2. ListenTypes'
  BY <1>0, <1>1 DEF ListenTypes
<1>3. Booting'
  <2>1. boot \in {"off", "begun"} => inboxes' = <<>>
    BY <1>0 DEF Booting
  <2>2. boot \in {"stored", "started", "nobody"} => Len(inboxes') = 1 /\ inboxes'[1].worker = "none"
    BY <1>0 DEF Booting, Boxes
  <2> QED BY <1>0, <2>1, <2>2 DEF Booting
<1>4. Served' /\ Bounded'
  BY <1>0, <1>1 DEF Served, Bounded
<1>5. OneEach' /\ Reached'
  BY <1>0, <1>1 DEF OneEach, Reached, Uncancelled, Live
<1> QED BY <1>2, <1>3, <1>4, <1>5 DEF ListenIInv

\* An inbox's worker.
LEMMA WorkStep == ASSUME ListenIInv, Listen!Work PROVE ListenIInv'
<1>0. /\ inboxes \in Seq(BoxType(received)) /\ received \in Nat /\ handled \in SUBSET (1 .. received)
      /\ stopping \in BOOLEAN /\ cut \in BOOLEAN
  BY DEF ListenIInv, ListenTypes
<1>1. PICK i \in DOMAIN inboxes : Listen!Take(i) \/ Listen!StopTaking(i) \/ Listen!Drain(i)
  BY DEF Listen!Work
<1>2. i \in 1 .. Len(inboxes) /\ DOMAIN inboxes = 1 .. Len(inboxes)
  BY <1>0
<1>3. /\ inboxes[i].msgs \in Listen!BoundedSeq(1 .. received, Room) /\ inboxes[i].worker \in {"none", "on", "draining", "gone"}
      /\ inboxes[i] = [msgs |-> inboxes[i].msgs, worker |-> inboxes[i].worker]
  <2>1. inboxes[i] \in BoxType(received)
    BY <1>0, <1>2
  <2> QED BY <2>1 DEF BoxType
<1> DEFINE old == inboxes[i]
<1>a. /\ \A x : [old EXCEPT !.msgs = x] = [msgs |-> x, worker |-> old.worker]
      /\ \A x : [old EXCEPT !.worker = x] = [msgs |-> old.msgs, worker |-> x]
      /\ \A x, y : [old EXCEPT !.worker = x, !.msgs = y] = [msgs |-> y, worker |-> x]
  <2>1. PICK m, w : old = [msgs |-> m, worker |-> w]
    BY <1>3
  <2>2. old.msgs = m /\ old.worker = w
    BY <2>1
  <2>3. \A x : [[msgs |-> m, worker |-> w] EXCEPT !.msgs = x] = [msgs |-> x, worker |-> w]
    OBVIOUS
  <2>4. \A x : [[msgs |-> m, worker |-> w] EXCEPT !.worker = x] = [msgs |-> m, worker |-> x]
    OBVIOUS
  <2>5. \A x, y : [[msgs |-> m, worker |-> w] EXCEPT !.worker = x, !.msgs = y] = [msgs |-> y, worker |-> x]
    <3> TAKE x, y
    <3>1. [[msgs |-> m, worker |-> w] EXCEPT !.worker = x] = [msgs |-> m, worker |-> x]
      OBVIOUS
    <3>2. [[msgs |-> m, worker |-> x] EXCEPT !.msgs = y] = [msgs |-> y, worker |-> x]
      OBVIOUS
    <3> QED BY <3>1, <3>2
  <2> HIDE DEF old
  <2> QED BY <2>1, <2>2, <2>3, <2>4, <2>5
<1>4. ASSUME NEW b \in BoxType(received), inboxes' = [inboxes EXCEPT ![i] = b], b.worker # "none", inboxes[i].worker # "none",
             handled' \in SUBSET (1 .. received),
             UNCHANGED <<boot, stopping, cut, wanted, attached, stored, listeners, cancels, starts, received>>
      PROVE  ListenIInv'
  <2>1. /\ inboxes' \in Seq(BoxType(received)) /\ Len(inboxes') = Len(inboxes)
        /\ \A j \in Boxes : inboxes'[j] = IF j = i THEN b ELSE inboxes[j]
    BY <1>0, <1>2, <1>4, OneSet DEF Boxes
  <2> QED BY <1>0, <1>4, <2>1, BoxStep
<1>5. ASSUME inboxes[i].worker \in {"on", "draining"}, inboxes[i].msgs # <<>>, Listen!Handle(i),
             UNCHANGED <<boot, stopping, cut, wanted, attached, stored, listeners, cancels, starts, received>>
      PROVE  ListenIInv'
  <2> DEFINE b == [msgs |-> Tail(inboxes[i].msgs), worker |-> inboxes[i].worker]
  <2>1. b \in BoxType(received) /\ b.worker = inboxes[i].worker
    BY <1>0, <1>3, <1>5, BoxMessages DEF BoxType
  <2>2. inboxes' = [inboxes EXCEPT ![i] = b]
    <3>1. inboxes' = [inboxes EXCEPT ![i] = [old EXCEPT !.msgs = Tail(old.msgs)]]
      BY <1>2, <1>5 DEF Listen!Handle
    <3> QED BY <1>a, <3>1
  <2>3. handled' \in SUBSET (1 .. received)
    BY <1>0, <1>3, <1>5, BoxMessages DEF Listen!Handle
  <2> HIDE DEF b
  <2> QED BY <1>4, <1>5, <2>1, <2>2, <2>3
<1>6. CASE Listen!Take(i)
  BY <1>5, <1>6 DEF Listen!Take
<1>7. CASE Listen!StopTaking(i)
  <2> DEFINE b == [msgs |-> inboxes[i].msgs, worker |-> "draining"]
  <2>1. b \in BoxType(received) /\ b.worker # "none"
    BY <1>3 DEF BoxType
  <2>2. inboxes' = [inboxes EXCEPT ![i] = b]
    <3>1. inboxes' = [inboxes EXCEPT ![i] = [old EXCEPT !.worker = "draining"]]
      BY <1>2, <1>7 DEF Listen!StopTaking
    <3> QED BY <1>a, <3>1
  <2> HIDE DEF b
  <2> QED BY <1>0, <1>4, <1>7, <2>1, <2>2 DEF Listen!StopTaking
<1>8. CASE Listen!Drain(i)
  <2>1. CASE inboxes[i].msgs # <<>> /\ ~cut
    BY <1>5, <1>8, <2>1 DEF Listen!Drain
  <2>2. CASE ~(inboxes[i].msgs # <<>> /\ ~cut)
    <3> DEFINE b == [msgs |-> IF inboxes[i].msgs = <<>> THEN inboxes[i].msgs ELSE Tail(inboxes[i].msgs), worker |-> "gone"]
    <3>1. b \in BoxType(received) /\ b.worker # "none"
      BY <1>0, <1>3, BoxMessages DEF BoxType
    <3>2. /\ inboxes' = [inboxes EXCEPT ![i].worker = "gone", ![i].msgs = IF @ = <<>> THEN @ ELSE Tail(@)]
          /\ inboxes[i].worker = "draining" /\ handled' = handled
          /\ UNCHANGED <<boot, stopping, cut, wanted, attached, stored, listeners, cancels, starts, received>>
      BY <1>8, <2>2 DEF Listen!Drain
    <3>3. inboxes' = [inboxes EXCEPT ![i] = b]
      <4>1. inboxes' = [inboxes EXCEPT ![i] = [old EXCEPT !.worker = "gone", !.msgs = IF @ = <<>> THEN @ ELSE Tail(@)]]
        BY <1>2, <3>2
      <4> QED BY <1>a, <4>1
    <3> HIDE DEF b
    <3> QED BY <1>0, <1>4, <3>1, <3>2, <3>3
  <2> QED BY <2>1, <2>2
<1> QED BY <1>1, <1>6, <1>7, <1>8

\* A listener that has not gone gets on.
LEMMA EarStep ==
  ASSUME ListenIInv, NEW l \in Ears, Live(l), NEW e,
         received' \in 0 .. MaxMessages, received <= received', e \in EarType(Len(inboxes), received'),
         e.id = listeners[l].id, e.inbox = listeners[l].inbox, e.step = "handing" => e.msg # 0,
         ~e.cancelled => ~listeners[l].cancelled,
         listeners' = [listeners EXCEPT ![l] = e],
         inboxes' \in Seq(BoxType(received')), Len(inboxes') = Len(inboxes),
         \A i \in Boxes : inboxes'[i].worker = inboxes[i].worker,
         cancels' = cancels \/ (e.step = "gone" /\ cancels' = [cancels EXCEPT ![e.id] = 0]),
         UNCHANGED <<boot, stopping, cut, wanted, attached, stored, starts, handled>>
  PROVE  ListenIInv'
<1> USE ListenNumbers
<1>0. ListenTypes /\ Booting /\ Served /\ OneEach /\ Reached /\ Bounded
  BY DEF ListenIInv
<1>1. /\ received \in Nat /\ received' \in Nat /\ listeners \in Seq(EarType(Len(inboxes), received))
      /\ Len(listeners) \in Nat /\ l \in 1 .. Len(listeners)
  <2>1. received \in Nat /\ received' \in Nat /\ listeners \in Seq(EarType(Len(inboxes), received))
    BY <1>0 DEF ListenTypes
  <2> QED BY <2>1 DEF Ears
<1>2. 1 .. received \subseteq 1 .. received' /\ 0 .. received \subseteq 0 .. received'
  BY <1>1
<1>3. listeners \in Seq(EarType(Len(inboxes), received'))
  <2>1. EarType(Len(inboxes), received) \subseteq EarType(Len(inboxes), received')
    BY <1>2 DEF EarType
  <2> QED BY <1>1, <2>1, Widened
<1>4. /\ listeners' \in Seq(EarType(Len(inboxes), received')) /\ Len(listeners') = Len(listeners)
      /\ \A k \in Ears : listeners'[k] = IF k = l THEN e ELSE listeners[k]
  BY <1>1, <1>3, OneSet DEF Ears
<1>5. Ears' = Ears /\ Boxes' = Boxes
  BY <1>4 DEF Ears, Boxes
<1>6. /\ e.id \in Identities
      /\ cancels' \in [Identities -> 0 .. Len(listeners)]
      /\ \A i \in Identities : cancels'[i] = cancels[i] \/ (i = e.id /\ e.step = "gone")
  <2>1. e.id \in Identities /\ cancels \in [Identities -> 0 .. Len(listeners)] /\ 0 \in 0 .. Len(listeners)
    <3>1. e.id \in Identities
      BY DEF EarType
    <3>2. cancels \in [Identities -> 0 .. Len(listeners)]
      BY <1>0 DEF ListenTypes
    <3> QED BY <1>1, <3>1, <3>2
  <2>2. CASE cancels' = cancels
    BY <2>1, <2>2
  <2>3. CASE e.step = "gone" /\ cancels' = [cancels EXCEPT ![e.id] = 0]
    BY <2>1, <2>3
  <2> QED BY <2>2, <2>3
<1>7. ListenTypes'
  <2>1. handled' \in SUBSET (1 .. received')
    BY <1>0, <1>2 DEF ListenTypes
  <2>2. \A k \in Ears' : listeners'[k].step = "handing" => listeners'[k].msg # 0
    BY <1>0, <1>4, <1>5 DEF ListenTypes
  <2> QED BY <1>0, <1>4, <1>6, <2>1, <2>2 DEF ListenTypes
<1>8. listeners # <<>> /\ inboxes # <<>>
  <2>1. listeners # <<>>
    BY <1>1
  <2>2. Len(inboxes) # 0
    <3>1. listeners[l] \in EarType(Len(inboxes), received)
      BY <1>1
    <3> QED BY <3>1 DEF EarType
  <2> QED BY <2>1, <2>2
<1>9. Booting'
  BY <1>0, <1>8 DEF Booting, Boxes
<1>10. Served'
  BY <1>0, <1>4, <1>5 DEF Served
<1>11. OneEach'
  BY <1>0, <1>4, <1>5 DEF OneEach, Live
<1>12. Reached'
  <2>1. \A k \in Ears : listeners[k].id \in Identities
    <3>1. \A k \in Ears : listeners[k] \in EarType(Len(inboxes), received)
      BY <1>1 DEF Ears
    <3> QED BY <3>1 DEF EarType
  <2>2. ASSUME NEW k \in Ears, Uncancelled(k)' PROVE Uncancelled(k) /\ cancels'[listeners[k].id] = cancels[listeners[k].id]
    <3>1. Uncancelled(k) /\ (k = l => e.step # "gone")
      BY <1>4, <2>2 DEF Uncancelled, Live
    <3>2. listeners[k].id = e.id => k = l
      BY <1>0, <3>1 DEF OneEach, Uncancelled
    <3> QED BY <1>6, <2>1, <3>1, <3>2
  <2>3. \A k \in Ears : listeners'[k].id = listeners[k].id
    BY <1>4
  <2> QED BY <1>0, <1>5, <2>2, <2>3 DEF Reached
<1>13. Bounded'
  BY <1>0, <1>4 DEF Bounded
<1> QED BY <1>7, <1>9, <1>10, <1>11, <1>12, <1>13 DEF ListenIInv

LEMMA EarSteps ==
  ASSUME ListenIInv, NEW l \in DOMAIN listeners,
         Listen!Receive(l) \/ Listen!Hand(l) \/ Listen!Return(l) \/ Listen!Retry(l) \/ Listen!Leave(l)
  PROVE  ListenIInv'
<1> USE ListenNumbers
<1> DEFINE old == listeners[l]
<1>1. /\ received \in 0 .. MaxMessages /\ listeners \in Seq(EarType(Len(inboxes), received)) /\ inboxes \in Seq(BoxType(received))
      /\ stopping \in BOOLEAN
  BY DEF ListenIInv, ListenTypes
<1>2. l \in Ears /\ l \in 1 .. Len(listeners) /\ DOMAIN listeners = 1 .. Len(listeners)
  BY <1>1 DEF Ears
<1>3. /\ old \in EarType(Len(inboxes), received)
      /\ old.step = "handing" => old.msg # 0
  <2>1. old \in EarType(Len(inboxes), received)
    BY <1>1, <1>2
  <2> QED BY <1>2, <2>1 DEF ListenIInv, ListenTypes
<1>4. /\ old.id \in Identities /\ old.inbox \in 1 .. Len(inboxes) /\ old.step \in Steps /\ old.msg \in 0 .. received
      /\ old.cancelled \in BOOLEAN
      /\ old = [id |-> old.id, inbox |-> old.inbox, step |-> old.step, msg |-> old.msg, cancelled |-> old.cancelled]
  BY <1>3 DEF EarType
<1> HIDE DEF old
<1>5. ASSUME NEW s \in Steps, s # "handing", old.step # "gone", listeners' = [listeners EXCEPT ![l].step = s],
             UNCHANGED <<boot, stopping, cut, wanted, attached, stored, inboxes, cancels, starts, received, handled>>
      PROVE  ListenIInv'
  <2> DEFINE e == [old EXCEPT !.step = s]
  <2>1. listeners' = [listeners EXCEPT ![l] = e]
    BY <1>2, <1>5 DEF old
  <2>2. e \in EarType(Len(inboxes), received) /\ e.id = old.id /\ e.inbox = old.inbox /\ e.step # "handing" /\ e.cancelled = old.cancelled
    BY <1>3, <1>5 DEF EarType
  <2> HIDE DEF e
  <2>3. Live(l) /\ received' = received /\ received <= received /\ inboxes' = inboxes /\ cancels' = cancels
    BY <1>1, <1>5 DEF Live, old
  <2>4. UNCHANGED <<boot, stopping, cut, wanted, attached, stored, starts, handled>>
    BY <1>5
  <2>5. received' \in 0 .. MaxMessages /\ received <= received' /\ e \in EarType(Len(inboxes), received') /\ inboxes' \in Seq(BoxType(received'))
    BY <1>1, <2>2, <2>3
  <2> QED BY <1>2, <2>1, <2>2, <2>3, <2>4, <2>5, EarStep DEF old
<1>6. CASE Listen!Return(l)
  BY <1>5, <1>6 DEF Listen!Return, Listen!Step, Steps, old
<1>7. CASE Listen!Retry(l)
  BY <1>5, <1>7 DEF Listen!Retry, Listen!Step, Steps, old
<1>8. CASE Listen!Leave(l)
  <2> DEFINE e == [old EXCEPT !.step = "gone", !.cancelled = TRUE]
  <2>1. listeners' = [listeners EXCEPT ![l] = e] /\ cancels' = [cancels EXCEPT ![old.id] = 0]
    BY <1>2, <1>8 DEF old, Listen!Leave
  <2>2. e \in EarType(Len(inboxes), received) /\ e.id = old.id /\ e.inbox = old.inbox /\ e.step = "gone" /\ e.cancelled
    BY <1>3 DEF EarType, Steps
  <2> HIDE DEF e
  <2>3. Live(l) /\ received' = received /\ received <= received /\ inboxes' = inboxes
    BY <1>1, <1>8 DEF Live, Listen!Leave
  <2>4. UNCHANGED <<boot, stopping, cut, wanted, attached, stored, starts, handled>>
    BY <1>8 DEF Listen!Leave
  <2>5. received' \in 0 .. MaxMessages /\ received <= received' /\ e \in EarType(Len(inboxes), received') /\ inboxes' \in Seq(BoxType(received'))
    BY <1>1, <2>2, <2>3
  <2> QED BY <1>2, <2>1, <2>2, <2>3, <2>4, <2>5, EarStep DEF old
<1>9. CASE Listen!Receive(l)
  <2> DEFINE e == [old EXCEPT !.step = "handing", !.msg = received + 1]
  <2>1. listeners' = [listeners EXCEPT ![l] = e] /\ received' = received + 1
    BY <1>2, <1>9 DEF old, Listen!Receive
  <2>2. received < MaxMessages /\ received' \in 0 .. MaxMessages /\ received <= received' /\ received + 1 \in 0 .. (received + 1) /\ received + 1 # 0
    BY <1>1, <1>9, <2>1 DEF Listen!Receive
  <2>3. e \in EarType(Len(inboxes), received') /\ e.id = old.id /\ e.inbox = old.inbox /\ e.msg # 0 /\ e.cancelled = old.cancelled
    <3>1. old \in EarType(Len(inboxes), received + 1)
      <4>1. 0 .. received \subseteq 0 .. (received + 1)
        BY <1>1
      <4> QED BY <1>3, <4>1 DEF EarType
    <3> QED BY <2>1, <2>2, <3>1 DEF EarType, Steps
  <2> HIDE DEF e
  <2>4. Live(l) /\ inboxes' = inboxes /\ cancels' = cancels
    BY <1>9 DEF Live, Listen!Receive
  <2>5. UNCHANGED <<boot, stopping, cut, wanted, attached, stored, starts, handled>>
    BY <1>9 DEF Listen!Receive
  <2>6. inboxes' \in Seq(BoxType(received'))
    <3>1. BoxType(received) \subseteq BoxType(received + 1)
      BY <1>1, BoxMessages DEF BoxType
    <3> QED BY <1>1, <2>1, <2>4, <3>1, Widened
  <2> QED BY <1>2, <2>1, <2>2, <2>3, <2>4, <2>5, <2>6, EarStep DEF old
<1>10. CASE Listen!Hand(l)
  <2> DEFINE e == [old EXCEPT !.step = "listening", !.msg = 0]
             i == old.inbox
  <2>1. listeners' = [listeners EXCEPT ![l] = e]
    BY <1>2, <1>10 DEF old, Listen!Hand
  <2>2. e \in EarType(Len(inboxes), received) /\ e.id = old.id /\ e.inbox = old.inbox /\ e.step # "handing" /\ e.cancelled = old.cancelled
    <3>1. 0 \in 0 .. received
      BY <1>1
    <3> QED BY <1>3, <3>1 DEF EarType, Steps
  <2> HIDE DEF e
  <2>3. Live(l) /\ old.msg \in 1 .. received /\ i \in 1 .. Len(inboxes)
    <3>1. old.step = "handing"
      BY <1>10 DEF Listen!Hand, old
    <3>2. old.msg # 0 /\ old.msg \in 0 .. received /\ received \in Nat
      BY <1>1, <1>3, <1>4, <3>1
    <3> QED BY <1>4, <3>1, <3>2 DEF Live, old
  <2>4. received' = received /\ cancels' = cancels /\ received <= received
    BY <1>1, <1>10 DEF Listen!Hand
  <2>5. UNCHANGED <<boot, stopping, cut, wanted, attached, stored, starts, handled>>
    BY <1>10 DEF Listen!Hand
  <2>6. received' \in 0 .. MaxMessages /\ received <= received' /\ e \in EarType(Len(inboxes), received')
    BY <1>1, <2>2, <2>4
  <2>7. inboxes' \in Seq(BoxType(received)) /\ Len(inboxes') = Len(inboxes) /\ \A j \in Boxes : inboxes'[j].worker = inboxes[j].worker
    <3>1. CASE inboxes' = inboxes
      BY <1>1, <3>1
    <3>2. CASE Len(inboxes[i].msgs) < Room /\ inboxes' = [inboxes EXCEPT ![i].msgs = Append(@, old.msg)]
      <4> DEFINE b == [inboxes[i] EXCEPT !.msgs = Append(inboxes[i].msgs, old.msg)]
      <4>1. inboxes[i] \in BoxType(received)
        BY <1>1, <2>3
      <4>2. Append(inboxes[i].msgs, old.msg) \in Listen!BoundedSeq(1 .. received, Room)
        <5>1. inboxes[i].msgs \in Listen!BoundedSeq(1 .. received, Room) /\ received \in Nat
          BY <1>1, <4>1 DEF BoxType
        <5> QED BY <2>3, <3>2, <5>1, BoxMessages
      <4>3. b \in BoxType(received) /\ b.worker = inboxes[i].worker
        BY <4>1, <4>2 DEF BoxType
      <4>4. inboxes' = [inboxes EXCEPT ![i] = b]
        BY <2>3, <3>2
      <4> HIDE DEF b
      <4>5. /\ inboxes' \in Seq(BoxType(received)) /\ Len(inboxes') = Len(inboxes)
            /\ \A j \in 1 .. Len(inboxes) : inboxes'[j] = IF j = i THEN b ELSE inboxes[j]
        BY <1>1, <2>3, <4>3, <4>4, OneSet
      <4> QED BY <4>3, <4>5 DEF Boxes
    <3> QED BY <1>10, <3>1, <3>2 DEF Listen!Hand, old
  <2> QED BY <1>2, <2>1, <2>2, <2>3, <2>4, <2>5, <2>6, <2>7, EarStep DEF old
<1> QED BY <1>6, <1>7, <1>8, <1>9, <1>10

\* An account is attached, or taken away.
LEMMA AttachStep == ASSUME ~Early, ~Hasty, ListenIInv, NEW id \in Identities, Listen!Attach(id) PROVE ListenIInv'
<1> USE ListenNumbers
<1> DEFINE r == [id |-> id, inbox |-> 0]
<1>0. ListenTypes /\ Booting /\ Served /\ OneEach /\ Reached /\ Bounded
  BY DEF ListenIInv
<1>1. /\ boot = "serving" /\ Listen!Coming(id) = {} /\ Listen!Live(id) = {}
      /\ wanted' = wanted \cup {id} /\ attached' = attached \cup {id} /\ starts' = starts \cup {r}
      /\ Len(listeners) + Cardinality(starts) < MaxListeners
      /\ UNCHANGED <<boot, stopping, cut, stored, inboxes, listeners, cancels, received, handled>>
  <2>1. /\ boot = "serving" /\ Listen!Coming(id) = {} /\ Listen!Live(id) = {}
        /\ wanted' = wanted \cup {id} /\ attached' = attached \cup {id} /\ starts' = starts \cup {r}
        /\ Len(listeners) + Cardinality(starts) < MaxListeners - 0
        /\ UNCHANGED <<boot, stopping, cut, stored, inboxes, listeners, cancels, received, handled>>
    BY DEF Listen!Attach, Listen!Cardinality, Cardinality
  <2> QED BY <2>1
<1>2. /\ r \in StartType(Len(inboxes)) /\ r.id = id /\ r.inbox = 0 /\ 0 \notin Boxes
      /\ Len(listeners) \in Nat /\ listeners \in Seq(EarType(Len(inboxes), received))
  <2>1. Len(inboxes) \in Nat /\ Len(listeners) \in Nat /\ listeners \in Seq(EarType(Len(inboxes), received))
    BY <1>0 DEF ListenTypes
  <2>2. 0 \in 0 .. Len(inboxes) /\ 0 \notin Boxes
    BY <2>1 DEF Boxes
  <2> QED BY <2>1, <2>2 DEF StartType
<1> HIDE DEF r
<1>3. r \notin starts /\ \A s \in starts : s.id # id
  BY <1>1, <1>2 DEF Listen!Coming
<1>4. \A l \in Ears : Live(l) => listeners[l].id # id
  <2>1. \A l \in Ears : l \in DOMAIN listeners /\ listeners[l].step \in Steps
    <3>1. \A l \in Ears : l \in DOMAIN listeners /\ listeners[l] \in EarType(Len(inboxes), received)
      BY <1>2 DEF Ears
    <3> QED BY <3>1 DEF EarType
  <2> QED BY <1>1, <2>1 DEF Live, Steps, Listen!Live
<1>5. Ears' = Ears /\ Boxes' = Boxes
  BY <1>1 DEF Ears, Boxes
<1>6. ListenTypes'
  <2>1. wanted' \in SUBSET attached' /\ attached' \in SUBSET Identities /\ starts' \in SUBSET StartType(Len(inboxes))
    BY <1>0, <1>1, <1>2 DEF ListenTypes
  <2> QED BY <1>0, <1>1, <1>5, <2>1 DEF ListenTypes
<1>7. Booting'
  BY <1>1 DEF Booting
<1>8. Served'
  BY <1>0, <1>1, <1>2, <1>5 DEF Served
<1>9. OneEach'
  BY <1>0, <1>1, <1>2, <1>3, <1>4, <1>5 DEF OneEach, Live
<1>10. Reached'
  BY <1>0, <1>1, <1>5 DEF Reached, Uncancelled, Live
<1>11. Bounded'
  <2>1. IsFiniteSet(starts') /\ Cardinality(starts') = Cardinality(starts) + 1 /\ Cardinality(starts) \in Nat
    BY <1>0, <1>1, <1>3, FS_AddElement, FS_CardinalityType DEF Bounded
  <2> QED BY <1>1, <1>2, <2>1 DEF Bounded
<1> QED BY <1>6, <1>7, <1>8, <1>9, <1>10, <1>11 DEF ListenIInv

LEMMA DetachStep == ASSUME ~Early, ~Hasty, ListenIInv, NEW id \in Identities, Listen!Detach(id) PROVE ListenIInv'
<1> USE ListenNumbers
<1>0. ListenTypes /\ Booting /\ Served /\ OneEach /\ Reached /\ Bounded
  BY DEF ListenIInv
<1>1. /\ boot = "serving" /\ Listen!Coming(id) = {} /\ wanted' = wanted \ {id}
      /\ cancels' = [cancels EXCEPT ![id] = 0]
      /\ listeners' = (IF cancels[id] = 0 THEN listeners ELSE [listeners EXCEPT ![cancels[id]].cancelled = TRUE])
      /\ UNCHANGED <<boot, stopping, cut, attached, stored, inboxes, starts, received, handled>>
  BY DEF Listen!Detach
<1>2. /\ listeners \in Seq(EarType(Len(inboxes), received)) /\ Len(listeners) \in Nat
      /\ cancels \in [Identities -> 0 .. Len(listeners)]
  <2>1. listeners \in Seq(EarType(Len(inboxes), received)) /\ cancels \in [Identities -> 0 .. Len(listeners)]
    BY <1>0 DEF ListenTypes
  <2> QED BY <2>1
<1>3. /\ cancels' \in [Identities -> 0 .. Len(listeners)]
      /\ \A i \in Identities : cancels'[i] = IF i = id THEN 0 ELSE cancels[i]
  <2>1. 0 \in 0 .. Len(listeners)
    BY <1>2
  <2> QED BY <1>1, <1>2, <2>1
<1>4. /\ listeners' \in Seq(EarType(Len(inboxes), received)) /\ Len(listeners') = Len(listeners)
      /\ \A l \in Ears : /\ listeners'[l].id = listeners[l].id /\ listeners'[l].inbox = listeners[l].inbox
                         /\ listeners'[l].step = listeners[l].step /\ listeners'[l].msg = listeners[l].msg
                         /\ ~listeners'[l].cancelled => ~listeners[l].cancelled /\ l # cancels[id]
  <2>1. CASE cancels[id] = 0
    <3>1. listeners' = listeners /\ \A l \in Ears : l # 0
      BY <1>1, <2>1 DEF Ears
    <3> QED BY <1>2, <2>1, <3>1
  <2>2. CASE cancels[id] # 0
    <3> DEFINE n == cancels[id]
               e == [listeners[n] EXCEPT !.cancelled = TRUE]
    <3>1. n \in 1 .. Len(listeners)
      BY <1>2, <2>2
    <3>2. listeners[n] \in EarType(Len(inboxes), received)
      BY <1>2, <3>1
    <3>3. /\ e \in EarType(Len(inboxes), received) /\ e.id = listeners[n].id /\ e.inbox = listeners[n].inbox
          /\ e.step = listeners[n].step /\ e.msg = listeners[n].msg /\ e.cancelled
      BY <3>2 DEF EarType
    <3>4. listeners' = [listeners EXCEPT ![n] = e]
      BY <1>1, <2>2
    <3> HIDE DEF n, e
    <3>5. /\ listeners' \in Seq(EarType(Len(inboxes), received)) /\ Len(listeners') = Len(listeners)
          /\ \A l \in 1 .. Len(listeners) : listeners'[l] = IF l = n THEN e ELSE listeners[l]
      BY <1>2, <3>1, <3>3, <3>4, OneSet
    <3> QED BY <3>3, <3>5 DEF Ears, n
  <2> QED BY <2>1, <2>2
<1>5. Ears' = Ears /\ Boxes' = Boxes
  BY <1>1, <1>4 DEF Ears, Boxes
<1>6. \A l \in Ears : Live(l)' <=> Live(l)
  BY <1>4 DEF Live
<1>7. ListenTypes'
  <2>1. wanted' \in SUBSET attached
    BY <1>0, <1>1 DEF ListenTypes
  <2>2. \A l \in Ears' : listeners'[l].step = "handing" => listeners'[l].msg # 0
    BY <1>0, <1>4, <1>5 DEF ListenTypes
  <2> QED BY <1>0, <1>1, <1>3, <1>4, <2>1, <2>2 DEF ListenTypes
<1>8. Booting'
  BY <1>1 DEF Booting
<1>9. Served'
  BY <1>0, <1>1, <1>4, <1>5 DEF Served
<1>10. OneEach'
  <2>1. \A s \in starts : s.id # id
    BY <1>1 DEF Listen!Coming
  <2>2. \A s \in starts' : s.id \in wanted'
    BY <1>0, <1>1, <2>1 DEF OneEach
  <2>3. \A s \in starts', l \in Ears : Live(l)' => listeners'[l].id # s.id
    BY <1>0, <1>1, <1>4, <1>6 DEF OneEach
  <2>4. \A l, k \in Ears : Live(l)' /\ Live(k)' /\ listeners'[l].id = listeners'[k].id => l = k
    BY <1>0, <1>4, <1>6 DEF OneEach
  <2>5. \A s, r \in starts' : s.id = r.id => s = r
    BY <1>0, <1>1 DEF OneEach
  <2> QED BY <1>5, <2>2, <2>3, <2>4, <2>5 DEF OneEach
<1>11. Reached'
  <2>1. \A l \in Ears : listeners[l].id \in Identities
    <3>1. \A l \in Ears : listeners[l] \in EarType(Len(inboxes), received)
      BY <1>2 DEF Ears
    <3> QED BY <3>1 DEF EarType
  <2>2. ASSUME NEW l \in Ears, Uncancelled(l)'
        PROVE  listeners'[l].id \in wanted' /\ cancels'[listeners'[l].id] = l
    <3>1. Uncancelled(l) /\ l # cancels[id]
      BY <1>4, <1>6, <2>2 DEF Uncancelled
    <3>2. listeners[l].id \in wanted /\ cancels[listeners[l].id] = l /\ listeners[l].id # id
      BY <1>0, <3>1 DEF Reached
    <3> QED BY <1>1, <1>3, <1>4, <2>1, <3>2
  <2> QED BY <1>5, <2>2 DEF Reached
<1>12. Bounded'
  BY <1>0, <1>1, <1>4 DEF Bounded
<1> QED BY <1>7, <1>8, <1>9, <1>10, <1>11, <1>12 DEF ListenIInv

LEMMA ListenSteps == ~Early /\ ~Hasty /\ ListenIInv /\ Listen!Next => ListenIInv'
<1> SUFFICES ASSUME ~Early, ~Hasty, ListenIInv, Listen!Next PROVE ListenIInv'
  OBVIOUS
<1>1. /\ inboxes \in Seq(BoxType(received)) /\ handled \in SUBSET (1 .. received) /\ stopping \in BOOLEAN /\ cut \in BOOLEAN
  BY DEF ListenIInv, ListenTypes
<1>2. CASE Listen!Stop
  BY <1>1, <1>2, BoxStep DEF Listen!Stop
<1>3. CASE Listen!CancelTurns
  BY <1>1, <1>3, BoxStep DEF Listen!CancelTurns
<1> QED BY <1>2, <1>3, ServeStep, StartStep, WorkStep, AttachStep, DetachStep, EarSteps DEF Listen!Next

\* What the modules' other parts do leaves the listeners as they are.
LEMMA ListenStutters == ListenIInv /\ UNCHANGED listenVars => ListenIInv'
<1> SUFFICES ASSUME ListenIInv, UNCHANGED listenVars PROVE ListenIInv'
  OBVIOUS
<1>1. /\ UNCHANGED <<boot, stopping, cut, wanted, attached, stored, inboxes, listeners, cancels, starts, received, handled>>
      /\ inboxes \in Seq(BoxType(received)) /\ handled \in SUBSET (1 .. received) /\ stopping \in BOOLEAN /\ cut \in BOOLEAN
  BY DEF listenVars, ListenIInv, ListenTypes
<1> QED BY <1>1, BoxStep

LEMMA ListenEstablished == ListenIInv => Listen!ListenersInv
<1> USE ListenNumbers
<1> SUFFICES ASSUME ListenIInv PROVE Listen!ListenersInv
  OBVIOUS
<1>0. ListenTypes /\ Booting /\ Served /\ OneEach /\ Reached /\ Bounded
  BY DEF ListenIInv
<1>1. /\ received \in 0 .. MaxMessages /\ inboxes \in Seq(BoxType(received)) /\ listeners \in Seq(EarType(Len(inboxes), received))
      /\ DOMAIN inboxes = Boxes /\ DOMAIN listeners = Ears /\ Len(listeners) \in Nat
  <2>1. received \in 0 .. MaxMessages /\ inboxes \in Seq(BoxType(received)) /\ listeners \in Seq(EarType(Len(inboxes), received))
    BY <1>0 DEF ListenTypes
  <2> QED BY <2>1 DEF Boxes, Ears
<1>2. \A l \in Ears : listeners[l] \in EarType(Len(inboxes), received)
  BY <1>1 DEF Ears
<1>3. Steps = Listen!Running \cup {"gone"}
  BY DEF Steps
<1>4. \A l \in Ears : /\ listeners[l].step \in Listen!Running <=> Live(l)
                      /\ listeners[l].inbox \in Boxes
  BY <1>2 DEF EarType, Steps, Live, Boxes
<1>5. Listen!TypeOK
  <2>1. \A i \in DOMAIN inboxes : /\ inboxes[i].msgs \in Listen!BoundedSeq(1 .. received, Room)
                                  /\ inboxes[i].worker \in {"none", "on", "draining", "gone"}
    <3>1. \A i \in DOMAIN inboxes : inboxes[i] \in BoxType(received)
      BY <1>1
    <3> QED BY <3>1 DEF BoxType
  <2>2. \A l \in DOMAIN listeners : listeners[l] \in
          [id : Identities, inbox : DOMAIN inboxes, step : Listen!Running \cup {"gone"}, msg : 0 .. received, cancelled : BOOLEAN]
    BY <1>1, <1>2, <1>3 DEF EarType, Boxes
  <2>3. Len(listeners) <= MaxListeners
    <3>1. Cardinality(starts) \in Nat
      BY <1>0, FS_CardinalityType DEF Bounded
    <3> QED BY <1>0, <1>1, <3>1 DEF Bounded
  <2> QED BY <1>0, <2>1, <2>2, <2>3 DEF ListenTypes, StartType, Listen!TypeOK
<1>6. Listen!OnlyWanted
  <2>1. \A l \in Ears : listeners[l].step \in Listen!Running /\ ~listeners[l].cancelled =>
          /\ listeners[l].id \in wanted
          /\ \A k \in Ears \ {l} : listeners[k].id = listeners[l].id => listeners[k].step = "gone"
    BY <1>0, <1>4 DEF Reached, Uncancelled, OneEach, Live
  <2> QED BY <1>1, <2>1 DEF Listen!OnlyWanted
<1>7. Listen!InReach
  BY <1>0, <1>1 DEF Reached, Uncancelled, Live, Listen!InReach
<1>8. Listen!NoneUnread
  <2>1. \A l \in Ears : inboxes[listeners[l].inbox].worker = "none" => boot = "started"
    <3> SUFFICES ASSUME NEW l \in Ears, inboxes[listeners[l].inbox].worker = "none" PROVE boot = "started"
      OBVIOUS
    <3>1. boot \notin {"nobody", "serving"}
      BY <1>0, <1>4 DEF Served
    <3>2. listeners # <<>>
      BY <1>1 DEF Ears
    <3> QED BY <1>0, <3>1, <3>2 DEF Booting, ListenTypes
  <2> QED BY <1>1, <2>1 DEF Listen!NoneUnread
<1> QED BY <1>5, <1>6, <1>7, <1>8 DEF Listen!ListenersInv

LEMMA ListenInvariant == ~Early /\ ~Hasty => (FairSpec => []ListenIInv)
<1>1. Init => ListenIInv
  BY ListenInit DEF Init
<1>2. ASSUME ~Early, ~Hasty PROVE ListenIInv /\ [Next]_vars => ListenIInv'
  <2> SUFFICES ASSUME ListenIInv, [Next]_vars PROVE ListenIInv'
    OBVIOUS
  <2>1. CASE Listen!Next
    BY <1>2, <2>1, ListenSteps
  <2>2. CASE UNCHANGED listenVars
    BY <2>2, ListenStutters
  <2> QED BY <2>1, <2>2 DEF Next, vars
<1>3. CASE ~Early /\ ~Hasty
  BY <1>1, <1>2, <1>3, PTL DEF FairSpec
<1>4. CASE ~(~Early /\ ~Hasty)
  BY <1>4
<1> QED BY <1>3, <1>4

(* Where accounts are attached and taken away when ListenAndServe serves, one  *)
(* change of an account after the other: what listens uncancelled is wanted,   *)
(* is its account's only listener, can be cancelled by listenerCancels, and    *)
(* feeds an inbox that a worker reads (listen.go: startOneListener,            *)
(* StopIdentityListeners, getOrCreateInbox, ListenAndServe).                   *)
THEOREM ListenHolds == ~Early /\ ~Hasty => (FairSpec => []ListenersInv)
<1>1. ListenIInv => ListenersInv
  BY ListenEstablished DEF ListenersInv
<1> QED BY <1>1, ListenInvariant, PTL

(***************************************************************************)
(* Line: the inductive invariant.  In every world, for the order; in a calm *)
(* one, where the last message and its words are.                          *)
(***************************************************************************)
Msgs == 1 .. N
Texts == 0 .. MaxEdits
SaidType == [id : Msgs, words : Texts]
MsgType == [id : Msgs, words : Texts, lookUps : BOOLEAN]
EventType == [id : Msgs, words : Texts, edited : BOOLEAN]
LineType == [on : BOOLEAN, msgs : Seq(MsgType), current : Msgs \cup {0}]
TurnSteps == {"none", "taken", "running", "keeping", "sending", "noting", "ending"}
TurnType == [step : TurnSteps, msg : SUBSET MsgType, cut : BOOLEAN, changed : BOOLEAN, fails : BOOLEAN]
EditorType == [step : {"read", "rewind", "clear", "enqueue"}, id : Msgs, words : Texts, changed : BOOLEAN]
LastType == [id : Msgs \cup {0}, words : Texts, changed : BOOLEAN]

LineTypes ==
  /\ words \in [Msgs -> Texts \cup {-1}] /\ inbox \in Seq(EventType) /\ disp \in SUBSET SaidType
  /\ line \in LineType /\ turn \in TurnType /\ editors \in SUBSET EditorType
  /\ history \in Seq(SaidType) /\ last \in LastType /\ begun \in Seq(SaidType)
  /\ stopped \in BOOLEAN /\ calm \in BOOLEAN
  /\ \A x, y \in disp : x = y
  /\ \A x, y \in turn.msg : x = y
  /\ IF line.on THEN turn.step # "none" /\ turn.msg # {} ELSE line = Line!NoLine /\ turn = Line!NoTurn

Turns == 1 .. Len(begun)
Spots == 1 .. Len(line.msgs)
Entries == 1 .. Len(inbox)
HadTurn(m) == \E i \in Turns : begun[i].id = m
Taken(m) == turn.step = "taken" /\ \E t \in turn.msg : t.id = m
Started(m) == HadTurn(m) \/ Taken(m)
InLine(m) == \E i \in Spots : line.msgs[i].id = m
InBox(m) == \E i \in Entries : inbox[i].id = m /\ ~inbox[i].edited
\* Left behind in the line of a server that stopped.
Lost(m) == words[m] # -1 /\ ~Started(m) /\ ~InLine(m) /\ ~InBox(m)

\* Wherever a message is, those before it are ahead of it.
TurnsInOrder == \A j \in Turns, m \in Msgs : m < begun[j].id => Lost(m) \/ \E i \in 1 .. (j - 1) : begun[i].id = m
TakenInOrder == \A m \in Msgs, k \in Msgs : Taken(k) /\ m < k => Lost(m) \/ HadTurn(m)
LineInOrder ==
  \A j \in Spots, m \in Msgs : m < line.msgs[j].id =>
    Lost(m) \/ Started(m) \/ \E i \in 1 .. (j - 1) : line.msgs[i].id = m
BoxInOrder ==
  \A j \in Entries, m \in Msgs : ~inbox[j].edited /\ m < inbox[j].id =>
    Lost(m) \/ Started(m) \/ InLine(m) \/ \E i \in 1 .. (j - 1) : inbox[i].id = m /\ ~inbox[i].edited
\* A message is on its way once, from when it was written; only then it is in line, and again only after an edit.
Apart ==
  /\ \A m \in Msgs : Started(m) \/ InLine(m) \/ InBox(m) => words[m] # -1
  /\ \A m \in Msgs : InBox(m) => ~Started(m) /\ ~InLine(m)
  /\ \A i, j \in Entries : ~inbox[i].edited /\ ~inbox[j].edited /\ inbox[i].id = inbox[j].id => i = j
Ordered == TurnsInOrder /\ TakenInOrder /\ LineInOrder /\ BoxInOrder /\ Apart

\* What is answered again had a turn.
Had == {begun[i].id : i \in Turns}
Known ==
  /\ line.current # 0 => line.current \in Had
  /\ last.id # 0 => last.id \in Had
  /\ turn.step # "taken" => \A t \in turn.msg : t.id \in Had
  /\ \A x \in editors : x.step # "read" => x.id \in Had

\* In a calm world nothing stops or fails, and only the last message is edited.
CalmWorld ==
  /\ ~stopped /\ turn.step # "taken" /\ (turn.fails => turn.cut)
  /\ \A t \in turn.msg : line.current = t.id /\ (turn.cut => t.id = N)
  /\ \A e \in disp : e.id = N
  /\ \A i \in Entries : inbox[i].edited => inbox[i].id = N
  /\ \A m \in Msgs : m < N => words[m] < 1
  /\ \A m, k \in Msgs : m < k /\ words[m] = -1 => words[k] = -1

Unanswered == {"running", "keeping", "sending"}
Comes(m, w) == \E i \in Entries : inbox[i].id = m /\ inbox[i].words = w /\ ~inbox[i].edited
Queued(m, w) == \E i \in Spots : line.msgs[i].id = m /\ line.msgs[i].words = w
InHand(m, w) == turn.step \in Unanswered /\ ~turn.cut /\ \E t \in turn.msg : t.id = m /\ t.words = w
OnItsWay(m, w) == Comes(m, w) \/ Queued(m, w) \/ InHand(m, w)
Replied(m, w) == [id |-> m, words |-> w] \in out
EarlierAnswered == \A m \in Msgs : m < N /\ words[m] = 0 => OnItsWay(m, 0) \/ Replied(m, 0)

\* Where the last message is, in its first words, and where its edit is.
NoneEdited == \A i \in Entries : ~inbox[i].edited
OnlyEdited == \A i \in Entries : inbox[i].edited
Boxed ==
  /\ disp = {} /\ editors = {} /\ last.id # N
  /\ \E p \in Entries : /\ inbox[p].id = N /\ inbox[p].words = 0 /\ ~inbox[p].edited
                        /\ \A i \in Entries : i > p => inbox[i].edited
Lined ==
  /\ OnlyEdited /\ editors = {} /\ last.id # N /\ line.msgs # <<>>
  /\ \A i \in Spots : IF i = Len(line.msgs) THEN line.msgs[i].id = N /\ line.msgs[i].words = 0 ELSE line.msgs[i].id # N
  /\ \A t \in turn.msg : t.id # N
Turning ==
  /\ OnlyEdited /\ editors = {} /\ last.id # N /\ line.msgs = <<>>
  /\ turn.step \in Unanswered \cup {"noting"} /\ (turn.step = "noting" => Replied(N, 0))
  /\ \A t \in turn.msg : t.id = N /\ t.words = 0
Noted ==
  /\ OnlyEdited /\ last.id = N /\ last.words = 0 /\ line.msgs = <<>>
  /\ turn.step \in {"none", "ending"} /\ Replied(N, 0)
Old == ~turn.cut /\ (Boxed \/ Lined \/ Turning \/ Noted)

NoEdit == NoneEdited /\ disp = {} /\ editors = {}
EditBoxed ==
  /\ inbox # <<>> /\ inbox[Len(inbox)] = [id |-> N, words |-> 1, edited |-> TRUE]
  /\ \A i \in Entries : inbox[i].edited => i = Len(inbox)
  /\ disp = {} /\ editors = {}
EditTaken == NoneEdited /\ disp = {[id |-> N, words |-> 1]} /\ editors = {}
EditRead ==
  /\ NoneEdited /\ disp = {} /\ Noted
  /\ editors = {[step |-> "read", id |-> N, words |-> 1, changed |-> FALSE]}
Again ==
  /\ NoneEdited /\ disp = {}
  /\ \E x \in editors : editors = {x} /\ x.step # "read" /\ x.id = N /\ x.words = 1
New == NoEdit /\ (OnItsWay(N, 1) \/ Replied(N, 1))

LatestKnown ==
  /\ words[N] = -1 => NoEdit /\ ~turn.cut
  /\ words[N] = 0 => Old /\ NoEdit
  /\ words[N] = 1 => (Old /\ (EditBoxed \/ EditTaken \/ EditRead)) \/ Again \/ New
CalmInv == calm => CalmWorld /\ EarlierAnswered /\ LatestKnown

(***************************************************************************)
(* Line: types.                                                            *)
(***************************************************************************)
LEMMA LineNumbers ==
  /\ N \in Nat \ {0} /\ MaxEdits \in Nat /\ Line!Ids = Msgs /\ Line!Words = Texts /\ Line!NoId = 0
  /\ Line!Said = SaidType /\ Line!Msg = MsgType /\ 0 \notin Msgs /\ 0 \in Texts /\ N \in Msgs
  /\ Line!NoTurn = [step |-> "none", msg |-> {}, cut |-> FALSE, changed |-> FALSE, fails |-> FALSE]
  /\ Line!NoLine = [on |-> FALSE, msgs |-> <<>>, current |-> 0]
  /\ Line!NoLast = [id |-> 0, words |-> 0, changed |-> FALSE]
<1>1. N \in Nat \ {0} /\ MaxEdits \in Nat
  BY IncomingConstants DEF Line!LineConstants
<1>2. 0 \notin Msgs /\ 0 \in Texts /\ N \in Msgs
  BY <1>1 DEF Msgs, Texts
<1> QED BY <1>1, <1>2 DEF Line!Ids, Line!Words, Line!NoId, Line!Said, Line!Msg, Line!NoTurn, Line!NoLine, Line!NoLast,
             Msgs, Texts, SaidType, MsgType

LEMMA Behead ==
  ASSUME NEW T, NEW s \in Seq(T), s # <<>>
  PROVE  /\ Head(s) \in T /\ Head(s) = s[1] /\ Len(s) \in Nat \ {0}
         /\ Tail(s) \in Seq(T) /\ Len(Tail(s)) = Len(s) - 1
         /\ \A i \in 1 .. (Len(s) - 1) : Tail(s)[i] = s[i + 1]
OBVIOUS

LEMMA Fronted ==
  ASSUME NEW T, NEW s \in Seq(T), NEW x \in T
  PROVE  /\ <<x>> \o s \in Seq(T) /\ Len(<<x>> \o s) = Len(s) + 1 /\ Len(s) \in Nat
         /\ (<<x>> \o s)[1] = x /\ \A i \in 1 .. Len(s) : (<<x>> \o s)[i + 1] = s[i]
OBVIOUS

\* What the line's goroutine begins with.
Starts(m, rest) ==
  /\ line' = [on |-> TRUE, msgs |-> rest, current |-> IF calm THEN m.id ELSE 0]
  /\ turn' = [step |-> IF calm THEN "running" ELSE "taken", msg |-> {m}, cut |-> FALSE, changed |-> FALSE, fails |-> FALSE]
  /\ begun' = IF calm THEN Append(begun, [id |-> m.id, words |-> m.words]) ELSE begun
Joins(m) == line' = [line EXCEPT !.msgs = Append(@, m)] /\ turn' = turn /\ begun' = begun

LEMMA BeginsWith ==
  ASSUME NEW m PROVE /\ Line!Begin(m) = [step |-> IF calm THEN "running" ELSE "taken", msg |-> {m}, cut |-> FALSE,
                                        changed |-> FALSE, fails |-> FALSE]
                     /\ Line!CurrentOf(m) = (IF calm THEN m.id ELSE 0)
                     /\ Line!Begun(m) = (IF calm THEN Append(begun, [id |-> m.id, words |-> m.words]) ELSE begun)
<1>1. Line!NoTurn = [step |-> "none", msg |-> {}, cut |-> FALSE, changed |-> FALSE, fails |-> FALSE] /\ Line!NoId = 0
  BY LineNumbers
<1>2. Line!Begin(m) = [[step |-> "none", msg |-> {}, cut |-> FALSE, changed |-> FALSE, fails |-> FALSE]
                         EXCEPT !.step = IF calm THEN "running" ELSE "taken", !.msg = {m}]
  BY <1>1 DEF Line!Begin
<1>3. Line!CurrentOf(m) = (IF calm THEN m.id ELSE 0)
  BY <1>1 DEF Line!CurrentOf
<1>4. Line!Begun(m) = (IF calm THEN Append(begun, [id |-> m.id, words |-> m.words]) ELSE begun)
  BY DEF Line!Begun, Line!What
<1> QED BY <1>2, <1>3, <1>4

LEMMA Enqueued == ASSUME NEW m, Line!Enqueue(m) PROVE IF line.on THEN Joins(m) ELSE Starts(m, <<>>)
BY BeginsWith DEF Line!Enqueue, Joins, Starts

LEMMA StartedTypes ==
  ASSUME LineTypes, NEW m \in MsgType, NEW rest \in Seq(MsgType), Starts(m, rest)
  PROVE  /\ line' \in LineType /\ turn' \in TurnType /\ begun' \in Seq(SaidType) /\ \A x, y \in turn'.msg : x = y
         /\ line'.on /\ line'.msgs = rest /\ turn'.step # "none" /\ turn'.msg = {m}
<1>1. m.id \in Msgs /\ [id |-> m.id, words |-> m.words] \in SaidType
  BY DEF MsgType, SaidType
<1>2. line' \in LineType /\ line'.on /\ line'.msgs = rest
  BY <1>1 DEF Starts, LineType
<1>3. turn' \in TurnType /\ turn'.step # "none" /\ turn'.msg = {m}
  BY DEF Starts, TurnType, TurnSteps
<1>4. begun' \in Seq(SaidType)
  BY <1>1, OneAppended DEF Starts, LineTypes
<1> QED BY <1>2, <1>3, <1>4

LEMMA EnqueuedTypes ==
  ASSUME LineTypes, NEW m \in MsgType, Line!Enqueue(m)
  PROVE  /\ line' \in LineType /\ turn' \in TurnType /\ begun' \in Seq(SaidType) /\ \A x, y \in turn'.msg : x = y
         /\ line'.on /\ turn'.step # "none" /\ turn'.msg # {}
<1>1. CASE line.on
  <2>1. Joins(m) /\ line \in LineType /\ line.msgs \in Seq(MsgType)
    BY <1>1, Enqueued DEF LineTypes, LineType
  <2>2. Append(line.msgs, m) \in Seq(MsgType)
    BY <2>1, OneAppended
  <2>3. line' \in LineType /\ line'.on
    BY <1>1, <2>1, <2>2 DEF Joins, LineType
  <2> QED BY <1>1, <2>1, <2>3 DEF LineTypes, Joins
<1>2. CASE ~line.on
  <2>1. <<>> \in Seq(MsgType)
    OBVIOUS
  <2> QED BY <1>2, <2>1, Enqueued, StartedTypes
<1> QED BY <1>1, <1>2

\* The words of a message that waits are replaced where it stands.
LEMMA Reworded ==
  ASSUME LineTypes, NEW e \in disp, Line!Waiting(e) # {},
         line' = [line EXCEPT !.msgs[Line!FirstOf(Line!Waiting(e))].words = e.words]
  PROVE  /\ line' \in LineType /\ line'.on = line.on /\ line'.current = line.current /\ Len(line'.msgs) = Len(line.msgs)
         /\ \A j \in Spots : line'.msgs[j].id = line.msgs[j].id
         /\ \E k \in Spots : /\ line.msgs[k].id = e.id /\ line'.msgs[k].words = e.words
                             /\ \A j \in Spots : j # k => line'.msgs[j] = line.msgs[j]
<1> DEFINE W == Line!Waiting(e)
           k == Line!FirstOf(W)
<1>1. line \in LineType /\ line.msgs \in Seq(MsgType) /\ e \in SaidType /\ e.id \in Msgs /\ e.words \in Texts
  <2>1. line \in LineType /\ e \in SaidType
    BY DEF LineTypes
  <2> QED BY <2>1 DEF LineType, SaidType
<1>2. W = {i \in Spots : line.msgs[i].id = e.id} /\ W # {}
  BY <1>1 DEF Line!Waiting, Spots
<1>3. k \in W
  <2>1. W \subseteq Nat
    BY <1>1, <1>2 DEF Spots
  <2>2. PICK x \in W : \A y \in W : ~(<<y, x>> \in OpToRel(<, Nat))
    BY <1>2, <2>1, NatLessThanWellFounded, WFMin
  <2> HIDE DEF W
  <2>3. ASSUME NEW y \in W PROVE x <= y
    <3>1. x \in Nat /\ y \in Nat
      BY <2>1, <2>2
    <3>2. ~(y < x)
      BY <2>2, <3>1 DEF OpToRel
    <3> QED BY <3>1, <3>2
  <2> QED BY <2>3 DEF Line!FirstOf
<1>4. k \in Spots /\ k \in 1 .. Len(line.msgs) /\ line.msgs[k].id = e.id /\ line.msgs[k] \in MsgType
  <2>1. k \in Spots /\ line.msgs[k].id = e.id
    <3> HIDE DEF k
    <3> QED BY <1>2, <1>3
  <2>2. k \in 1 .. Len(line.msgs)
    BY <2>1 DEF Spots
  <2> HIDE DEF k, W
  <2>3. line.msgs[k] \in MsgType
    BY <1>1, <2>2
  <2> QED BY <2>1, <2>2, <2>3
<1> HIDE DEF W, k
<1> DEFINE m == [line.msgs[k] EXCEPT !.words = e.words]
<1>5. m \in MsgType /\ m.id = e.id /\ m.words = e.words
  BY <1>1, <1>4 DEF MsgType
<1>6. line' = [line EXCEPT !.msgs = [line.msgs EXCEPT ![k] = m]]
  BY <1>1, <1>4 DEF k, W
<1> HIDE DEF m
<1> DEFINE q == [line.msgs EXCEPT ![k] = m]
<1>7. q \in Seq(MsgType) /\ Len(q) = Len(line.msgs) /\ \A j \in Spots : q[j] = IF j = k THEN m ELSE line.msgs[j]
  BY <1>1, <1>4, <1>5, OneSet DEF Spots
<1>8. line' = [line EXCEPT !.msgs = q]
  BY <1>6
<1> HIDE DEF q
<1>9. line' \in LineType /\ line'.on = line.on /\ line'.current = line.current /\ line'.msgs = q
  BY <1>1, <1>7, <1>8 DEF LineType
<1> QED BY <1>4, <1>5, <1>7, <1>9

\* A message that is being answered is put in front of the line, in its new words.
LEMMA PutInFront ==
  ASSUME LineTypes, NEW m \in MsgType, line' = [line EXCEPT !.msgs = <<m>> \o @], turn' = [turn EXCEPT !.cut = TRUE]
  PROVE  /\ line' \in LineType /\ line'.on = line.on /\ line'.current = line.current
         /\ Len(line'.msgs) = Len(line.msgs) + 1 /\ line'.msgs[1] = m /\ \A i \in Spots : line'.msgs[i + 1] = line.msgs[i]
         /\ turn' \in TurnType /\ turn'.step = turn.step /\ turn'.msg = turn.msg /\ turn'.cut /\ turn'.fails = turn.fails
<1>1. line \in LineType /\ turn \in TurnType /\ line.msgs \in Seq(MsgType)
  BY DEF LineTypes, LineType
<1> DEFINE q == <<m>> \o line.msgs
<1>2. q \in Seq(MsgType) /\ Len(q) = Len(line.msgs) + 1 /\ q[1] = m /\ \A i \in Spots : q[i + 1] = line.msgs[i]
  BY <1>1, Fronted DEF Spots
<1>3. line' = [line EXCEPT !.msgs = q]
  OBVIOUS
<1> HIDE DEF q
<1>4. line' \in LineType /\ line'.on = line.on /\ line'.current = line.current /\ line'.msgs = q
  BY <1>1, <1>2, <1>3 DEF LineType
<1>5. turn' \in TurnType /\ turn'.step = turn.step /\ turn'.msg = turn.msg /\ turn'.cut /\ turn'.fails = turn.fails
  BY <1>1 DEF TurnType
<1> QED BY <1>2, <1>4, <1>5

\* A turn's steps, but for its first and its last.
LEMMA TurnSteps2 ==
  ASSUME LineTypes, Line!Run \/ Line!Keep \/ Line!Send \/ Line!Note
  PROVE  /\ turn' \in TurnType /\ turn'.msg = turn.msg /\ turn.msg # {} /\ turn'.cut = turn.cut
         /\ turn.step \in {"running", "keeping", "sending", "noting"} /\ turn'.step \in {"keeping", "sending", "noting", "ending"}
         /\ line.on /\ UNCHANGED <<words, inbox, disp, line, editors, stopped, begun, calm>>
<1>1. turn \in TurnType
  BY DEF LineTypes
<1>2. /\ UNCHANGED <<words, inbox, disp, line, editors, stopped, begun, calm>> /\ turn.msg # {}
      /\ turn.step \in {"running", "keeping", "sending", "noting"}
  BY DEF Line!Run, Line!Keep, Line!Send, Line!Note
<1>3. line.on
  BY <1>2, LineNumbers DEF LineTypes
<1>4. /\ turn' \in TurnType /\ turn'.msg = turn.msg /\ turn'.cut = turn.cut
      /\ turn'.step \in {"keeping", "sending", "noting", "ending"}
  <2>1. CASE Line!Run
    <3>1. PICK c \in BOOLEAN, f \in BOOLEAN :
            turn' = [turn EXCEPT !.step = IF turn.cut THEN "ending" ELSE "keeping", !.changed = c, !.fails = f]
      BY <2>1 DEF Line!Run
    <3> QED BY <1>1, <3>1 DEF TurnType, TurnSteps
  <2>2. CASE Line!Keep
    BY <1>1, <2>2 DEF Line!Keep, TurnType, TurnSteps
  <2>3. CASE Line!Send
    BY <1>1, <2>3 DEF Line!Send, TurnType, TurnSteps
  <2>4. CASE Line!Note
    BY <1>1, <2>4 DEF Line!Note, TurnType, TurnSteps
  <2> QED BY <2>1, <2>2, <2>3, <2>4
<1> QED BY <1>2, <1>3, <1>4

LEMMA WritesTypes ==
  ASSUME LineTypes, NEW m \in Msgs, NEW w \in Texts, NEW ed \in BOOLEAN, words' = [words EXCEPT ![m] = w],
         inbox' = Append(inbox, [id |-> m, words |-> w, edited |-> ed])
  PROVE  /\ words' \in [Msgs -> Texts \cup {-1}] /\ inbox' \in Seq(EventType)
         /\ words'[m] = w /\ \A k \in Msgs : k # m => words'[k] = words[k]
         /\ Len(inbox') = Len(inbox) + 1 /\ Len(inbox) \in Nat /\ \A j \in Entries : inbox'[j] = inbox[j]
         /\ inbox'[Len(inbox) + 1] = [id |-> m, words |-> w, edited |-> ed]
<1>1. [id |-> m, words |-> w, edited |-> ed] \in EventType /\ inbox \in Seq(EventType)
  BY DEF EventType, LineTypes
<1>2. words \in [Msgs -> Texts \cup {-1}]
  BY DEF LineTypes
<1>3. words' \in [Msgs -> Texts \cup {-1}] /\ words'[m] = w /\ \A k \in Msgs : k # m => words'[k] = words[k]
  BY <1>2
<1> DEFINE e == [id |-> m, words |-> w, edited |-> ed]
<1>4. e \in EventType /\ inbox' = Append(inbox, e)
  BY <1>1
<1> HIDE DEF e
<1>5. /\ inbox' \in Seq(EventType) /\ Len(inbox') = Len(inbox) + 1 /\ Len(inbox) \in Nat
      /\ inbox'[Len(inbox) + 1] = e /\ \A j \in 1 .. Len(inbox) : inbox'[j] = inbox[j]
  BY <1>1, <1>4, OneAppended
<1>6. e = [id |-> m, words |-> w, edited |-> ed]
  BY DEF e
<1> QED BY <1>3, <1>5, <1>6 DEF Entries

\* What a step of each kind of goroutine leaves alone, and the types of what it takes.
LEMMA DispatchTakes ==
  ASSUME LineTypes, Line!Dispatch
  PROVE  /\ inbox # <<>> /\ disp = {} /\ inbox[1] \in EventType /\ Len(inbox) \in Nat \ {0}
         /\ inbox' \in Seq(EventType) /\ Len(inbox') = Len(inbox) - 1
         /\ \A i \in 1 .. (Len(inbox) - 1) : inbox'[i] = inbox[i + 1]
         /\ UNCHANGED <<words, history, last, stopped, out, calm>>
         /\ \/ /\ ~inbox[1].edited /\ UNCHANGED <<disp, editors>>
               /\ Line!Enqueue([id |-> inbox[1].id, words |-> inbox[1].words, lookUps |-> FALSE])
            \/ /\ inbox[1].edited /\ UNCHANGED <<line, turn, begun>>
               /\ \/ /\ last.id = inbox[1].id /\ ~stopped /\ UNCHANGED disp
                     /\ editors' = editors \cup
                          {[step |-> "read", id |-> inbox[1].id, words |-> inbox[1].words, changed |-> FALSE]}
                  \/ /\ last.id # inbox[1].id \/ stopped
                     /\ disp' = {[id |-> inbox[1].id, words |-> inbox[1].words]} /\ UNCHANGED editors
<1>1. inbox \in Seq(EventType) /\ inbox # <<>> /\ disp = {} /\ inbox' = Tail(inbox)
  BY DEF LineTypes, Line!Dispatch
<1>2. /\ Head(inbox) = inbox[1] /\ inbox[1] \in EventType /\ Len(inbox) \in Nat \ {0} /\ inbox' \in Seq(EventType)
      /\ Len(inbox') = Len(inbox) - 1 /\ \A i \in 1 .. (Len(inbox) - 1) : inbox'[i] = inbox[i + 1]
  BY <1>1, Behead
<1> QED BY <1>1, <1>2 DEF Line!Dispatch, Line!Plain, Line!Editor, Line!What

LEMMA DispatchTypes == ASSUME LineTypes, Line!Dispatch PROVE LineTypes'
<1> DEFINE e == inbox[1]
           m == [id |-> e.id, words |-> e.words, lookUps |-> FALSE]
<1>1. e \in EventType /\ e.id \in Msgs /\ e.words \in Texts /\ m \in MsgType
  <2>1. e \in EventType
    BY DispatchTakes
  <2>2. e.id \in Msgs /\ e.words \in Texts
    BY <2>1 DEF EventType
  <2> QED BY <2>1, <2>2 DEF MsgType
<1>2. inbox' \in Seq(EventType) /\ UNCHANGED <<words, history, last, stopped, calm>>
  BY DispatchTakes
<1>3. CASE ~e.edited
  <2>1. Line!Enqueue(m) /\ UNCHANGED <<disp, editors>>
    BY <1>3, DispatchTakes
  <2> HIDE DEF m
  <2>2. /\ line' \in LineType /\ turn' \in TurnType /\ begun' \in Seq(SaidType) /\ \A x, y \in turn'.msg : x = y
        /\ line'.on /\ turn'.step # "none" /\ turn'.msg # {}
    BY <1>1, <2>1, EnqueuedTypes
  <2> QED BY <1>2, <2>1, <2>2 DEF LineTypes
<1>4. CASE e.edited
  <2>1. UNCHANGED <<line, turn, begun>>
    BY <1>4, DispatchTakes
  <2>2. CASE UNCHANGED disp /\ editors' = editors \cup {[step |-> "read", id |-> e.id, words |-> e.words, changed |-> FALSE]}
    <3>1. [step |-> "read", id |-> e.id, words |-> e.words, changed |-> FALSE] \in EditorType
      BY <1>1 DEF EditorType
    <3>2. editors' \in SUBSET EditorType
      BY <2>2, <3>1 DEF LineTypes
    <3> QED BY <1>2, <2>1, <2>2, <3>2 DEF LineTypes
  <2>3. CASE disp' = {[id |-> e.id, words |-> e.words]} /\ UNCHANGED editors
    <3>1. [id |-> e.id, words |-> e.words] \in SaidType
      BY <1>1 DEF SaidType
    <3>2. disp' \in SUBSET SaidType /\ \A x, y \in disp' : x = y
      BY <2>3, <3>1
    <3> QED BY <1>2, <2>1, <2>3, <3>2 DEF LineTypes
  <2> QED BY <1>4, <2>2, <2>3, DispatchTakes
<1> QED BY <1>3, <1>4

\* The three answers to an edit that was not answered: reworded where it waits, in front of the line, or read.
LEMMA EditTakes ==
  ASSUME LineTypes, Line!DispatchEdit
  PROVE  \E e \in SaidType :
           /\ disp = {e} /\ disp' = {} /\ UNCHANGED <<words, inbox, history, last, stopped, begun, out, calm>>
           /\ \/ /\ Line!Waiting(e) # {} /\ UNCHANGED <<turn, editors>>
                 /\ line' = [line EXCEPT !.msgs[Line!FirstOf(Line!Waiting(e))].words = e.words]
              \/ /\ Line!Waiting(e) = {} /\ line.on /\ line.current = e.id /\ UNCHANGED editors
                 /\ line' = [line EXCEPT !.msgs = <<[id |-> e.id, words |-> e.words, lookUps |-> FALSE]>> \o @]
                 /\ turn' = [turn EXCEPT !.cut = TRUE]
              \/ /\ Line!Waiting(e) = {} /\ ~(line.on /\ line.current = e.id) /\ UNCHANGED <<line, turn>>
                 /\ editors' = editors \cup {[step |-> "read", id |-> e.id, words |-> e.words, changed |-> FALSE]}
<1>1. PICK e \in disp :
        /\ disp' = {} /\ UNCHANGED <<words, inbox, history, last, stopped, begun, out, calm>>
        /\ \/ /\ Line!Waiting(e) # {} /\ UNCHANGED <<turn, editors>>
              /\ line' = [line EXCEPT !.msgs[Line!FirstOf(Line!Waiting(e))].words = e.words]
           \/ /\ Line!Waiting(e) = {} /\ line.on /\ line.current = e.id /\ UNCHANGED editors
              /\ line' = [line EXCEPT !.msgs = <<[id |-> e.id, words |-> e.words, lookUps |-> FALSE]>> \o @]
              /\ turn' = [turn EXCEPT !.cut = TRUE]
           \/ /\ Line!Waiting(e) = {} /\ ~(line.on /\ line.current = e.id) /\ UNCHANGED <<line, turn>>
              /\ editors' = editors \cup {[step |-> "read", id |-> e.id, words |-> e.words, changed |-> FALSE]}
  BY DEF Line!DispatchEdit, Line!Plain, Line!Editor
<1>2. disp = {e} /\ e \in SaidType
  BY <1>1 DEF LineTypes
<1> QED BY <1>1, <1>2

LEMMA EditTypes == ASSUME LineTypes, Line!DispatchEdit PROVE LineTypes'
<1>1. PICK e \in SaidType :
        /\ disp = {e} /\ disp' = {} /\ UNCHANGED <<words, inbox, history, last, stopped, begun, calm>>
        /\ \/ /\ Line!Waiting(e) # {} /\ UNCHANGED <<turn, editors>>
              /\ line' = [line EXCEPT !.msgs[Line!FirstOf(Line!Waiting(e))].words = e.words]
           \/ /\ line.on /\ UNCHANGED editors
              /\ line' = [line EXCEPT !.msgs = <<[id |-> e.id, words |-> e.words, lookUps |-> FALSE]>> \o @]
              /\ turn' = [turn EXCEPT !.cut = TRUE]
           \/ /\ UNCHANGED <<line, turn>>
              /\ editors' = editors \cup {[step |-> "read", id |-> e.id, words |-> e.words, changed |-> FALSE]}
  BY EditTakes
<1>2. e.id \in Msgs /\ e.words \in Texts
  BY DEF SaidType
<1>3. CASE Line!Waiting(e) # {} /\ UNCHANGED <<turn, editors>>
           /\ line' = [line EXCEPT !.msgs[Line!FirstOf(Line!Waiting(e))].words = e.words]
  <2>1. line' \in LineType /\ line'.on = line.on
    BY <1>1, <1>3, Reworded
  <2>2. line.on
    <3>1. PICK i \in DOMAIN line.msgs : TRUE
      BY <1>3 DEF Line!Waiting
    <3> QED BY <3>1, LineNumbers DEF LineTypes
  <2> QED BY <1>1, <1>3, <2>1, <2>2 DEF LineTypes
<1>4. CASE line.on /\ UNCHANGED editors /\ turn' = [turn EXCEPT !.cut = TRUE]
           /\ line' = [line EXCEPT !.msgs = <<[id |-> e.id, words |-> e.words, lookUps |-> FALSE]>> \o @]
  <2> DEFINE m == [id |-> e.id, words |-> e.words, lookUps |-> FALSE]
  <2>1. m \in MsgType
    BY <1>2 DEF MsgType
  <2>2. line' = [line EXCEPT !.msgs = <<m>> \o @]
    BY <1>4
  <2> HIDE DEF m
  <2>3. /\ line' \in LineType /\ line'.on = line.on /\ turn' \in TurnType /\ turn'.step = turn.step
        /\ turn'.msg = turn.msg
    BY <1>4, <2>1, <2>2, PutInFront
  <2> QED BY <1>1, <1>4, <2>3 DEF LineTypes
<1>5. CASE UNCHANGED <<line, turn>>
           /\ editors' = editors \cup {[step |-> "read", id |-> e.id, words |-> e.words, changed |-> FALSE]}
  <2>1. [step |-> "read", id |-> e.id, words |-> e.words, changed |-> FALSE] \in EditorType
    BY <1>2 DEF EditorType
  <2>2. editors' \in SUBSET EditorType
    BY <1>5, <2>1 DEF LineTypes
  <2> QED BY <1>1, <1>5, <2>2 DEF LineTypes
<1> QED BY <1>1, <1>3, <1>4, <1>5

LEMMA FirstStep ==
  ASSUME LineTypes, Line!StartTurn
  PROVE  /\ LineTypes' /\ turn.step = "taken" /\ turn'.step = "running" /\ turn'.msg = turn.msg /\ turn'.cut = turn.cut
         /\ \E m \in MsgType : /\ turn.msg = {m} /\ begun' = Append(begun, [id |-> m.id, words |-> m.words])
                               /\ line'.current = m.id
         /\ line'.msgs = line.msgs /\ line'.on = line.on
         /\ UNCHANGED <<words, inbox, disp, editors, history, last, stopped, out, calm>>
<1>1. PICK m \in turn.msg : line' = [line EXCEPT !.current = m.id] /\ begun' = Append(begun, [id |-> m.id, words |-> m.words])
  BY DEF Line!StartTurn, Line!What
<1>2. /\ turn.step = "taken" /\ turn' = [turn EXCEPT !.step = "running"]
      /\ UNCHANGED <<words, inbox, disp, editors, history, last, stopped, out, calm>>
  BY DEF Line!StartTurn
<1>3. turn \in TurnType /\ line \in LineType /\ begun \in Seq(SaidType) /\ turn.msg \subseteq MsgType
  <2>1. turn \in TurnType /\ line \in LineType /\ begun \in Seq(SaidType)
    BY DEF LineTypes
  <2> QED BY <2>1 DEF TurnType
<1>4. turn.msg = {m} /\ m \in MsgType /\ m.id \in Msgs /\ [id |-> m.id, words |-> m.words] \in SaidType
  <2>1. turn.msg = {m} /\ m \in MsgType
    BY <1>1, <1>3 DEF LineTypes
  <2> QED BY <2>1 DEF MsgType, SaidType
<1>5. turn' \in TurnType /\ turn'.step = "running" /\ turn'.msg = turn.msg /\ turn'.cut = turn.cut
  BY <1>2, <1>3 DEF TurnType, TurnSteps
<1>6. line' \in LineType /\ line'.current = m.id /\ line'.msgs = line.msgs /\ line'.on = line.on
  BY <1>1, <1>3, <1>4 DEF LineType
<1>7. begun' \in Seq(SaidType)
  BY <1>1, <1>3, <1>4, OneAppended
<1>8. line.on
  BY <1>2, LineNumbers DEF LineTypes
<1>9. LineTypes'
  BY <1>2, <1>5, <1>6, <1>7, <1>8 DEF LineTypes
<1> QED BY <1>1, <1>2, <1>4, <1>5, <1>6, <1>9

\* The line is given up, or goes on with its first message.
LEMMA LastStep ==
  ASSUME LineTypes, Line!EndTurn
  PROVE  /\ LineTypes' /\ turn.step = "ending" /\ line.on
         /\ UNCHANGED <<words, inbox, disp, editors, history, last, stopped, out, calm>>
         /\ \/ /\ line.msgs = <<>> \/ stopped
               /\ line' = Line!NoLine /\ turn' = Line!NoTurn /\ begun' = begun
            \/ /\ line.msgs # <<>> /\ ~stopped /\ line.msgs[1] \in MsgType /\ Len(line.msgs) \in Nat \ {0}
               /\ \E rest \in Seq(MsgType) :
                    /\ Starts(line.msgs[1], rest) /\ Len(rest) = Len(line.msgs) - 1
                    /\ \A i \in 1 .. (Len(line.msgs) - 1) : rest[i] = line.msgs[i + 1]
<1>1. turn.step = "ending" /\ UNCHANGED <<words, inbox, disp, editors, history, last, stopped, out, calm>>
  BY DEF Line!EndTurn
<1>2. line \in LineType /\ line.msgs \in Seq(MsgType) /\ line.on
  <2>1. line \in LineType
    BY DEF LineTypes
  <2> QED BY <1>1, <2>1, LineNumbers DEF LineTypes, LineType
<1>3. CASE line.msgs = <<>> \/ stopped
  <2>1. line' = Line!NoLine /\ turn' = Line!NoTurn /\ begun' = begun
    BY <1>3 DEF Line!EndTurn
  <2>2. Line!NoLine \in LineType /\ Line!NoTurn \in TurnType /\ ~Line!NoLine.on /\ Line!NoTurn.msg = {}
    BY LineNumbers DEF LineType, TurnType, TurnSteps
  <2>3. LineTypes'
    BY <1>1, <2>1, <2>2 DEF LineTypes
  <2> QED BY <1>1, <1>2, <1>3, <2>1, <2>3
<1>4. CASE line.msgs # <<>> /\ ~stopped
  <2> DEFINE m == Head(line.msgs)
             rest == Tail(line.msgs)
  <2>1. /\ line' = [line EXCEPT !.msgs = rest, !.current = Line!CurrentOf(m)]
        /\ turn' = Line!Begin(m) /\ begun' = Line!Begun(m)
    BY <1>4 DEF Line!EndTurn
  <2>2. /\ m \in MsgType /\ m = line.msgs[1] /\ Len(line.msgs) \in Nat \ {0}
        /\ rest \in Seq(MsgType) /\ Len(rest) = Len(line.msgs) - 1
        /\ \A i \in 1 .. (Len(line.msgs) - 1) : rest[i] = line.msgs[i + 1]
    BY <1>2, <1>4, Behead
  <2> HIDE DEF m, rest
  <2>3. line' = [on |-> TRUE, msgs |-> rest, current |-> IF calm THEN m.id ELSE 0]
    BY <1>2, <2>1, BeginsWith DEF LineType
  <2>4. Starts(m, rest)
    BY <2>1, <2>3, BeginsWith DEF Starts
  <2>5. /\ line' \in LineType /\ turn' \in TurnType /\ begun' \in Seq(SaidType) /\ \A x, y \in turn'.msg : x = y
        /\ line'.on /\ turn'.step # "none" /\ turn'.msg = {m}
    BY <2>2, <2>4, StartedTypes
  <2>6. LineTypes'
    BY <1>1, <2>5 DEF LineTypes
  <2> QED BY <1>1, <1>2, <1>4, <2>2, <2>4, <2>6
<1> QED BY <1>3, <1>4

\* What an answerEdit does before it stands in line.
LEMMA AnswerSteps ==
  ASSUME LineTypes, NEW x \in editors, Line!ReadLast(x) \/ Line!Rewind(x) \/ Line!Clear(x)
  PROVE  /\ LineTypes' /\ x \in EditorType
         /\ UNCHANGED <<words, inbox, disp, line, turn, stopped, begun, out, calm>>
         /\ last' \in {last, Line!NoLast} /\ (x.step = "read" => last' = last)
         /\ \/ editors' = editors \ {x} /\ (calm => stopped \/ (x.step = "read" /\ (last.id # x.id \/ last.words = x.words)))
            \/ \E y \in EditorType : /\ editors' = (editors \ {x}) \cup {y} /\ y.id = x.id /\ y.words = x.words
                                     /\ y.step # "read" /\ (x.step = "read" => last.id = x.id)
<1>1. x \in EditorType /\ last \in LastType
  BY DEF LineTypes
<1>2. UNCHANGED <<words, inbox, disp, line, turn, stopped, begun, out, calm>>
  BY DEF Line!ReadLast, Line!Rewind, Line!Clear
<1>3. last' \in {last, Line!NoLast} /\ (x.step = "read" => last' = last)
  BY DEF Line!ReadLast, Line!Rewind, Line!Clear
<1>4. last' \in LastType
  <2>1. Line!NoLast \in LastType
    BY LineNumbers DEF LastType
  <2> QED BY <1>1, <1>3, <2>1
<1>5. history' \in Seq(SaidType)
  <2>1. history \in Seq(SaidType)
    BY DEF LineTypes
  <2>2. CASE UNCHANGED history
    BY <2>1, <2>2
  <2>3. CASE history' = SubSeq(history, 1, Len(history) - 1)
    BY <2>1, <2>3
  <2> QED BY <2>2, <2>3 DEF Line!ReadLast, Line!Rewind, Line!Clear
<1>6. \/ editors' = editors \ {x} /\ (calm => stopped \/ (x.step = "read" /\ (last.id # x.id \/ last.words = x.words)))
      \/ \E y \in EditorType : /\ editors' = (editors \ {x}) \cup {y} /\ y.id = x.id /\ y.words = x.words
                               /\ y.step # "read" /\ (x.step = "read" => last.id = x.id)
  <2>1. CASE Line!ReadLast(x)
    <3>1. CASE last.id # x.id \/ last.words = x.words \/ stopped
      BY <2>1, <3>1 DEF Line!ReadLast
    <3>2. CASE ~(last.id # x.id \/ last.words = x.words \/ stopped)
      <4> DEFINE y == [x EXCEPT !.step = IF last.changed THEN "enqueue" ELSE "rewind", !.changed = last.changed]
      <4>1. y \in EditorType /\ y.id = x.id /\ y.words = x.words /\ y.step # "read"
        BY <1>1 DEF EditorType, LastType
      <4>2. editors' = (editors \ {x}) \cup {y}
        BY <2>1, <3>2 DEF Line!ReadLast, Line!Becomes
      <4> HIDE DEF y
      <4> QED BY <3>2, <4>1, <4>2
    <3> QED BY <3>1, <3>2
  <2>2. CASE Line!Rewind(x)
    <3> DEFINE y == [x EXCEPT !.step = "clear"]
    <3>1. y \in EditorType /\ y.id = x.id /\ y.words = x.words /\ y.step # "read"
      BY <1>1 DEF EditorType
    <3>2. x.step = "rewind" /\ (editors' = (editors \ {x}) \cup {y} \/ ((~calm \/ stopped) /\ editors' = editors \ {x}))
      BY <2>2 DEF Line!Rewind, Line!Becomes
    <3> HIDE DEF y
    <3> QED BY <3>1, <3>2
  <2>3. CASE Line!Clear(x)
    <3> DEFINE y == [x EXCEPT !.step = "enqueue"]
    <3>1. y \in EditorType /\ y.id = x.id /\ y.words = x.words /\ y.step # "read"
      BY <1>1 DEF EditorType
    <3>2. x.step = "clear" /\ (editors' = (editors \ {x}) \cup {y} \/ ((~calm \/ stopped) /\ editors' = editors \ {x}))
      BY <2>3 DEF Line!Clear, Line!Becomes
    <3> HIDE DEF y
    <3> QED BY <3>1, <3>2
  <2> QED BY <2>1, <2>2, <2>3
<1>7. editors' \in SUBSET EditorType
  <2>1. editors \in SUBSET EditorType
    BY DEF LineTypes
  <2> QED BY <1>6, <2>1
<1>8. LineTypes'
  BY <1>2, <1>4, <1>5, <1>7 DEF LineTypes
<1> QED BY <1>1, <1>2, <1>3, <1>6, <1>8

\* An edit stands in line.
LEMMA RequeueStep ==
  ASSUME LineTypes, NEW x \in editors, Line!Requeue(x)
  PROVE  /\ LineTypes' /\ x \in EditorType /\ x.step = "enqueue" /\ editors' = editors \ {x}
         /\ UNCHANGED <<words, inbox, disp, history, last, stopped, out, calm>>
         /\ \E m \in MsgType : m.id = x.id /\ m.words = x.words /\ Line!Enqueue(m)
<1>1. x \in EditorType /\ editors' = editors \ {x} /\ x.step = "enqueue"
      /\ UNCHANGED <<words, inbox, disp, history, last, stopped, out, calm>>
  BY DEF LineTypes, Line!Requeue
<1> DEFINE m == [id |-> x.id, words |-> x.words, lookUps |-> x.changed]
<1>2. Line!Enqueue(m)
  BY DEF Line!Requeue
<1>3. m \in MsgType /\ m.id = x.id /\ m.words = x.words
  BY <1>1 DEF EditorType, MsgType
<1> HIDE DEF m
<1>4. /\ line' \in LineType /\ turn' \in TurnType /\ begun' \in Seq(SaidType) /\ \A r, s \in turn'.msg : r = s
      /\ line'.on /\ turn'.step # "none" /\ turn'.msg # {}
  BY <1>2, <1>3, EnqueuedTypes
<1>5. LineTypes'
  <2>1. editors' \in SUBSET EditorType
    BY <1>1 DEF LineTypes
  <2> QED BY <1>1, <1>4, <2>1 DEF LineTypes
<1> QED BY <1>1, <1>2, <1>3, <1>5

LEMMA CancelStep ==
  ASSUME Line!CancelTurns
  PROVE  /\ ~calm /\ stopped'
         /\ UNCHANGED <<words, inbox, disp, line, turn, editors, history, last, begun, out, calm>>
BY DEF Line!CancelTurns

LEMMA WriteStep ==
  ASSUME LineTypes, NEW m \in Line!Ids, Line!Write(m)
  PROVE  /\ m \in Msgs /\ words[m] = -1 /\ \A k \in Msgs : k < m => words[k] # -1
         /\ words' = [words EXCEPT ![m] = 0] /\ inbox' = Append(inbox, [id |-> m, words |-> 0, edited |-> FALSE])
         /\ UNCHANGED <<disp, line, turn, editors, history, last, stopped, begun, out, calm>> /\ LineTypes'
<1>1. /\ m \in Msgs /\ words[m] = -1 /\ \A k \in Msgs : k < m => words[k] # -1
      /\ words' = [words EXCEPT ![m] = 0] /\ inbox' = Append(inbox, [id |-> m, words |-> 0, edited |-> FALSE])
      /\ UNCHANGED <<disp, line, turn, editors, history, last, stopped, begun, out, calm>>
  BY LineNumbers DEF Line!Write
<1>2. words' \in [Msgs -> Texts \cup {-1}] /\ inbox' \in Seq(EventType)
  BY <1>1, WritesTypes, LineNumbers
<1> QED BY <1>1, <1>2 DEF LineTypes

LEMMA EditStep ==
  ASSUME LineTypes, NEW m \in Line!Ids, Line!Edit(m)
  PROVE  /\ m \in Msgs /\ (calm => m = N) /\ words[m] \in Nat /\ words[m] + 1 \in Texts
         /\ words' = [words EXCEPT ![m] = words[m] + 1]
         /\ inbox' = Append(inbox, [id |-> m, words |-> words[m] + 1, edited |-> TRUE])
         /\ UNCHANGED <<disp, line, turn, editors, history, last, stopped, begun, out, calm>> /\ LineTypes'
<1>1. /\ m \in Msgs /\ (calm => m = N) /\ words[m] \in 0 .. (MaxEdits - 1)
      /\ words' = [words EXCEPT ![m] = words[m] + 1]
      /\ inbox' = Append(inbox, [id |-> m, words |-> words[m] + 1, edited |-> TRUE])
      /\ UNCHANGED <<disp, line, turn, editors, history, last, stopped, begun, out, calm>>
  BY LineNumbers DEF Line!Edit
<1>2. words[m] \in Nat /\ words[m] + 1 \in Texts
  BY <1>1, LineNumbers DEF Texts
<1>3. words' \in [Msgs -> Texts \cup {-1}] /\ inbox' \in Seq(EventType)
  BY <1>1, <1>2, WritesTypes
<1> QED BY <1>1, <1>2, <1>3 DEF LineTypes

\* Every step, under the name of who takes it.
LEMMA LineSteps ==
  ASSUME Line!Next
  PROVE  \/ \E m \in Line!Ids : Line!Write(m) \/ Line!Edit(m)
         \/ Line!Dispatch \/ Line!DispatchEdit \/ Line!StartTurn \/ Line!EndTurn \/ Line!CancelTurns
         \/ Line!Run \/ Line!Keep \/ Line!Send \/ Line!Note
         \/ \E x \in editors : Line!ReadLast(x) \/ Line!Rewind(x) \/ Line!Clear(x) \/ Line!Requeue(x)
BY DEF Line!Next, Line!Turn, Line!AnswerEdit

LEMMA TurnTypes ==
  ASSUME LineTypes, Line!Run \/ Line!Keep \/ Line!Send \/ Line!Note
  PROVE  LineTypes' /\ (last' = last \/ \E m \in turn.msg : last'.id = m.id /\ last' \in LastType)
<1>1. turn.msg \subseteq MsgType /\ turn \in TurnType /\ last \in LastType /\ history \in Seq(SaidType)
  <2>1. turn \in TurnType /\ last \in LastType /\ history \in Seq(SaidType)
    BY DEF LineTypes
  <2> QED BY <2>1 DEF TurnType
<1>2. history' \in Seq(SaidType)
  <2>1. CASE Line!Keep
    <3>1. PICK m \in turn.msg : history' = history \/ history' = Append(history, [id |-> m.id, words |-> m.words])
      BY <2>1 DEF Line!Keep, Line!What
    <3>2. [id |-> m.id, words |-> m.words] \in SaidType
      BY <1>1 DEF MsgType, SaidType
    <3> QED BY <1>1, <3>1, <3>2, OneAppended
  <2>2. CASE Line!Run \/ Line!Send \/ Line!Note
    BY <1>1, <2>2 DEF Line!Run, Line!Send, Line!Note
  <2> QED BY <2>1, <2>2
<1>3. last' = last \/ \E m \in turn.msg : last'.id = m.id /\ last' \in LastType
  <2>1. CASE Line!Note
    <3>1. PICK m \in turn.msg : last' = last \/ last' = [id |-> m.id, words |-> m.words, changed |-> turn.changed]
      BY <2>1 DEF Line!Note
    <3>2. [id |-> m.id, words |-> m.words, changed |-> turn.changed] \in LastType
      BY <1>1 DEF MsgType, TurnType, LastType
    <3> QED BY <3>1, <3>2
  <2>2. CASE Line!Run \/ Line!Send \/ Line!Keep
    BY <2>2 DEF Line!Run, Line!Send, Line!Keep
  <2> QED BY <2>1, <2>2
<1>4. last' \in LastType
  BY <1>1, <1>3
<1>5. /\ turn' \in TurnType /\ turn'.msg = turn.msg /\ turn.msg # {} /\ turn'.step # "none"
      /\ line.on /\ UNCHANGED <<words, inbox, disp, line, editors, stopped, begun, calm>>
  BY TurnSteps2
<1> QED BY <1>2, <1>3, <1>4, <1>5 DEF LineTypes

LEMMA LineTypesKept == ASSUME LineTypes, Line!Next PROVE LineTypes'
<1>1. ASSUME NEW m \in Line!Ids, Line!Write(m) \/ Line!Edit(m) PROVE LineTypes'
  BY <1>1, WriteStep, EditStep
<1>2. ASSUME NEW x \in editors, Line!ReadLast(x) \/ Line!Rewind(x) \/ Line!Clear(x) \/ Line!Requeue(x) PROVE LineTypes'
  BY <1>2, AnswerSteps, RequeueStep
<1>3. CASE Line!CancelTurns
  BY <1>3, CancelStep DEF LineTypes
<1> QED BY <1>1, <1>2, <1>3, LineSteps, DispatchTypes, EditTypes, FirstStep, LastStep, TurnTypes

LEMMA LineTypesInit == ASSUME Line!Init PROVE LineTypes
<1>1. /\ words = [m \in Msgs |-> -1] /\ inbox = <<>> /\ disp = {} /\ editors = {} /\ line = Line!NoLine
      /\ turn = Line!NoTurn /\ history = <<>> /\ last = Line!NoLast /\ ~stopped /\ stopped \in BOOLEAN
      /\ calm \in BOOLEAN /\ begun = <<>>
  BY LineNumbers DEF Line!Init
<1>2. Line!NoLine \in LineType /\ Line!NoTurn \in TurnType /\ ~Line!NoLine.on /\ Line!NoTurn.msg = {} /\ Line!NoLast \in LastType
  BY LineNumbers DEF LineType, TurnType, TurnSteps, LastType
<1> QED BY <1>1, <1>2 DEF LineTypes

LEMMA LineTypesMean == ASSUME LineTypes PROVE Line!TypeOK
<1>1. /\ words \in [Msgs -> Texts \cup {-1}] /\ inbox \in Seq(EventType) /\ disp \in SUBSET SaidType
      /\ line \in LineType /\ turn \in TurnType /\ editors \in SUBSET EditorType
      /\ history \in Seq(SaidType) /\ last \in LastType /\ stopped \in BOOLEAN /\ calm \in BOOLEAN
      /\ \A x, y \in disp : x = y
  BY DEF LineTypes
<1>2. Line!Cardinality(disp) <= 1
  <2>1. Line!Cardinality(disp) = Cardinality(disp)
    BY DEF Line!Cardinality, Cardinality
  <2>2. CASE disp = {}
    BY <2>1, <2>2, FS_EmptySet
  <2>3. CASE disp # {}
    <3>1. PICK e \in disp : disp = {e}
      BY <1>1, <2>3
    <3> QED BY <2>1, <3>1, FS_Singleton
  <2> QED BY <2>2, <2>3
<1>3. \A i \in DOMAIN inbox : inbox[i] \in EventType
  BY <1>1
<1>4. line.on \in BOOLEAN /\ line.current \in Msgs \cup {0} /\ line.msgs \in Seq(MsgType)
  BY <1>1 DEF LineType
<1>5. \A i \in DOMAIN line.msgs : line.msgs[i] \in MsgType
  BY <1>4
<1>6. turn.step \in TurnSteps /\ turn.msg \subseteq MsgType
  BY <1>1 DEF TurnType
<1>7. line.on <=> turn.step # "none"
  BY <1>4, LineNumbers DEF LineTypes
<1>8. \A i \in DOMAIN history : history[i] \in SaidType
  BY <1>1
<1> QED BY <1>1, <1>2, <1>3, <1>4, <1>5, <1>6, <1>7, <1>8, LineNumbers DEF Line!TypeOK, TurnSteps, EditorType, LastType, EventType

(***************************************************************************)
(* Line: order.                                                            *)
(***************************************************************************)
LEMMA LineLengths ==
  ASSUME LineTypes
  PROVE  /\ Len(begun) \in Nat /\ Len(inbox) \in Nat /\ Len(line.msgs) \in Nat
         /\ \A i \in Turns : begun[i] \in SaidType /\ begun[i].id \in Msgs
         /\ \A i \in Spots : line.msgs[i] \in MsgType /\ line.msgs[i].id \in Msgs
         /\ \A i \in Entries : inbox[i] \in EventType /\ inbox[i].id \in Msgs
         /\ \A t \in turn.msg : t \in MsgType /\ t.id \in Msgs
<1>1. begun \in Seq(SaidType) /\ inbox \in Seq(EventType) /\ line.msgs \in Seq(MsgType) /\ turn.msg \subseteq MsgType
  <2>1. line \in LineType /\ turn \in TurnType
    BY DEF LineTypes
  <2> QED BY <2>1 DEF LineTypes, LineType, TurnType
<1>2. Len(begun) \in Nat /\ \A i \in 1 .. Len(begun) : begun[i] \in SaidType
  BY <1>1
<1>3. Len(inbox) \in Nat /\ \A i \in 1 .. Len(inbox) : inbox[i] \in EventType
  BY <1>1
<1>4. Len(line.msgs) \in Nat /\ \A i \in 1 .. Len(line.msgs) : line.msgs[i] \in MsgType
  BY <1>1
<1> QED BY <1>1, <1>2, <1>3, <1>4 DEF Turns, Spots, Entries, SaidType, EventType, MsgType

LEMMA HadAll == \A k : (HadTurn(k) <=> k \in Had) /\ (HadTurn(k)' <=> k \in Had')
BY DEF HadTurn, Had

LEMMA OrderSame ==
  ASSUME Ordered, UNCHANGED <<words, inbox, begun>>, line'.msgs = line.msgs, turn'.msg = turn.msg,
         (turn'.step = "taken") <=> (turn.step = "taken")
  PROVE  Ordered'
<1>1. Turns' = Turns /\ Spots' = Spots /\ Entries' = Entries
  BY DEF Turns, Spots, Entries
<1>2. \A m : (HadTurn(m) <=> HadTurn(m)') /\ (Taken(m) <=> Taken(m)') /\ (InLine(m) <=> InLine(m)') /\ (InBox(m) <=> InBox(m)')
  BY <1>1 DEF HadTurn, Taken, InLine, InBox
<1>3. \A m : (Started(m) <=> Started(m)') /\ (Lost(m) <=> Lost(m)')
  BY <1>2 DEF Started, Lost
<1>4. TurnsInOrder' /\ TakenInOrder' /\ LineInOrder' /\ BoxInOrder'
  BY <1>1, <1>2, <1>3 DEF Ordered, TurnsInOrder, TakenInOrder, LineInOrder, BoxInOrder
<1>5. Apart'
  BY <1>1, <1>2, <1>3 DEF Ordered, Apart
<1> QED BY <1>4, <1>5 DEF Ordered

\* What was written, or written anew, is at the end of the inbox.
LEMMA OrderWritten ==
  ASSUME LineTypes, Ordered, NEW m \in Msgs, NEW w \in Texts, NEW ed \in BOOLEAN,
         words' = [words EXCEPT ![m] = w], inbox' = Append(inbox, [id |-> m, words |-> w, edited |-> ed]),
         UNCHANGED <<line, turn, begun>>,
         IF ed THEN words[m] # -1 ELSE words[m] = -1 /\ \A k \in Msgs : k < m => words[k] # -1
  PROVE  Ordered'
<1>0. w # -1
  BY LineNumbers DEF Texts
<1>1. /\ words'[m] = w /\ w # -1 /\ \A k \in Msgs : k # m => words'[k] = words[k]
      /\ Len(inbox') = Len(inbox) + 1 /\ Len(inbox) \in Nat /\ \A j \in Entries : inbox'[j] = inbox[j]
      /\ inbox'[Len(inbox) + 1] = [id |-> m, words |-> w, edited |-> ed]
  BY <1>0, WritesTypes
<1>2. Entries' = Entries \cup {Len(inbox) + 1} /\ Entries = 1 .. Len(inbox) /\ Turns' = Turns /\ Spots' = Spots
  BY <1>1 DEF Entries, Turns, Spots
<1>3. inbox'[Len(inbox) + 1].id = m /\ inbox'[Len(inbox) + 1].edited = ed
  BY <1>1
<1>4. \A k \in Msgs : InBox(k)' <=> InBox(k) \/ (~ed /\ k = m)
  BY <1>1, <1>2, <1>3 DEF InBox
<1>5. \A k : (HadTurn(k) <=> HadTurn(k)') /\ (Taken(k) <=> Taken(k)') /\ (InLine(k) <=> InLine(k)') /\ (Started(k) <=> Started(k)')
  BY <1>2 DEF HadTurn, Taken, InLine, Started
<1>6. \A k \in Msgs : (words[k] # -1 => words'[k] # -1) /\ (Lost(k) => Lost(k)')
  BY <1>1, <1>4, <1>5 DEF Lost
<1>7. TurnsInOrder' /\ TakenInOrder' /\ LineInOrder'
  <2>1. Turns' = Turns /\ Spots' = Spots
    BY <1>2 DEF Turns, Spots
  <2>2. TurnsInOrder'
    BY <1>2, <1>6, <2>1 DEF Ordered, TurnsInOrder
  <2>3. TakenInOrder'
    BY <1>5, <1>6 DEF Ordered, TakenInOrder
  <2>4. LineInOrder'
    BY <1>2, <1>5, <1>6, <2>1 DEF Ordered, LineInOrder
  <2> QED BY <2>2, <2>3, <2>4
<1>8. BoxInOrder'
  <2> SUFFICES ASSUME NEW j \in Entries', NEW k \in Msgs, ~inbox'[j].edited, k < inbox'[j].id
               PROVE  Lost(k)' \/ Started(k)' \/ InLine(k)' \/ \E i \in 1 .. (j - 1) : inbox'[i].id = k /\ ~inbox'[i].edited
    BY ZenonT(60) DEF BoxInOrder
  <2>1. CASE j \in Entries
    <3>3. inbox'[j] = inbox[j]
      BY <1>1, <2>1
    <3>4. ~inbox[j].edited /\ k < inbox[j].id
      BY <3>3
    <3>1. Lost(k) \/ Started(k) \/ InLine(k) \/ \E i \in 1 .. (j - 1) : inbox[i].id = k /\ ~inbox[i].edited
      BY <2>1, <3>4 DEF Ordered, BoxInOrder
    <3>2. \A i \in 1 .. (j - 1) : i \in Entries
      BY <1>1, <1>2, <2>1
    <3> QED BY <1>1, <1>5, <1>6, <3>1, <3>2
  <2>2. CASE j = Len(inbox) + 1
    <3>1. ~ed /\ k < m
      BY <1>3, <2>2
    <3>2. words[k] # -1
      BY <3>1
    <3>3. Lost(k) \/ Started(k) \/ InLine(k) \/ \E i \in 1 .. (j - 1) : inbox[i].id = k /\ ~inbox[i].edited
      BY <1>1, <1>2, <2>2, <3>2 DEF Lost, InBox
    <3>4. 1 .. (j - 1) = Entries
      BY <1>1, <1>2, <2>2
    <3> QED BY <1>1, <1>5, <1>6, <3>3, <3>4
  <2> QED BY <1>2, <2>1, <2>2
<1>9. Apart'
  <2>1. \A k \in Msgs : (Started(k) \/ InLine(k) \/ InBox(k))' => words'[k] # -1
    BY <1>1, <1>4, <1>5, <1>6 DEF Ordered, Apart
  <2>2. \A k \in Msgs : InBox(k)' => ~Started(k)' /\ ~InLine(k)'
    BY <1>1, <1>4, <1>5 DEF Ordered, Apart
  <2>3. ASSUME NEW i \in Entries', NEW j \in Entries', ~inbox'[i].edited, ~inbox'[j].edited, inbox'[i].id = inbox'[j].id
        PROVE  i = j
    <3>1. \A h \in Entries : ~inbox[h].edited => ed \/ inbox[h].id # m
      BY LineLengths DEF Ordered, Apart, InBox
    <3> QED BY <1>1, <1>2, <1>3, <2>3, <3>1 DEF Ordered, Apart
  <2> QED BY <2>1, <2>2, <2>3 DEF Apart
<1> QED BY <1>7, <1>8, <1>9 DEF Ordered

\* A turn that begins: the message had its turn then, or is about to have it.
LEMMA StartPlaces ==
  ASSUME LineTypes, NEW m \in MsgType, NEW rest, Starts(m, rest), turn.step # "taken"
  PROVE  /\ m.id \in Msgs /\ line'.msgs = rest /\ \A k \in Msgs : ~Taken(k) /\ (Started(k)' <=> Started(k) \/ k = m.id)
         /\ \A k \in Msgs : HadTurn(k) => HadTurn(k)'
         /\ IF calm THEN /\ Len(begun') = Len(begun) + 1 /\ begun'[Len(begun) + 1].id = m.id
                         /\ \A i \in Turns : begun'[i] = begun[i]
                         /\ \A k \in Msgs : ~Taken(k)' /\ (HadTurn(k)' <=> HadTurn(k) \/ k = m.id)
                    ELSE begun' = begun /\ \A k \in Msgs : (Taken(k)' <=> k = m.id) /\ (HadTurn(k)' <=> HadTurn(k))
<1>1. m.id \in Msgs /\ [id |-> m.id, words |-> m.words] \in SaidType /\ begun \in Seq(SaidType)
  BY DEF MsgType, SaidType, LineTypes
<1>2. \A k \in Msgs : ~Taken(k)
  BY DEF Taken
<1>3. turn'.msg = {m} /\ turn'.step = (IF calm THEN "running" ELSE "taken") /\ line'.msgs = rest
  BY DEF Starts
<1>4. CASE calm
  <2> DEFINE b == [id |-> m.id, words |-> m.words]
  <2>1. begun' = Append(begun, b) /\ b.id = m.id /\ b \in SaidType
    BY <1>1, <1>4 DEF Starts
  <2> HIDE DEF b
  <2>2. /\ Len(begun') = Len(begun) + 1 /\ Len(begun) \in Nat /\ begun'[Len(begun) + 1] = b
        /\ \A i \in 1 .. Len(begun) : begun'[i] = begun[i]
    BY <1>1, <2>1, OneAppended
  <2>3. Turns' = Turns \cup {Len(begun) + 1} /\ Turns = 1 .. Len(begun)
    BY <2>2 DEF Turns
  <2>4. \A k \in Msgs : HadTurn(k)' <=> HadTurn(k) \/ k = m.id
    BY <2>1, <2>2, <2>3 DEF HadTurn
  <2>5. \A k \in Msgs : ~Taken(k)'
    BY <1>3, <1>4 DEF Taken
  <2> QED BY <1>1, <1>2, <1>3, <1>4, <2>1, <2>2, <2>3, <2>4, <2>5 DEF Started
<1>5. CASE ~calm
  <2>1. begun' = begun /\ Turns' = Turns
    BY <1>5 DEF Starts, Turns
  <2>2. \A k \in Msgs : HadTurn(k)' <=> HadTurn(k)
    BY <2>1 DEF HadTurn
  <2>3. \A k \in Msgs : Taken(k)' <=> k = m.id
    BY <1>3, <1>5 DEF Taken
  <2> QED BY <1>1, <1>2, <1>3, <1>5, <2>1, <2>2, <2>3 DEF Started
<1> QED BY <1>4, <1>5

LEMMA StartOrder ==
  ASSUME LineTypes, Ordered, NEW m \in MsgType, NEW rest, Starts(m, rest), turn.step # "taken",
         \A k \in Msgs : k < m.id => Lost(k) \/ Started(k), \A k \in Msgs : Lost(k) => Lost(k)'
  PROVE  TurnsInOrder' /\ TakenInOrder'
<1>1. /\ m.id \in Msgs /\ \A k \in Msgs : ~Taken(k) /\ (HadTurn(k) => HadTurn(k)')
      /\ IF calm THEN /\ Len(begun') = Len(begun) + 1 /\ begun'[Len(begun) + 1].id = m.id
                      /\ \A i \in Turns : begun'[i] = begun[i]
                      /\ \A k \in Msgs : ~Taken(k)'
                 ELSE begun' = begun /\ \A k \in Msgs : Taken(k)' <=> k = m.id
  BY StartPlaces
<1>2. \A k \in Msgs : k < m.id => Lost(k)' \/ HadTurn(k)
  BY <1>1 DEF Started
<1>3. Len(begun) \in Nat
  BY LineLengths
<1>4. TakenInOrder'
  BY <1>1, <1>2 DEF TakenInOrder
<1>5. CASE calm
  <2> SUFFICES ASSUME NEW j \in Turns', NEW k \in Msgs, k < begun'[j].id
               PROVE  Lost(k)' \/ \E i \in 1 .. (j - 1) : begun'[i].id = k
    BY <1>4 DEF TurnsInOrder
  <2>1. CASE j \in Turns
    <3>1. begun'[j] = begun[j] /\ \A i \in 1 .. (j - 1) : begun'[i] = begun[i]
      BY <1>1, <1>3, <1>5, <2>1 DEF Turns
    <3> QED BY <2>1, <3>1 DEF Ordered, TurnsInOrder
  <2>2. CASE j = Len(begun) + 1
    <3>1. k < m.id
      BY <1>1, <1>5, <2>2
    <3>2. CASE HadTurn(k)
      <4>1. PICK i \in Turns : begun[i].id = k
        BY <3>2 DEF HadTurn
      <4> QED BY <1>1, <1>3, <1>5, <2>2, <4>1 DEF Turns
    <3> QED BY <1>2, <3>1, <3>2
  <2> QED BY <1>1, <1>3, <1>5, <2>1, <2>2 DEF Turns
<1>6. CASE ~calm
  BY <1>1, <1>4, <1>6 DEF Ordered, TurnsInOrder, Turns
<1> QED BY <1>5, <1>6

\* A message that enters the line, at its end or with a turn of its own.
LEMMA EnterPlaces ==
  ASSUME LineTypes, NEW m \in MsgType, Line!Enqueue(m)
  PROVE  /\ m.id \in Msgs /\ \A k \in Msgs : (Started(k) \/ InLine(k))' <=> Started(k) \/ InLine(k) \/ k = m.id
         /\ \A k \in Msgs : (HadTurn(k) => HadTurn(k)') /\ (InLine(k) => InLine(k)') /\ (Started(k) => Started(k)')
         /\ IF line.on THEN /\ Len(line'.msgs) = Len(line.msgs) + 1 /\ line'.msgs[Len(line.msgs) + 1] = m
                            /\ \A i \in Spots : line'.msgs[i] = line.msgs[i]
                            /\ begun' = begun /\ turn' = turn /\ line'.on /\ line'.current = line.current
                       ELSE Starts(m, <<>>) /\ line.msgs = <<>> /\ turn.step = "none" /\ turn.msg = {}
<1>1. m.id \in Msgs /\ line \in LineType /\ line.msgs \in Seq(MsgType)
  BY DEF MsgType, LineTypes, LineType
<1>2. CASE line.on
  <2>1. line' = [line EXCEPT !.msgs = Append(line.msgs, m)] /\ turn' = turn /\ begun' = begun
    BY <1>2, Enqueued DEF Joins
  <2>2. line'.msgs = Append(line.msgs, m) /\ line'.on /\ line'.current = line.current
    BY <1>1, <1>2, <2>1 DEF LineType
  <2>3. /\ Len(line'.msgs) = Len(line.msgs) + 1 /\ Len(line.msgs) \in Nat /\ line'.msgs[Len(line.msgs) + 1] = m
        /\ \A i \in 1 .. Len(line.msgs) : line'.msgs[i] = line.msgs[i]
    BY <1>1, <2>2, OneAppended
  <2>4. Spots' = Spots \cup {Len(line.msgs) + 1} /\ Spots = 1 .. Len(line.msgs)
    BY <2>3 DEF Spots
  <2>5. \A k \in Msgs : InLine(k)' <=> InLine(k) \/ k = m.id
    BY <2>3, <2>4 DEF InLine
  <2>6. \A k \in Msgs : (HadTurn(k)' <=> HadTurn(k)) /\ (Started(k)' <=> Started(k))
    BY <2>1 DEF HadTurn, Taken, Started, Turns
  <2> QED BY <1>1, <1>2, <2>1, <2>2, <2>3, <2>4, <2>5, <2>6
<1>3. CASE ~line.on
  <2>1. Starts(m, <<>>) /\ line.msgs = <<>> /\ turn.step = "none" /\ turn.msg = {}
    BY <1>3, Enqueued, LineNumbers DEF LineTypes
  <2>2. \A k \in Msgs : (Started(k)' <=> Started(k) \/ k = m.id) /\ (HadTurn(k) => HadTurn(k)')
    BY <2>1, StartPlaces
  <2>3. line'.msgs = <<>>
    BY <2>1 DEF Starts
  <2>4. \A k \in Msgs : ~InLine(k) /\ ~InLine(k)'
    BY <2>1, <2>3 DEF InLine, Spots
  <2> QED BY <1>1, <1>3, <2>1, <2>2, <2>4
<1> QED BY <1>2, <1>3

LEMMA EnterOrder ==
  ASSUME LineTypes, Ordered, NEW m \in MsgType, Line!Enqueue(m),
         \A k \in Msgs : k < m.id => Lost(k) \/ Started(k) \/ InLine(k), \A k \in Msgs : Lost(k) => Lost(k)'
  PROVE  TurnsInOrder' /\ TakenInOrder' /\ LineInOrder'
<1>1. /\ \A k \in Msgs : (HadTurn(k) => HadTurn(k)') /\ (Started(k) => Started(k)')
      /\ IF line.on THEN /\ Len(line'.msgs) = Len(line.msgs) + 1 /\ line'.msgs[Len(line.msgs) + 1] = m
                         /\ \A i \in Spots : line'.msgs[i] = line.msgs[i]
                         /\ begun' = begun /\ turn' = turn
                    ELSE Starts(m, <<>>) /\ line.msgs = <<>> /\ turn.step = "none"
  BY EnterPlaces
<1>2. Len(line.msgs) \in Nat
  BY LineLengths
<1>3. CASE line.on
  <2>1. TurnsInOrder' /\ TakenInOrder'
    BY <1>1, <1>3 DEF Ordered, TurnsInOrder, TakenInOrder, Taken, HadTurn, Turns
  <2> SUFFICES ASSUME NEW j \in Spots', NEW k \in Msgs, k < line'.msgs[j].id
               PROVE  Lost(k)' \/ Started(k)' \/ \E i \in 1 .. (j - 1) : line'.msgs[i].id = k
    BY <2>1 DEF LineInOrder
  <2>2. CASE j \in Spots
    <3>1. line'.msgs[j] = line.msgs[j] /\ \A i \in 1 .. (j - 1) : line'.msgs[i] = line.msgs[i]
      BY <1>1, <1>2, <1>3, <2>2 DEF Spots
    <3>2. Lost(k) \/ Started(k) \/ \E i \in 1 .. (j - 1) : line.msgs[i].id = k
      BY <2>2, <3>1 DEF Ordered, LineInOrder
    <3> QED BY <1>1, <3>1, <3>2
  <2>3. CASE j = Len(line.msgs) + 1
    <3>1. Lost(k) \/ Started(k) \/ InLine(k)
      BY <1>1, <1>3, <2>3
    <3>2. CASE InLine(k)
      <4>1. PICK i \in Spots : line.msgs[i].id = k
        BY <3>2 DEF InLine
      <4> QED BY <1>1, <1>2, <1>3, <2>3, <4>1 DEF Spots
    <3> QED BY <1>1, <3>1, <3>2
  <2> QED BY <1>1, <1>2, <1>3, <2>2, <2>3 DEF Spots
<1>4. CASE ~line.on
  <2>1. \A k \in Msgs : ~InLine(k)
    BY <1>1, <1>4 DEF InLine, Spots
  <2>2. TurnsInOrder' /\ TakenInOrder'
    BY <1>1, <1>4, <2>1, StartOrder
  <2>3. line'.msgs = <<>>
    BY <1>1, <1>4 DEF Starts
  <2>4. LineInOrder'
    BY <2>3 DEF LineInOrder, Spots
  <2> QED BY <2>2, <2>4
<1> QED BY <1>3, <1>4

LEMMA OrderRequeued == ASSUME LineTypes, Ordered, Known, NEW x \in editors, Line!Requeue(x) PROVE Ordered'
<1>1. x.step = "enqueue" /\ UNCHANGED <<words, inbox>>
  BY RequeueStep
<1>2. PICK m \in MsgType : m.id = x.id /\ Line!Enqueue(m)
  BY RequeueStep
<1>3. /\ m.id \in Msgs /\ \A k \in Msgs : (Started(k) \/ InLine(k))' <=> Started(k) \/ InLine(k) \/ k = m.id
  BY <1>2, EnterPlaces
<1>4. HadTurn(m.id)
  BY <1>1, <1>2, HadAll DEF Known
<1>5. \A k \in Msgs : k < m.id => Lost(k) \/ HadTurn(k)
  <2>1. PICK j \in Turns : begun[j].id = m.id
    BY <1>4 DEF HadTurn
  <2>2. \A i \in 1 .. (j - 1) : i \in Turns
    BY <2>1, LineLengths DEF Turns
  <2> QED BY <2>1, <2>2 DEF Ordered, TurnsInOrder, HadTurn
<1>6. \A k \in Msgs : InBox(k)' <=> InBox(k)
  BY <1>1 DEF InBox, Entries
<1>7. \A k \in Msgs : Lost(k) => Lost(k)'
  BY <1>1, <1>3, <1>4, <1>6 DEF Lost, Started
<1>8. TurnsInOrder' /\ TakenInOrder' /\ LineInOrder'
  BY <1>2, <1>5, <1>7, EnterOrder DEF Started
<1>9. BoxInOrder'
  <2>1. \A k \in Msgs : Lost(k) \/ Started(k) \/ InLine(k) => (Lost(k) \/ Started(k) \/ InLine(k))'
    BY <1>3, <1>7
  <2>2. Entries' = Entries
    BY <1>1 DEF Entries
  <2> QED BY <1>1, <2>1, <2>2 DEF Ordered, BoxInOrder
<1>10. Apart'
  <2>1. m.id \in Msgs /\ ~InBox(m.id) /\ words[m.id] # -1
    BY <1>3, <1>4 DEF Ordered, Apart, Started
  <2>2. \A k \in Msgs : (Started(k) \/ InLine(k) \/ InBox(k))' => words'[k] # -1
    BY <1>1, <1>3, <1>6, <2>1 DEF Ordered, Apart
  <2>3. \A k \in Msgs : InBox(k)' => ~Started(k)' /\ ~InLine(k)'
    BY <1>3, <1>6, <2>1 DEF Ordered, Apart
  <2> QED BY <1>1, <2>2, <2>3 DEF Ordered, Apart, Entries
<1> QED BY <1>8, <1>9, <1>10 DEF Ordered

LEMMA OrderDispatched == ASSUME LineTypes, Ordered, Line!Dispatch PROVE Ordered'
<1> DEFINE e == inbox[1]
           m == [id |-> e.id, words |-> e.words, lookUps |-> FALSE]
<1>1. /\ inbox # <<>> /\ e \in EventType /\ Len(inbox) \in Nat \ {0} /\ Len(inbox') = Len(inbox) - 1
      /\ \A i \in 1 .. (Len(inbox) - 1) : inbox'[i] = inbox[i + 1]
      /\ words' = words
  BY DispatchTakes
<1>2. 1 \in Entries /\ Entries = 1 .. Len(inbox) /\ Entries' = 1 .. (Len(inbox) - 1)
  BY <1>1 DEF Entries
<1>3. e.id \in Msgs
  BY <1>1 DEF EventType
<1>4. \A k \in Msgs : InBox(k)' <=> InBox(k) /\ (e.edited \/ k # e.id)
  <2> SUFFICES ASSUME NEW k \in Msgs PROVE InBox(k)' <=> InBox(k) /\ (e.edited \/ k # e.id)
    OBVIOUS
  <2>1. ASSUME InBox(k)' PROVE InBox(k) /\ (e.edited \/ k # e.id)
    <3>1. PICK i \in 1 .. (Len(inbox) - 1) : inbox[i + 1].id = k /\ ~inbox[i + 1].edited
      BY <1>1, <1>2, <2>1 DEF InBox
    <3>2. i + 1 \in Entries /\ i + 1 # 1
      BY <1>1, <1>2
    <3> QED BY <1>2, <3>1, <3>2 DEF InBox, Ordered, Apart
  <2>2. ASSUME InBox(k), e.edited \/ k # e.id PROVE InBox(k)'
    <3>1. PICK i \in Entries : inbox[i].id = k /\ ~inbox[i].edited
      BY <2>2 DEF InBox
    <3>2. i # 1
      BY <2>2, <3>1
    <3>3. i - 1 \in 1 .. (Len(inbox) - 1) /\ (i - 1) + 1 = i
      BY <1>1, <1>2, <3>2
    <3>4. inbox'[i - 1] = inbox[i]
      BY <1>1, <3>3
    <3> QED BY <1>2, <3>1, <3>3, <3>4 DEF InBox
  <2> QED BY <2>1, <2>2
<1> HIDE DEF m
<1>5. /\ TurnsInOrder' /\ TakenInOrder' /\ LineInOrder' /\ \A k \in Msgs : Lost(k) => Lost(k)'
      /\ \A k \in Msgs : (Started(k) \/ InLine(k))' <=> Started(k) \/ InLine(k) \/ (~e.edited /\ k = e.id)
  <2>1. CASE ~e.edited
    <3>1. Line!Enqueue(m) /\ m \in MsgType /\ m.id = e.id
      BY <1>1, <2>1, DispatchTakes DEF m, EventType, MsgType
    <3>2. \A k \in Msgs : (Started(k) \/ InLine(k))' <=> Started(k) \/ InLine(k) \/ k = e.id
      BY <3>1, EnterPlaces
    <3>3. InBox(e.id)
      BY <1>2, <2>1 DEF InBox
    <3>4. \A k \in Msgs : Lost(k) => Lost(k)'
      BY <1>1, <1>4, <3>2, <3>3 DEF Lost
    <3>5. \A k \in Msgs : k < m.id => Lost(k) \/ Started(k) \/ InLine(k)
      BY <1>2, <2>1, <3>1 DEF Ordered, BoxInOrder
    <3> QED BY <2>1, <3>1, <3>2, <3>4, <3>5, EnterOrder
  <2>2. CASE e.edited
    <3>1. UNCHANGED <<line, turn, begun>>
      BY <2>2, DispatchTakes
    <3>2. \A k : (HadTurn(k) <=> HadTurn(k)') /\ (Taken(k) <=> Taken(k)') /\ (InLine(k) <=> InLine(k)') /\ (Started(k) <=> Started(k)')
      BY <3>1 DEF HadTurn, Taken, InLine, Started, Turns, Spots
    <3>3. \A k \in Msgs : Lost(k) => Lost(k)'
      BY <1>1, <1>4, <3>2 DEF Lost
    <3>4. Turns' = Turns /\ Spots' = Spots
      BY <3>1 DEF Turns, Spots
    <3>5. TurnsInOrder' /\ TakenInOrder' /\ LineInOrder'
      BY <3>1, <3>2, <3>3, <3>4 DEF Ordered, TurnsInOrder, TakenInOrder, LineInOrder
    <3> QED BY <2>2, <3>2, <3>3, <3>5
  <2> QED BY <2>1, <2>2
<1>6. BoxInOrder'
  <2> SUFFICES ASSUME NEW j \in 1 .. (Len(inbox) - 1), NEW k \in Msgs, ~inbox[j + 1].edited, k < inbox[j + 1].id
               PROVE  Lost(k)' \/ (Started(k) \/ InLine(k))' \/ \E i \in 1 .. (j - 1) : inbox'[i].id = k /\ ~inbox'[i].edited
    BY <1>1, <1>2 DEF BoxInOrder
  <2>1. j + 1 \in Entries /\ (j + 1) - 1 = j
    BY <1>1, <1>2
  <2>2. Lost(k) \/ Started(k) \/ InLine(k) \/ \E i \in 1 .. j : inbox[i].id = k /\ ~inbox[i].edited
    BY <2>1 DEF Ordered, BoxInOrder
  <2>3. ASSUME NEW i \in 1 .. j, inbox[i].id = k, ~inbox[i].edited
        PROVE  (Started(k) \/ InLine(k))' \/ \E h \in 1 .. (j - 1) : inbox'[h].id = k /\ ~inbox'[h].edited
    <3>1. CASE i = 1
      BY <1>3, <1>5, <2>3, <3>1
    <3>2. CASE i # 1
      <4>1. i - 1 \in 1 .. (j - 1) /\ i - 1 \in 1 .. (Len(inbox) - 1) /\ (i - 1) + 1 = i
        BY <1>1, <3>2
      <4>2. inbox'[i - 1] = inbox[i]
        BY <1>1, <4>1
      <4> QED BY <2>3, <4>1, <4>2
    <3> QED BY <3>1, <3>2
  <2> QED BY <1>5, <2>2, <2>3
<1>7. Apart'
  <2>1. ~e.edited => InBox(e.id)
    BY <1>2 DEF InBox
  <2>2. \A k \in Msgs : (Started(k) \/ InLine(k) \/ InBox(k))' => words'[k] # -1
    BY <1>1, <1>4, <1>5, <2>1 DEF Ordered, Apart
  <2>3. \A k \in Msgs : InBox(k)' => ~Started(k)' /\ ~InLine(k)'
    BY <1>4, <1>5 DEF Ordered, Apart
  <2>4. ASSUME NEW i \in Entries', NEW j \in Entries', ~inbox'[i].edited, ~inbox'[j].edited, inbox'[i].id = inbox'[j].id
        PROVE  i = j
    <3>1. inbox'[i] = inbox[i + 1] /\ inbox'[j] = inbox[j + 1] /\ i + 1 \in Entries /\ j + 1 \in Entries
      BY <1>1, <1>2
    <3>2. i + 1 = j + 1
      BY <2>4, <3>1 DEF Ordered, Apart
    <3> QED BY <1>2, <3>2
  <2> QED BY <2>2, <2>3, <2>4 DEF Apart
<1> QED BY <1>5, <1>6, <1>7 DEF Ordered

LEMMA OrderStarted == ASSUME LineTypes, Ordered, Line!StartTurn PROVE Ordered'
<1>1. /\ turn.step = "taken" /\ turn'.step = "running" /\ turn'.msg = turn.msg /\ line'.msgs = line.msgs
      /\ UNCHANGED <<words, inbox>>
  BY FirstStep
<1>2. PICK m \in MsgType : turn.msg = {m} /\ begun' = Append(begun, [id |-> m.id, words |-> m.words])
  BY FirstStep
<1> DEFINE b == [id |-> m.id, words |-> m.words]
<1>3. m.id \in Msgs /\ b \in SaidType /\ b.id = m.id /\ begun \in Seq(SaidType) /\ begun' = Append(begun, b)
  BY <1>2 DEF MsgType, SaidType, LineTypes
<1> HIDE DEF b
<1>4. /\ Len(begun') = Len(begun) + 1 /\ Len(begun) \in Nat /\ begun'[Len(begun) + 1] = b
      /\ \A i \in 1 .. Len(begun) : begun'[i] = begun[i]
  BY <1>3, OneAppended
<1>5. Turns' = Turns \cup {Len(begun) + 1} /\ Turns = 1 .. Len(begun) /\ Spots' = Spots /\ Entries' = Entries
  BY <1>1, <1>4 DEF Turns, Spots, Entries
<1>6. \A k \in Msgs : HadTurn(k)' <=> HadTurn(k) \/ k = m.id
  BY <1>3, <1>4, <1>5 DEF HadTurn
<1>7. \A k \in Msgs : ~Taken(k)' /\ (Taken(k) <=> k = m.id)
  BY <1>1, <1>2 DEF Taken
<1>8. \A k \in Msgs : (Started(k)' <=> Started(k)) /\ (InLine(k)' <=> InLine(k)) /\ (InBox(k)' <=> InBox(k))
  BY <1>1, <1>5, <1>6, <1>7 DEF Started, InLine, InBox
<1>9. \A k \in Msgs : Lost(k)' <=> Lost(k)
  BY <1>1, <1>8 DEF Lost
<1>10. TurnsInOrder'
  <2> SUFFICES ASSUME NEW j \in Turns', NEW k \in Msgs, k < begun'[j].id
               PROVE  Lost(k)' \/ \E i \in 1 .. (j - 1) : begun'[i].id = k
    BY DEF TurnsInOrder
  <2>1. CASE j \in Turns
    <3>1. begun'[j] = begun[j] /\ \A i \in 1 .. (j - 1) : begun'[i] = begun[i]
      BY <1>4, <1>5, <2>1
    <3> QED BY <1>9, <2>1, <3>1 DEF Ordered, TurnsInOrder
  <2>2. CASE j = Len(begun) + 1
    <3>1. Lost(k) \/ HadTurn(k)
      BY <1>3, <1>4, <1>7, <2>2 DEF Ordered, TakenInOrder
    <3>2. CASE HadTurn(k)
      <4>1. PICK i \in Turns : begun[i].id = k
        BY <3>2 DEF HadTurn
      <4> QED BY <1>4, <1>5, <2>2, <4>1
    <3> QED BY <1>9, <3>1, <3>2
  <2> QED BY <1>5, <2>1, <2>2
<1>11. TakenInOrder' /\ LineInOrder' /\ BoxInOrder' /\ Apart'
  BY <1>1, <1>5, <1>7, <1>8, <1>9 DEF Ordered, TakenInOrder, LineInOrder, BoxInOrder, Apart
<1> QED BY <1>10, <1>11 DEF Ordered

LEMMA OrderEnded == ASSUME LineTypes, Ordered, Line!EndTurn PROVE Ordered'
<1>1. turn.step = "ending" /\ UNCHANGED <<words, inbox>>
  BY LastStep
<1>2. \A k \in Msgs : ~Taken(k)
  BY <1>1 DEF Taken
<1>3. Entries' = Entries /\ \A k \in Msgs : InBox(k)' <=> InBox(k)
  BY <1>1 DEF InBox, Entries
<1>4. CASE line' = Line!NoLine /\ turn' = Line!NoTurn /\ begun' = begun
  <2>1. line'.msgs = <<>> /\ turn'.step = "none" /\ Turns' = Turns /\ Spots' = {}
    BY <1>4, LineNumbers DEF Turns, Spots
  <2>2. \A k \in Msgs : (HadTurn(k)' <=> HadTurn(k)) /\ ~Taken(k)' /\ ~InLine(k)' /\ (Started(k)' <=> Started(k))
    BY <1>2, <1>4, <2>1 DEF HadTurn, Taken, InLine, Started
  <2>3. \A k \in Msgs : Lost(k) \/ InLine(k) => Lost(k)' \/ Started(k)
    BY <1>1, <1>3, <2>2 DEF Ordered, Apart, Lost
  <2>4. \A k \in Msgs : Lost(k) => Lost(k)'
    BY <1>1, <1>3, <2>2 DEF Lost
  <2>5. TurnsInOrder' /\ TakenInOrder' /\ LineInOrder'
    BY <1>4, <2>1, <2>2, <2>4 DEF Ordered, TurnsInOrder, TakenInOrder, LineInOrder
  <2>6. BoxInOrder'
    BY <1>1, <1>3, <2>2, <2>3 DEF Ordered, BoxInOrder
  <2>7. Apart'
    BY <1>1, <1>3, <2>2 DEF Ordered, Apart
  <2> QED BY <2>5, <2>6, <2>7 DEF Ordered
<1>5. ASSUME line.msgs # <<>>, line.msgs[1] \in MsgType, Len(line.msgs) \in Nat \ {0}, NEW rest \in Seq(MsgType),
             Starts(line.msgs[1], rest), Len(rest) = Len(line.msgs) - 1,
             \A i \in 1 .. (Len(line.msgs) - 1) : rest[i] = line.msgs[i + 1]
      PROVE  Ordered'
  <2> DEFINE m == line.msgs[1]
  <2>1. /\ m.id \in Msgs /\ line'.msgs = rest /\ \A k \in Msgs : Started(k)' <=> Started(k) \/ k = m.id
    BY <1>1, <1>5, StartPlaces
  <2>2. 1 \in Spots /\ Spots = 1 .. Len(line.msgs) /\ Spots' = 1 .. (Len(line.msgs) - 1)
    BY <1>5, <2>1 DEF Spots
  <2>3. \A k \in Msgs : InLine(k)' => InLine(k)
    <3> SUFFICES ASSUME NEW k \in Msgs, InLine(k)' PROVE InLine(k)
      OBVIOUS
    <3>1. PICK i \in 1 .. (Len(line.msgs) - 1) : rest[i].id = k
      BY <2>1, <2>2 DEF InLine
    <3>2. i + 1 \in Spots /\ line.msgs[i + 1].id = k
      BY <1>5, <2>2, <3>1
    <3> QED BY <3>2 DEF InLine
  <2>4. \A k \in Msgs : InLine(k) => InLine(k)' \/ k = m.id
    <3> SUFFICES ASSUME NEW k \in Msgs, InLine(k), k # m.id PROVE InLine(k)'
      OBVIOUS
    <3>1. PICK i \in Spots : line.msgs[i].id = k
      BY DEF InLine
    <3>2. i # 1
      BY <3>1
    <3>3. i - 1 \in 1 .. (Len(line.msgs) - 1) /\ (i - 1) + 1 = i
      BY <1>5, <2>2, <3>2
    <3> QED BY <1>5, <2>1, <2>2, <3>1, <3>3 DEF InLine
  <2>5. InLine(m.id)
    BY <2>2 DEF InLine
  <2>6. \A k \in Msgs : Lost(k) => Lost(k)'
    BY <1>1, <1>3, <2>1, <2>3, <2>5 DEF Lost
  <2>7. \A k \in Msgs : k < m.id => Lost(k) \/ Started(k)
    BY <2>2 DEF Ordered, LineInOrder
  <2>8. TurnsInOrder' /\ TakenInOrder'
    BY <1>1, <1>5, <2>6, <2>7, StartOrder
  <2>9. LineInOrder'
    <3> SUFFICES ASSUME NEW j \in 1 .. (Len(line.msgs) - 1), NEW k \in Msgs, k < line.msgs[j + 1].id
                 PROVE  Lost(k)' \/ Started(k)' \/ \E i \in 1 .. (j - 1) : rest[i].id = k
      BY <1>5, <2>1, <2>2 DEF LineInOrder
    <3>1. j + 1 \in Spots /\ (j + 1) - 1 = j
      BY <1>5, <2>2
    <3>2. Lost(k) \/ Started(k) \/ \E i \in 1 .. j : line.msgs[i].id = k
      BY <3>1 DEF Ordered, LineInOrder
    <3>3. ASSUME NEW i \in 1 .. j, line.msgs[i].id = k PROVE Started(k)' \/ \E h \in 1 .. (j - 1) : rest[h].id = k
      <4>1. CASE i = 1
        BY <2>1, <3>3, <4>1
      <4>2. CASE i # 1
        <5>1. i - 1 \in 1 .. (j - 1) /\ i - 1 \in 1 .. (Len(line.msgs) - 1) /\ (i - 1) + 1 = i
          BY <1>5, <4>2
        <5>2. rest[i - 1] = line.msgs[i]
          BY <1>5, <5>1
        <5> QED BY <3>3, <5>1, <5>2
      <4> QED BY <4>1, <4>2
    <3> QED BY <2>1, <2>6, <3>2, <3>3
  <2>10. BoxInOrder'
    <3>1. \A k \in Msgs : Lost(k) \/ Started(k) \/ InLine(k) => Lost(k)' \/ Started(k)' \/ InLine(k)'
      BY <2>1, <2>4, <2>6
    <3> QED BY <1>1, <1>3, <3>1 DEF Ordered, BoxInOrder
  <2>11. Apart'
    BY <1>1, <1>3, <2>1, <2>3, <2>5 DEF Ordered, Apart
  <2> QED BY <2>8, <2>9, <2>10, <2>11 DEF Ordered
<1> QED BY <1>4, <1>5, LastStep

LEMMA OrderEdited == ASSUME LineTypes, Ordered, Known, Line!DispatchEdit PROVE Ordered'
<1>1. PICK e \in SaidType :
        /\ disp = {e} /\ UNCHANGED <<words, inbox, begun>>
        /\ \/ /\ Line!Waiting(e) # {} /\ UNCHANGED <<turn, editors>>
              /\ line' = [line EXCEPT !.msgs[Line!FirstOf(Line!Waiting(e))].words = e.words]
           \/ /\ line.current = e.id
              /\ line' = [line EXCEPT !.msgs = <<[id |-> e.id, words |-> e.words, lookUps |-> FALSE]>> \o @]
              /\ turn' = [turn EXCEPT !.cut = TRUE]
           \/ UNCHANGED <<line, turn>>
  BY EditTakes
<1>2. Turns' = Turns /\ Entries' = Entries /\ \A k : (HadTurn(k)' <=> HadTurn(k)) /\ (InBox(k)' <=> InBox(k))
  BY <1>1 DEF Turns, Entries, HadTurn, InBox
<1>3. CASE Line!Waiting(e) # {} /\ UNCHANGED turn
           /\ line' = [line EXCEPT !.msgs[Line!FirstOf(Line!Waiting(e))].words = e.words]
  <2>1. Len(line'.msgs) = Len(line.msgs) /\ \A j \in Spots : line'.msgs[j].id = line.msgs[j].id
    BY <1>1, <1>3, Reworded
  <2>2. Spots' = Spots
    BY <2>1 DEF Spots
  <2>3. \A k : (InLine(k)' <=> InLine(k)) /\ (Taken(k)' <=> Taken(k)) /\ (Started(k)' <=> Started(k)) /\ (Lost(k)' <=> Lost(k))
    BY <1>1, <1>2, <1>3, <2>1, <2>2 DEF InLine, Taken, Started, Lost
  <2>4. LineInOrder'
    <3> SUFFICES ASSUME NEW j \in Spots, NEW k \in Msgs, k < line.msgs[j].id
                 PROVE  Lost(k)' \/ Started(k)' \/ \E i \in 1 .. (j - 1) : line'.msgs[i].id = k
      BY <2>1, <2>2 DEF LineInOrder
    <3>1. \A i \in 1 .. (j - 1) : i \in Spots
      BY LineLengths DEF Spots
    <3>2. Lost(k) \/ Started(k) \/ \E i \in 1 .. (j - 1) : line.msgs[i].id = k
      BY DEF Ordered, LineInOrder
    <3> QED BY <2>1, <2>3, <3>1, <3>2
  <2> QED BY <1>1, <1>2, <1>3, <2>2, <2>3, <2>4 DEF Ordered, TurnsInOrder, TakenInOrder, BoxInOrder, Apart
<1>4. CASE line.current = e.id /\ turn' = [turn EXCEPT !.cut = TRUE]
           /\ line' = [line EXCEPT !.msgs = <<[id |-> e.id, words |-> e.words, lookUps |-> FALSE]>> \o @]
  <2> DEFINE m == [id |-> e.id, words |-> e.words, lookUps |-> FALSE]
  <2>1. m \in MsgType /\ m.id = e.id /\ e.id \in Msgs /\ e.id # 0
    BY LineNumbers DEF MsgType, SaidType
  <2>2. line' = [line EXCEPT !.msgs = <<m>> \o @]
    BY <1>4
  <2> HIDE DEF m
  <2>3. /\ Len(line'.msgs) = Len(line.msgs) + 1 /\ line'.msgs[1] = m /\ \A i \in Spots : line'.msgs[i + 1] = line.msgs[i]
        /\ turn'.step = turn.step /\ turn'.msg = turn.msg
    BY <1>4, <2>1, <2>2, PutInFront
  <2>4. Len(line.msgs) \in Nat /\ Spots = 1 .. Len(line.msgs) /\ Spots' = 1 .. (Len(line.msgs) + 1)
    BY <2>3, LineLengths DEF Spots
  <2>5. HadTurn(e.id) /\ Started(e.id)
    BY <1>4, <2>1, HadAll DEF Known, Started
  <2>6. \A j \in Spots' : j # 1 => j - 1 \in Spots /\ line'.msgs[j] = line.msgs[j - 1]
    <3> SUFFICES ASSUME NEW j \in Spots', j # 1 PROVE j - 1 \in Spots /\ line'.msgs[j] = line.msgs[j - 1]
      OBVIOUS
    <3>1. j - 1 \in Spots /\ (j - 1) + 1 = j
      BY <2>4
    <3> QED BY <2>3, <3>1
  <2>7. \A k \in Msgs : InLine(k)' <=> InLine(k) \/ k = e.id
    <3> SUFFICES ASSUME NEW k \in Msgs PROVE InLine(k)' <=> InLine(k) \/ k = e.id
      OBVIOUS
    <3>1. ASSUME NEW i \in Spots, line.msgs[i].id = k PROVE InLine(k)'
      <4>1. i + 1 \in Spots'
        BY <2>4
      <4> QED BY <2>3, <3>1, <4>1 DEF InLine
    <3>2. 1 \in Spots'
      BY <2>4
    <3> QED BY <2>1, <2>3, <2>6, <3>1, <3>2 DEF InLine
  <2>8. \A k : (Taken(k)' <=> Taken(k)) /\ (Started(k)' <=> Started(k))
    BY <1>2, <2>3 DEF Taken, Started
  <2>9. \A k \in Msgs : Lost(k) => Lost(k)'
    BY <1>1, <1>2, <2>5, <2>7, <2>8 DEF Lost
  <2>10. TurnsInOrder' /\ TakenInOrder' /\ BoxInOrder'
    BY <1>1, <1>2, <2>7, <2>8, <2>9 DEF Ordered, TurnsInOrder, TakenInOrder, BoxInOrder
  <2>11. LineInOrder'
    <3> SUFFICES ASSUME NEW j \in Spots', NEW k \in Msgs, k < line'.msgs[j].id
                 PROVE  Lost(k)' \/ Started(k)' \/ \E i \in 1 .. (j - 1) : line'.msgs[i].id = k
      BY DEF LineInOrder
    <3>1. CASE j = 1
      <4>1. k < e.id
        BY <2>1, <2>3, <3>1
      <4>2. PICK h \in Turns : begun[h].id = e.id
        BY <2>5 DEF HadTurn
      <4>3. \A i \in 1 .. (h - 1) : i \in Turns
        BY LineLengths DEF Turns
      <4>4. Lost(k) \/ HadTurn(k)
        BY <4>1, <4>2, <4>3 DEF Ordered, TurnsInOrder, HadTurn
      <4> QED BY <2>8, <2>9, <4>4 DEF Started
    <3>2. CASE j # 1
      <4>1. j - 1 \in Spots /\ line'.msgs[j] = line.msgs[j - 1]
        BY <2>6, <3>2
      <4>2. Lost(k) \/ Started(k) \/ \E i \in 1 .. ((j - 1) - 1) : line.msgs[i].id = k
        BY <4>1 DEF Ordered, LineInOrder
      <4>3. ASSUME NEW i \in 1 .. ((j - 1) - 1), line.msgs[i].id = k PROVE \E h \in 1 .. (j - 1) : line'.msgs[h].id = k
        <5>1. i \in Spots /\ i + 1 \in 1 .. (j - 1)
          BY <2>4, <4>1
        <5> QED BY <2>3, <4>3, <5>1
      <4> QED BY <2>8, <2>9, <4>2, <4>3
    <3> QED BY <3>1, <3>2
  <2>12. Apart'
    BY <1>1, <1>2, <2>5, <2>7, <2>8 DEF Ordered, Apart
  <2> QED BY <2>10, <2>11, <2>12 DEF Ordered
<1>5. CASE UNCHANGED <<line, turn>>
  BY <1>1, <1>5, OrderSame
<1> QED BY <1>1, <1>3, <1>4, <1>5

LEMMA OrderKept == ASSUME LineTypes, Ordered, Known, Line!Next PROVE Ordered'
<1>1. ASSUME NEW m \in Line!Ids, Line!Write(m) PROVE Ordered'
  <2>1. /\ m \in Msgs /\ words[m] = -1 /\ \A k \in Msgs : k < m => words[k] # -1
        /\ words' = [words EXCEPT ![m] = 0] /\ inbox' = Append(inbox, [id |-> m, words |-> 0, edited |-> FALSE])
        /\ UNCHANGED <<line, turn, begun>>
    BY <1>1, WriteStep
  <2> QED BY <2>1, OrderWritten, LineNumbers
<1>2. ASSUME NEW m \in Line!Ids, Line!Edit(m) PROVE Ordered'
  <2>1. /\ m \in Msgs /\ words[m] \in Nat /\ words[m] + 1 \in Texts
        /\ words' = [words EXCEPT ![m] = words[m] + 1]
        /\ inbox' = Append(inbox, [id |-> m, words |-> words[m] + 1, edited |-> TRUE])
        /\ UNCHANGED <<line, turn, begun>>
    BY <1>2, EditStep
  <2>2. words[m] # -1
    BY <2>1
  <2> DEFINE w == words[m] + 1
  <2>3. w \in Texts /\ words' = [words EXCEPT ![m] = w] /\ inbox' = Append(inbox, [id |-> m, words |-> w, edited |-> TRUE])
    BY <2>1
  <2> HIDE DEF w
  <2> QED BY <2>1, <2>2, <2>3, OrderWritten
<1>3. ASSUME NEW x \in editors, Line!ReadLast(x) \/ Line!Rewind(x) \/ Line!Clear(x) PROVE Ordered'
  BY <1>3, AnswerSteps, OrderSame
<1>4. ASSUME NEW x \in editors, Line!Requeue(x) PROVE Ordered'
  BY <1>4, OrderRequeued
<1>5. CASE Line!CancelTurns
  BY <1>5, CancelStep, OrderSame
<1>6. CASE Line!Run \/ Line!Keep \/ Line!Send \/ Line!Note
  <2>1. /\ UNCHANGED <<words, inbox, begun, line>> /\ turn'.msg = turn.msg /\ turn.step # "taken" /\ turn'.step # "taken"
    BY <1>6, TurnSteps2
  <2> QED BY <2>1, OrderSame
<1> QED BY <1>1, <1>2, <1>3, <1>4, <1>5, <1>6, LineSteps, OrderDispatched, OrderEdited, OrderStarted, OrderEnded

LEMMA HadStays ==
  ASSUME LineTypes, Line!Next, NEW k \in Msgs, HadTurn(k)
  PROVE  HadTurn(k)'
<1>1. CASE begun' = begun
  BY <1>1 DEF HadTurn, Turns
<1>2. CASE \E s \in SaidType : begun' = Append(begun, s)
  <2>1. PICK s \in SaidType : begun' = Append(begun, s)
    BY <1>2
  <2>2. begun \in Seq(SaidType)
    BY DEF LineTypes
  <2>3. Len(begun') = Len(begun) + 1 /\ Len(begun) \in Nat /\ \A i \in 1 .. Len(begun) : begun'[i] = begun[i]
    BY <2>1, <2>2, OneAppended
  <2> QED BY <2>3 DEF HadTurn, Turns
<1>3. ASSUME NEW m \in MsgType, NEW rest, Starts(m, rest) PROVE begun' = begun \/ \E s \in SaidType : begun' = Append(begun, s)
  <2>1. [id |-> m.id, words |-> m.words] \in SaidType
    BY DEF MsgType, SaidType
  <2> QED BY <1>3, <2>1 DEF Starts
<1>4. ASSUME NEW m \in MsgType, Line!Enqueue(m) PROVE begun' = begun \/ \E s \in SaidType : begun' = Append(begun, s)
  BY <1>3, <1>4, Enqueued DEF Joins
<1>5. begun' = begun \/ \E s \in SaidType : begun' = Append(begun, s)
  <2>1. ASSUME NEW m \in Line!Ids, Line!Write(m) \/ Line!Edit(m) PROVE begun' = begun
    BY <2>1 DEF Line!Write, Line!Edit
  <2>2. ASSUME NEW x \in editors, Line!ReadLast(x) \/ Line!Rewind(x) \/ Line!Clear(x) PROVE begun' = begun
    BY <2>2, AnswerSteps
  <2>3. ASSUME NEW x \in editors, Line!Requeue(x) PROVE begun' = begun \/ \E s \in SaidType : begun' = Append(begun, s)
    BY <1>4, <2>3, RequeueStep
  <2>4. CASE Line!Dispatch
    <3> DEFINE m == [id |-> inbox[1].id, words |-> inbox[1].words, lookUps |-> FALSE]
    <3>1. m \in MsgType
      BY <2>4, DispatchTakes DEF EventType, MsgType
    <3>2. begun' = begun \/ Line!Enqueue(m)
      BY <2>4, DispatchTakes
    <3> HIDE DEF m
    <3> QED BY <1>4, <3>1, <3>2
  <2>5. CASE Line!StartTurn
    <3>1. PICK m \in MsgType : begun' = Append(begun, [id |-> m.id, words |-> m.words])
      BY <2>5, FirstStep
    <3>2. [id |-> m.id, words |-> m.words] \in SaidType
      BY DEF MsgType, SaidType
    <3> QED BY <3>1, <3>2
  <2>6. CASE Line!EndTurn
    BY <1>3, <2>6, LastStep
  <2>7. CASE Line!Run \/ Line!Keep \/ Line!Send \/ Line!Note
    BY <2>7, TurnSteps2
  <2>8. CASE Line!DispatchEdit \/ Line!CancelTurns
    BY <2>8 DEF Line!DispatchEdit, Line!CancelTurns
  <2> QED BY <2>1, <2>2, <2>3, <2>4, <2>5, <2>6, <2>7, <2>8, LineSteps
<1> QED BY <1>1, <1>2, <1>5

\* In a turn that begins at once the message had its turn; else nothing is said of it yet.
LEMMA KnownStart ==
  ASSUME LineTypes, NEW m \in MsgType, NEW rest, Starts(m, rest), turn.step # "taken"
  PROVE  /\ line'.current # 0 => line'.current \in Had'
         /\ turn'.step # "taken" => \A t \in turn'.msg : t.id \in Had'
<1>1. CASE calm
  <2>1. m.id \in Had'
    BY <1>1, StartPlaces, HadAll
  <2> QED BY <1>1, <2>1 DEF Starts
<1>2. CASE ~calm
  BY <1>2 DEF Starts
<1> QED BY <1>1, <1>2

LEMMA KnownKept == ASSUME LineTypes, Known, Line!Next PROVE Known'
<1>1. LineTypes'
  BY LineTypesKept
<1>2. \A k \in Msgs : k \in Had => k \in Had'
  BY HadStays, HadAll
<1>3. last.id \in Msgs \cup {0} /\ line.current \in Msgs \cup {0} /\ (\A t \in turn.msg : t.id \in Msgs) /\ \A x \in editors : x.id \in Msgs
  <2>1. last \in LastType /\ line \in LineType /\ editors \subseteq EditorType
    BY DEF LineTypes
  <2> QED BY <2>1, LineLengths DEF LastType, LineType, EditorType
<1>4. ASSUME UNCHANGED line, turn'.msg = turn.msg, turn.step # "taken" \/ turn'.step = "taken"
      PROVE  /\ line'.current # 0 => line'.current \in Had'
             /\ turn'.step # "taken" => \A t \in turn'.msg : t.id \in Had'
  BY <1>2, <1>3, <1>4 DEF Known
<1>5. UNCHANGED last => (last'.id # 0 => last'.id \in Had')
  BY <1>2, <1>3 DEF Known
<1>6. (\A x \in editors' : x.step = "read" \/ x \in editors) => \A x \in editors' : x.step # "read" => x.id \in Had'
  BY <1>2, <1>3 DEF Known
<1>7. ASSUME NEW m \in MsgType, Line!Enqueue(m)
      PROVE  /\ line'.current # 0 => line'.current \in Had'
             /\ turn'.step # "taken" => \A t \in turn'.msg : t.id \in Had'
  <2>1. CASE line.on
    <3>1. line'.current = line.current /\ turn' = turn
      BY <1>7, <2>1, EnterPlaces
    <3> QED BY <1>2, <1>3, <3>1 DEF Known
  <2>2. CASE ~line.on
    BY <1>7, <2>2, EnterPlaces, KnownStart
  <2> QED BY <2>1, <2>2
<1>8. ASSUME NEW m \in Line!Ids, Line!Write(m) \/ Line!Edit(m) PROVE Known'
  <2>1. UNCHANGED <<line, turn, last, editors>>
    BY <1>8 DEF Line!Write, Line!Edit
  <2> QED BY <1>4, <1>5, <1>6, <2>1 DEF Known
<1>9. CASE Line!CancelTurns
  BY <1>4, <1>5, <1>6, <1>9, CancelStep DEF Known
<1>10. CASE Line!Dispatch
  <2> DEFINE m == [id |-> inbox[1].id, words |-> inbox[1].words, lookUps |-> FALSE]
  <2>1. m \in MsgType
    BY <1>10, DispatchTakes DEF EventType, MsgType
  <2>2. UNCHANGED last /\ (UNCHANGED <<line, turn>> \/ Line!Enqueue(m)) /\ \A x \in editors' : x.step = "read" \/ x \in editors
    BY <1>10, DispatchTakes
  <2> HIDE DEF m
  <2> QED BY <1>4, <1>5, <1>6, <1>7, <2>1, <2>2 DEF Known
<1>11. CASE Line!DispatchEdit
  <2>1. PICK e \in SaidType :
          /\ disp = {e} /\ UNCHANGED last
          /\ \/ /\ Line!Waiting(e) # {} /\ UNCHANGED <<turn, editors>>
                /\ line' = [line EXCEPT !.msgs[Line!FirstOf(Line!Waiting(e))].words = e.words]
             \/ /\ UNCHANGED editors
                /\ line' = [line EXCEPT !.msgs = <<[id |-> e.id, words |-> e.words, lookUps |-> FALSE]>> \o @]
                /\ turn' = [turn EXCEPT !.cut = TRUE]
             \/ /\ UNCHANGED <<line, turn>>
                /\ editors' = editors \cup {[step |-> "read", id |-> e.id, words |-> e.words, changed |-> FALSE]}
    BY <1>11, EditTakes
  <2>2. \A x \in editors' : x.step = "read" \/ x \in editors
    BY <2>1
  <2>3. line'.current = line.current /\ turn'.msg = turn.msg /\ turn'.step = turn.step
    <3>1. line \in LineType /\ turn \in TurnType
      BY DEF LineTypes
    <3> QED BY <2>1, <3>1 DEF LineType, TurnType
  <2> QED BY <1>2, <1>3, <1>5, <1>6, <2>1, <2>2, <2>3 DEF Known
<1>12. CASE Line!StartTurn
  <2>1. PICK m \in MsgType : turn.msg = {m} /\ begun' = Append(begun, [id |-> m.id, words |-> m.words]) /\ line'.current = m.id
    BY <1>12, FirstStep
  <2>2. turn'.msg = turn.msg /\ UNCHANGED <<editors, last>>
    BY <1>12, FirstStep
  <2>3. m.id \in Had'
    <3> DEFINE b == [id |-> m.id, words |-> m.words]
    <3>1. b \in SaidType /\ b.id = m.id /\ begun' = Append(begun, b) /\ begun \in Seq(SaidType)
      BY <2>1 DEF MsgType, SaidType, LineTypes
    <3> HIDE DEF b
    <3>2. Len(begun') = Len(begun) + 1 /\ Len(begun) \in Nat /\ begun'[Len(begun) + 1] = b
      BY <3>1, OneAppended
    <3>3. Len(begun) + 1 \in Turns'
      BY <3>2 DEF Turns
    <3> QED BY <3>1, <3>2, <3>3 DEF Had
  <2> QED BY <1>5, <1>6, <2>1, <2>2, <2>3 DEF Known
<1>13. CASE Line!EndTurn
  <2>1. turn.step = "ending" /\ UNCHANGED <<editors, last>>
    BY <1>13, LastStep
  <2>2. /\ line'.current # 0 => line'.current \in Had'
        /\ turn'.step # "taken" => \A t \in turn'.msg : t.id \in Had'
    <3>1. CASE line' = Line!NoLine /\ turn' = Line!NoTurn
      BY <3>1, LineNumbers
    <3>2. CASE \E m \in MsgType, rest \in Seq(MsgType) : Starts(m, rest)
      BY <2>1, <3>2, KnownStart
    <3> QED BY <1>13, <3>1, <3>2, LastStep
  <2> QED BY <1>5, <1>6, <2>1, <2>2 DEF Known
<1>14. CASE Line!Run \/ Line!Keep \/ Line!Send \/ Line!Note
  <2>1. UNCHANGED <<line, editors>> /\ turn'.msg = turn.msg /\ turn.step # "taken"
    BY <1>14, TurnSteps2
  <2>2. last' = last \/ \E m \in turn.msg : last'.id = m.id
    BY <1>14, TurnTypes
  <2>3. last'.id # 0 => last'.id \in Had'
    BY <1>2, <1>3, <2>1, <2>2 DEF Known
  <2> QED BY <1>4, <1>6, <2>1, <2>3 DEF Known
<1>15. ASSUME NEW x \in editors, Line!ReadLast(x) \/ Line!Rewind(x) \/ Line!Clear(x) PROVE Known'
  <2>1. /\ UNCHANGED <<line, turn>> /\ last' \in {last, Line!NoLast} /\ x \in EditorType
        /\ \/ editors' = editors \ {x}
           \/ \E y \in EditorType : /\ editors' = (editors \ {x}) \cup {y} /\ y.id = x.id
                                    /\ (x.step = "read" => last.id = x.id)
    BY <1>15, AnswerSteps
  <2>2. last'.id # 0 => last'.id \in Had'
    BY <1>5, <2>1, LineNumbers
  <2>3. x.id \in Msgs /\ (x.step = "read" /\ last.id = x.id => x.id \in Had) /\ (x.step # "read" => x.id \in Had)
    BY <1>3, LineNumbers DEF Known
  <2>4. \A y \in editors' : y.step # "read" => y.id \in Had'
    BY <1>2, <1>3, <2>1, <2>3 DEF Known
  <2> QED BY <1>4, <2>1, <2>2, <2>4 DEF Known
<1>16. ASSUME NEW x \in editors, Line!Requeue(x) PROVE Known'
  <2>1. editors' = editors \ {x} /\ UNCHANGED last /\ \E m \in MsgType : Line!Enqueue(m)
    BY <1>16, RequeueStep
  <2> QED BY <1>5, <1>6, <1>7, <2>1 DEF Known
<1> QED BY <1>8, <1>9, <1>10, <1>11, <1>12, <1>13, <1>14, <1>15, <1>16, LineSteps

(***************************************************************************)
(* Line: a calm world.                                                     *)
(***************************************************************************)
LEMMA CalmEnters ==
  ASSUME LineTypes, CalmWorld, calm, NEW m \in MsgType, Line!Enqueue(m)
  PROVE  /\ turn'.step # "taken" /\ (turn'.fails => turn'.cut) /\ (turn.cut \/ ~turn'.cut)
         /\ \A t \in turn'.msg : line'.current = t.id /\ (turn'.cut => t.id = N)
         /\ \A k, w : Queued(k, w) \/ InHand(k, w) => (Queued(k, w) \/ InHand(k, w))'
         /\ (Queued(m.id, m.words) \/ InHand(m.id, m.words))'
<1>1. Len(line.msgs) \in Nat
  BY LineLengths
<1>2. CASE line.on
  <2>1. /\ turn' = turn /\ line'.current = line.current /\ Len(line'.msgs) = Len(line.msgs) + 1
        /\ line'.msgs[Len(line.msgs) + 1] = m /\ \A i \in Spots : line'.msgs[i] = line.msgs[i]
    BY <1>2, EnterPlaces
  <2>2. Spots' = Spots \cup {Len(line.msgs) + 1}
    BY <1>1, <2>1 DEF Spots
  <2>3. \A k, w : Queued(k, w) => Queued(k, w)'
    BY <2>1, <2>2 DEF Queued
  <2>4. \A k, w : InHand(k, w) => InHand(k, w)'
    BY <2>1 DEF InHand
  <2>5. Queued(m.id, m.words)'
    BY <2>1, <2>2 DEF Queued
  <2> QED BY <2>1, <2>3, <2>4, <2>5 DEF CalmWorld
<1>3. CASE ~line.on
  <2>1. Starts(m, <<>>) /\ line.msgs = <<>> /\ turn.msg = {}
    BY <1>3, EnterPlaces
  <2>2. turn'.step = "running" /\ turn'.msg = {m} /\ ~turn'.cut /\ ~turn'.fails /\ line'.current = m.id
    BY <2>1 DEF Starts
  <2>3. \A k, w : ~Queued(k, w) /\ ~InHand(k, w)
    BY <2>1 DEF Queued, InHand, Spots
  <2>4. InHand(m.id, m.words)'
    BY <2>2 DEF InHand, Unanswered
  <2> QED BY <2>2, <2>3, <2>4
<1> QED BY <1>2, <1>3

\* An EndTurn of a calm world begins with the first message, and loses none.
LEMMA CalmGoesOn ==
  ASSUME LineTypes, CalmWorld, calm, Line!EndTurn
  PROVE  \/ line.msgs = <<>> /\ line' = Line!NoLine /\ turn' = Line!NoTurn
         \/ /\ line.msgs # <<>> /\ Len(line.msgs) \in Nat \ {0} /\ Len(line'.msgs) = Len(line.msgs) - 1
            /\ \A i \in 1 .. (Len(line.msgs) - 1) : line'.msgs[i] = line.msgs[i + 1]
            /\ turn'.step = "running" /\ turn'.msg = {line.msgs[1]} /\ ~turn'.cut /\ ~turn'.fails
            /\ line'.current = line.msgs[1].id
<1>1. ~stopped
  BY DEF CalmWorld
<1>2. \/ (line.msgs = <<>> \/ stopped) /\ line' = Line!NoLine /\ turn' = Line!NoTurn
      \/ /\ line.msgs # <<>> /\ Len(line.msgs) \in Nat \ {0}
         /\ \E rest \in Seq(MsgType) :
              /\ Starts(line.msgs[1], rest) /\ Len(rest) = Len(line.msgs) - 1
              /\ \A i \in 1 .. (Len(line.msgs) - 1) : rest[i] = line.msgs[i + 1]
  BY LastStep
<1>3. ASSUME NEW rest, Starts(line.msgs[1], rest)
      PROVE  /\ line'.msgs = rest /\ line'.current = line.msgs[1].id
             /\ turn'.step = "running" /\ turn'.msg = {line.msgs[1]} /\ ~turn'.cut /\ ~turn'.fails
  BY <1>3 DEF Starts
<1> QED BY <1>1, <1>2, <1>3

LEMMA CalmWorldKept ==
  ASSUME LineTypes, CalmWorld, calm, Line!Next
  PROVE  CalmWorld'
<1>1. /\ \A t \in turn.msg : line.current = t.id /\ (turn.cut => t.id = N)
      /\ ~stopped /\ turn.step # "taken" /\ (turn.fails => turn.cut)
      /\ \A e \in disp : e.id = N
      /\ \A i \in Entries : inbox[i].edited => inbox[i].id = N
      /\ \A m \in Msgs : m < N => words[m] < 1
      /\ \A m, k \in Msgs : m < k /\ words[m] = -1 => words[k] = -1
  BY DEF CalmWorld
<1>2. ASSUME UNCHANGED <<stopped, words, disp, inbox>>,
             turn'.step # "taken" /\ (turn'.fails => turn'.cut),
             \A t \in turn'.msg : line'.current = t.id /\ (turn'.cut => t.id = N)
      PROVE  CalmWorld'
  BY <1>1, <1>2 DEF CalmWorld, Entries
<1>3. ASSUME NEW m \in Line!Ids, Line!Write(m) PROVE CalmWorld'
  <2>1. /\ m \in Msgs /\ words[m] = -1 /\ \A k \in Msgs : k < m => words[k] # -1
        /\ words' = [words EXCEPT ![m] = 0] /\ inbox' = Append(inbox, [id |-> m, words |-> 0, edited |-> FALSE])
        /\ UNCHANGED <<disp, line, turn, stopped>>
    BY <1>3, WriteStep
  <2>2. /\ words'[m] = 0 /\ \A k \in Msgs : k # m => words'[k] = words[k]
        /\ Len(inbox') = Len(inbox) + 1 /\ Len(inbox) \in Nat /\ \A j \in Entries : inbox'[j] = inbox[j]
        /\ inbox'[Len(inbox) + 1] = [id |-> m, words |-> 0, edited |-> FALSE]
    BY <2>1, WritesTypes, LineNumbers
  <2>3. Entries' = Entries \cup {Len(inbox) + 1}
    BY <2>2 DEF Entries
  <2>4. \A i \in Entries' : inbox'[i].edited => inbox'[i].id = N
    BY <1>1, <2>2, <2>3
  <2>5. \A k \in Msgs : k < N => words'[k] < 1
    BY <1>1, <2>2
  <2>6. \A k, h \in Msgs : k < h /\ words'[k] = -1 => words'[h] = -1
    <3> SUFFICES ASSUME NEW k \in Msgs, NEW h \in Msgs, k < h, words'[k] = -1 PROVE words'[h] = -1
      OBVIOUS
    <3>1. k # m /\ words[k] = -1
      BY <2>2
    <3>2. h # m
      BY <2>1, <3>1
    <3> QED BY <1>1, <2>2, <3>1, <3>2
  <2> QED BY <1>1, <2>1, <2>4, <2>5, <2>6 DEF CalmWorld
<1>4. ASSUME NEW m \in Line!Ids, Line!Edit(m) PROVE CalmWorld'
  <2> DEFINE w == words[m] + 1
  <2>1. /\ m = N /\ N \in Msgs /\ words[m] \in Nat /\ w \in Texts
        /\ words' = [words EXCEPT ![m] = w] /\ inbox' = Append(inbox, [id |-> m, words |-> w, edited |-> TRUE])
        /\ UNCHANGED <<disp, line, turn, stopped>>
    BY <1>4, EditStep
  <2>2. w \in Nat
    BY <2>1
  <2> HIDE DEF w
  <2>3. /\ words'[m] = w /\ \A k \in Msgs : k # m => words'[k] = words[k]
        /\ Len(inbox') = Len(inbox) + 1 /\ Len(inbox) \in Nat /\ \A j \in Entries : inbox'[j] = inbox[j]
        /\ inbox'[Len(inbox) + 1] = [id |-> m, words |-> w, edited |-> TRUE]
    BY <2>1, WritesTypes
  <2>4. Entries' = Entries \cup {Len(inbox) + 1}
    BY <2>3 DEF Entries
  <2>5. inbox'[Len(inbox) + 1].id = N
    BY <2>1, <2>3
  <2>6. \A i \in Entries' : inbox'[i].edited => inbox'[i].id = N
    BY <1>1, <2>3, <2>4, <2>5
  <2>7. \A k \in Msgs : k < N => k # N
    BY LineNumbers
  <2>8. \A k \in Msgs : k < N => words'[k] < 1
    BY <1>1, <2>1, <2>3, <2>7
  <2>9. \A k, h \in Msgs : k < h /\ words'[k] = -1 => words'[h] = -1
    <3> SUFFICES ASSUME NEW k \in Msgs, NEW h \in Msgs, k < h, words'[k] = -1 PROVE words'[h] = -1
      OBVIOUS
    <3>1. k # m /\ words[k] = -1
      BY <2>2, <2>3
    <3>2. words[h] = -1
      BY <1>1, <3>1
    <3>3. h # m
      BY <2>1, <3>2
    <3> QED BY <2>3, <3>2, <3>3
  <2> QED BY <1>1, <2>1, <2>6, <2>8, <2>9 DEF CalmWorld
<1>5. CASE Line!Dispatch
  <2>1. /\ inbox[1] \in EventType /\ Len(inbox) \in Nat \ {0} /\ Len(inbox') = Len(inbox) - 1
        /\ \A i \in 1 .. (Len(inbox) - 1) : inbox'[i] = inbox[i + 1]
        /\ UNCHANGED <<words, stopped>>
    BY <1>5, DispatchTakes
  <2>2. \A i \in Entries' : i + 1 \in Entries /\ inbox'[i] = inbox[i + 1]
    BY <2>1 DEF Entries
  <2>3. \A i \in Entries' : inbox'[i].edited => inbox'[i].id = N
    BY <1>1, <2>2
  <2>4. \A e \in disp' : e.id = N
    <3>1. 1 \in Entries
      BY <2>1 DEF Entries
    <3> QED BY <1>1, <1>5, <3>1, DispatchTakes
  <2>5. /\ turn'.step # "taken" /\ (turn'.fails => turn'.cut)
        /\ \A t \in turn'.msg : line'.current = t.id /\ (turn'.cut => t.id = N)
    <3> DEFINE m == [id |-> inbox[1].id, words |-> inbox[1].words, lookUps |-> FALSE]
    <3>1. m \in MsgType
      BY <2>1 DEF EventType, MsgType
    <3>2. UNCHANGED <<line, turn>> \/ Line!Enqueue(m)
      BY <1>5, DispatchTakes
    <3> HIDE DEF m
    <3> QED BY <1>1, <3>1, <3>2, CalmEnters
  <2> QED BY <1>1, <2>1, <2>3, <2>4, <2>5 DEF CalmWorld
<1>6. CASE Line!DispatchEdit
  <2>1. PICK e \in SaidType :
          /\ disp = {e} /\ disp' = {} /\ UNCHANGED <<words, inbox, stopped>>
          /\ \/ /\ UNCHANGED turn
                /\ line' = [line EXCEPT !.msgs[Line!FirstOf(Line!Waiting(e))].words = e.words]
             \/ /\ line.current = e.id
                /\ line' = [line EXCEPT !.msgs = <<[id |-> e.id, words |-> e.words, lookUps |-> FALSE]>> \o @]
                /\ turn' = [turn EXCEPT !.cut = TRUE]
             \/ UNCHANGED <<line, turn>>
    BY <1>6, EditTakes
  <2>2. line \in LineType /\ turn \in TurnType
    BY DEF LineTypes
  <2>3. line'.current = line.current /\ turn'.msg = turn.msg /\ turn'.step = turn.step /\ turn'.fails = turn.fails
        /\ (turn'.cut => turn.cut \/ line.current = e.id) /\ (turn.cut => turn'.cut)
    BY <2>1, <2>2 DEF LineType, TurnType
  <2>4. e.id = N
    BY <1>1, <2>1
  <2> QED BY <1>1, <2>1, <2>3, <2>4 DEF CalmWorld, Entries
<1>7. CASE Line!EndTurn
  <2>1. UNCHANGED <<words, inbox, disp, stopped>>
    BY <1>7, LastStep
  <2>2. /\ turn'.step # "taken" /\ (turn'.fails => turn'.cut)
        /\ \A t \in turn'.msg : line'.current = t.id /\ (turn'.cut => t.id = N)
    BY <1>7, CalmGoesOn, LineNumbers
  <2> QED BY <1>2, <2>1, <2>2
<1>8. CASE Line!Run \/ Line!Keep \/ Line!Send \/ Line!Note
  <2>1. /\ UNCHANGED <<words, inbox, disp, line, stopped>> /\ turn'.msg = turn.msg /\ turn'.cut = turn.cut
        /\ turn'.step # "taken"
    BY <1>8, TurnSteps2
  <2>2. turn'.fails => turn'.cut
    <3>1. CASE Line!Run
      <4>1. PICK c \in BOOLEAN, f \in BOOLEAN :
              /\ f => ~calm \/ ~Line!Ctx
              /\ turn' = [turn EXCEPT !.step = IF turn.cut THEN "ending" ELSE "keeping", !.changed = c, !.fails = f]
        BY <3>1 DEF Line!Run
      <4>2. turn'.fails = f
        BY <4>1 DEF LineTypes, TurnType
      <4> QED BY <1>1, <2>1, <4>1, <4>2 DEF Line!Ctx
    <3>2. CASE Line!Keep \/ Line!Send \/ Line!Note
      <4>1. turn'.fails = turn.fails
        BY <3>2 DEF LineTypes, TurnType, Line!Keep, Line!Send, Line!Note
      <4> QED BY <1>1, <2>1, <4>1
    <3> QED BY <1>8, <3>1, <3>2
  <2> QED BY <1>1, <1>2, <2>1, <2>2
<1>9. ASSUME NEW x \in editors, Line!ReadLast(x) \/ Line!Rewind(x) \/ Line!Clear(x) PROVE CalmWorld'
  <2>1. UNCHANGED <<words, inbox, disp, line, turn, stopped>>
    BY <1>9, AnswerSteps
  <2> QED BY <1>1, <1>2, <2>1
<1>10. ASSUME NEW x \in editors, Line!Requeue(x) PROVE CalmWorld'
  <2>1. UNCHANGED <<words, inbox, disp, stopped>> /\ \E m \in MsgType : Line!Enqueue(m)
    BY <1>10, RequeueStep
  <2> QED BY <1>2, <2>1, CalmEnters
<1>11. CASE Line!StartTurn \/ Line!CancelTurns
  BY <1>1, <1>11, FirstStep, CancelStep
<1> QED BY <1>3, <1>4, <1>5, <1>6, <1>7, <1>8, <1>9, <1>10, <1>11, LineSteps

LEMMA RepliesStay == ASSUME Line!Next, NEW m, NEW w, Replied(m, w) PROVE Replied(m, w)'
<1>1. out \subseteq out'
  <2>1. ASSUME NEW m2 \in Line!Ids, Line!Write(m2) \/ Line!Edit(m2) PROVE out' = out
    BY <2>1 DEF Line!Write, Line!Edit
  <2>2. ASSUME NEW x \in editors, Line!ReadLast(x) \/ Line!Rewind(x) \/ Line!Clear(x) \/ Line!Requeue(x) PROVE out' = out
    BY <2>2 DEF Line!ReadLast, Line!Rewind, Line!Clear, Line!Requeue
  <2>3. CASE Line!Send
    BY <2>3 DEF Line!Send
  <2>4. CASE Line!Run \/ Line!Keep \/ Line!Note \/ Line!StartTurn \/ Line!EndTurn
    BY <2>4 DEF Line!Run, Line!Keep, Line!Note, Line!StartTurn, Line!EndTurn
  <2>5. CASE Line!Dispatch \/ Line!DispatchEdit \/ Line!CancelTurns
    BY <2>5 DEF Line!Dispatch, Line!DispatchEdit, Line!CancelTurns
  <2> QED BY <2>1, <2>2, <2>3, <2>4, <2>5, LineSteps
<1> QED BY <1>1 DEF Replied

\* In a calm turn that is not cut, the next step is nearer to the reply.
LEMMA CalmTurn ==
  ASSUME LineTypes, CalmWorld, calm, ~turn.cut, Line!Run \/ Line!Keep \/ Line!Send \/ Line!Note
  PROVE  /\ turn'.msg = turn.msg /\ ~turn'.cut /\ UNCHANGED <<words, inbox, disp, line, editors>>
         /\ \/ turn.step \in Unanswered /\ turn'.step \in Unanswered /\ last' = last
            \/ /\ turn.step \in Unanswered /\ turn'.step = "noting" /\ last' = last
               /\ \A t \in turn.msg : Replied(t.id, t.words)'
            \/ turn.step = "noting" /\ turn'.step = "ending" /\ \A t \in turn.msg : last'.id = t.id /\ last'.words = t.words
<1>1. /\ turn'.msg = turn.msg /\ ~turn'.cut /\ UNCHANGED <<words, inbox, disp, line, editors>>
      /\ ~stopped /\ ~turn.fails /\ turn \in TurnType
  BY TurnSteps2 DEF CalmWorld, LineTypes
<1>2. CASE Line!Run
  <2>1. PICK c \in BOOLEAN, f \in BOOLEAN :
          turn' = [turn EXCEPT !.step = IF turn.cut THEN "ending" ELSE "keeping", !.changed = c, !.fails = f]
    BY <1>2 DEF Line!Run
  <2>2. turn'.step = "keeping" /\ turn.step = "running" /\ last' = last
    BY <1>1, <1>2, <2>1 DEF TurnType, Line!Run
  <2> QED BY <1>1, <2>2 DEF Unanswered
<1>3. CASE Line!Keep
  <2>1. turn'.step = "sending" /\ turn.step = "keeping" /\ last' = last
    BY <1>1, <1>3 DEF TurnType, Line!Keep
  <2> QED BY <1>1, <2>1 DEF Unanswered
<1>4. CASE Line!Send
  <2>1. PICK m \in turn.msg : out' = out \cup {[id |-> m.id, words |-> m.words]}
    BY <1>1, <1>4 DEF Line!Send, Line!Ctx, Line!What
  <2>2. turn'.step = "noting" /\ turn.step = "sending" /\ last' = last
    BY <1>1, <1>4 DEF TurnType, Line!Send, Line!Ctx
  <2>3. \A t \in turn.msg : t = m
    BY DEF LineTypes
  <2>4. \A t \in turn.msg : Replied(t.id, t.words)'
    BY <2>1, <2>3 DEF Replied
  <2> QED BY <1>1, <2>2, <2>4 DEF Unanswered
<1>5. CASE Line!Note
  <2>1. PICK m \in turn.msg : last' = [id |-> m.id, words |-> m.words, changed |-> turn.changed]
    BY <1>1, <1>5 DEF Line!Note, Line!Ctx
  <2>2. turn'.step = "ending" /\ turn.step = "noting"
    BY <1>1, <1>5 DEF TurnType, Line!Note
  <2>3. \A t \in turn.msg : t = m
    BY DEF LineTypes
  <2> QED BY <1>1, <2>1, <2>2, <2>3
<1> QED BY <1>2, <1>3, <1>4, <1>5

\* What is on its way stays so, or is answered.
LEMMA WayKept ==
  ASSUME LineTypes, CalmWorld, calm, Line!Next, NEW m \in Msgs, NEW w \in Texts, OnItsWay(m, w), m = N => disp = {}
  PROVE  OnItsWay(m, w)' \/ Replied(m, w)'
<1>1. ASSUME UNCHANGED inbox PROVE Comes(m, w) => Comes(m, w)'
  BY <1>1 DEF Comes, Entries
<1>2. ASSUME UNCHANGED <<line, turn>> PROVE Queued(m, w) \/ InHand(m, w) => (Queued(m, w) \/ InHand(m, w))'
  BY <1>2 DEF Queued, InHand, Spots
<1>3. ASSUME NEW e, inbox' = Append(inbox, e) PROVE Comes(m, w) => Comes(m, w)'
  <2>1. inbox \in Seq(EventType)
    BY DEF LineTypes
  <2>2. Len(inbox') = Len(inbox) + 1 /\ Len(inbox) \in Nat /\ \A j \in 1 .. Len(inbox) : inbox'[j] = inbox[j]
    BY <1>3, <2>1
  <2> QED BY <2>2 DEF Comes, Entries
<1>4. ASSUME NEW k \in Line!Ids, Line!Write(k) \/ Line!Edit(k) PROVE OnItsWay(m, w)'
  <2>1. UNCHANGED <<line, turn>> /\ \E e : inbox' = Append(inbox, e)
    BY <1>4 DEF Line!Write, Line!Edit
  <2> QED BY <1>2, <1>3, <2>1 DEF OnItsWay
<1>5. CASE Line!Dispatch
  <2> DEFINE n == [id |-> inbox[1].id, words |-> inbox[1].words, lookUps |-> FALSE]
  <2>1. /\ inbox[1] \in EventType /\ Len(inbox) \in Nat \ {0} /\ Len(inbox') = Len(inbox) - 1
        /\ \A i \in 1 .. (Len(inbox) - 1) : inbox'[i] = inbox[i + 1]
    BY <1>5, DispatchTakes
  <2>2. n \in MsgType /\ n.id = inbox[1].id /\ n.words = inbox[1].words
    BY <2>1 DEF EventType, MsgType
  <2>3. (inbox[1].edited /\ UNCHANGED <<line, turn>>) \/ Line!Enqueue(n)
    BY <1>5, DispatchTakes
  <2> HIDE DEF n
  <2>4. Queued(m, w) \/ InHand(m, w) => (Queued(m, w) \/ InHand(m, w))'
    BY <1>2, <2>2, <2>3, CalmEnters
  <2>5. ASSUME Comes(m, w) PROVE (Comes(m, w) \/ Queued(m, w) \/ InHand(m, w))'
    <3>1. PICK i \in Entries : inbox[i].id = m /\ inbox[i].words = w /\ ~inbox[i].edited
      BY <2>5 DEF Comes
    <3>2. CASE i = 1
      BY <2>2, <2>3, <3>1, <3>2, CalmEnters
    <3>3. CASE i # 1
      <4>1. i - 1 \in Entries' /\ i - 1 \in 1 .. (Len(inbox) - 1) /\ (i - 1) + 1 = i
        BY <2>1, <3>3 DEF Entries
      <4>2. inbox'[i - 1] = inbox[i]
        BY <2>1, <4>1
      <4> QED BY <3>1, <4>1, <4>2 DEF Comes
    <3> QED BY <3>2, <3>3
  <2> QED BY <2>4, <2>5 DEF OnItsWay
<1>6. CASE Line!DispatchEdit
  <2>1. PICK e \in SaidType :
          /\ disp = {e} /\ UNCHANGED inbox
          /\ \/ /\ Line!Waiting(e) # {} /\ UNCHANGED turn
                /\ line' = [line EXCEPT !.msgs[Line!FirstOf(Line!Waiting(e))].words = e.words]
             \/ /\ line.current = e.id
                /\ line' = [line EXCEPT !.msgs = <<[id |-> e.id, words |-> e.words, lookUps |-> FALSE]>> \o @]
                /\ turn' = [turn EXCEPT !.cut = TRUE]
             \/ UNCHANGED <<line, turn>>
    BY <1>6, EditTakes
  <2>2. e.id = N /\ m # N
    BY <2>1 DEF CalmWorld
  <2>3. Len(line.msgs) \in Nat
    BY LineLengths
  <2>4. CASE Line!Waiting(e) # {} /\ UNCHANGED turn
             /\ line' = [line EXCEPT !.msgs[Line!FirstOf(Line!Waiting(e))].words = e.words]
    <3>1. /\ Len(line'.msgs) = Len(line.msgs)
          /\ \E k \in Spots : line.msgs[k].id = e.id /\ \A j \in Spots : j # k => line'.msgs[j] = line.msgs[j]
      BY <2>1, <2>4, Reworded
    <3>2. Queued(m, w) => Queued(m, w)'
      BY <2>2, <3>1 DEF Queued, Spots
    <3>3. InHand(m, w) => InHand(m, w)'
      BY <2>4 DEF InHand
    <3> QED BY <1>1, <2>1, <3>2, <3>3 DEF OnItsWay
  <2>5. CASE line.current = e.id /\ turn' = [turn EXCEPT !.cut = TRUE]
             /\ line' = [line EXCEPT !.msgs = <<[id |-> e.id, words |-> e.words, lookUps |-> FALSE]>> \o @]
    <3> DEFINE n == [id |-> e.id, words |-> e.words, lookUps |-> FALSE]
    <3>1. n \in MsgType /\ line' = [line EXCEPT !.msgs = <<n>> \o @]
      BY <2>5 DEF SaidType, MsgType
    <3> HIDE DEF n
    <3>2. Len(line'.msgs) = Len(line.msgs) + 1 /\ \A i \in Spots : line'.msgs[i + 1] = line.msgs[i]
      BY <2>5, <3>1, PutInFront
    <3>3. \A i \in Spots : i + 1 \in Spots'
      BY <2>3, <3>2 DEF Spots
    <3>4. Queued(m, w) => Queued(m, w)'
      BY <3>2, <3>3 DEF Queued
    <3>5. ~InHand(m, w)
      BY <2>2, <2>5 DEF InHand, CalmWorld
    <3> QED BY <1>1, <2>1, <3>4, <3>5 DEF OnItsWay
  <2> QED BY <1>1, <1>2, <2>1, <2>4, <2>5 DEF OnItsWay
<1>7. CASE Line!EndTurn
  <2>1. UNCHANGED inbox /\ ~InHand(m, w)
    BY <1>7, LastStep DEF InHand, Unanswered
  <2>2. CASE line.msgs = <<>>
    <3>1. ~Queued(m, w)
      BY <2>2 DEF Queued, Spots
    <3> QED BY <1>1, <2>1, <3>1 DEF OnItsWay
  <2>3. CASE line.msgs # <<>>
    <3>1. /\ Len(line.msgs) \in Nat \ {0} /\ Len(line'.msgs) = Len(line.msgs) - 1
          /\ \A i \in 1 .. (Len(line.msgs) - 1) : line'.msgs[i] = line.msgs[i + 1]
          /\ turn'.step = "running" /\ turn'.msg = {line.msgs[1]} /\ ~turn'.cut
      BY <1>7, <2>3, CalmGoesOn
    <3>2. ASSUME Queued(m, w) PROVE (Queued(m, w) \/ InHand(m, w))'
      <4>1. PICK i \in Spots : line.msgs[i].id = m /\ line.msgs[i].words = w
        BY <3>2 DEF Queued
      <4>2. CASE i = 1
        BY <3>1, <4>1, <4>2 DEF InHand, Unanswered
      <4>3. CASE i # 1
        <5>1. i - 1 \in Spots' /\ i - 1 \in 1 .. (Len(line.msgs) - 1) /\ (i - 1) + 1 = i
          BY <3>1, <4>3 DEF Spots
        <5>2. line'.msgs[i - 1] = line.msgs[i]
          BY <3>1, <5>1
        <5> QED BY <4>1, <5>1, <5>2 DEF Queued
      <4> QED BY <4>2, <4>3
    <3> QED BY <1>1, <2>1, <3>2 DEF OnItsWay
  <2> QED BY <2>2, <2>3
<1>8. CASE Line!Run \/ Line!Keep \/ Line!Send \/ Line!Note
  <2>1. UNCHANGED <<inbox, line>>
    BY <1>8, TurnSteps2
  <2>2. Queued(m, w) => Queued(m, w)'
    BY <2>1 DEF Queued, Spots
  <2>3. ASSUME InHand(m, w) PROVE InHand(m, w)' \/ Replied(m, w)'
    <3>1. ~turn.cut /\ turn.step \in Unanswered /\ turn.step # "noting" /\ \E t \in turn.msg : t.id = m /\ t.words = w
      BY <2>3 DEF InHand, Unanswered
    <3>2. /\ turn'.msg = turn.msg /\ ~turn'.cut
          /\ turn'.step \in Unanswered \/ \A t \in turn.msg : Replied(t.id, t.words)'
      BY <1>8, <3>1, CalmTurn
    <3> QED BY <3>1, <3>2 DEF InHand
  <2> QED BY <1>1, <2>1, <2>2, <2>3 DEF OnItsWay
<1>9. ASSUME NEW x \in editors, Line!ReadLast(x) \/ Line!Rewind(x) \/ Line!Clear(x) PROVE OnItsWay(m, w)'
  <2>1. UNCHANGED <<inbox, line, turn>>
    BY <1>9, AnswerSteps
  <2> QED BY <1>1, <1>2, <2>1 DEF OnItsWay
<1>10. ASSUME NEW x \in editors, Line!Requeue(x) PROVE OnItsWay(m, w)'
  <2>1. UNCHANGED inbox /\ \E n \in MsgType : Line!Enqueue(n)
    BY <1>10, RequeueStep
  <2>2. Queued(m, w) \/ InHand(m, w) => (Queued(m, w) \/ InHand(m, w))'
    BY <2>1, CalmEnters
  <2> QED BY <1>1, <2>1, <2>2 DEF OnItsWay
<1>11. ~Line!StartTurn /\ ~Line!CancelTurns
  BY CancelStep, FirstStep DEF CalmWorld
<1> QED BY <1>4, <1>5, <1>6, <1>7, <1>8, <1>9, <1>10, <1>11, LineSteps

LEMMA EarlierKept == ASSUME LineTypes, CalmWorld, EarlierAnswered, calm, Line!Next PROVE EarlierAnswered'
<1> SUFFICES ASSUME NEW m \in Msgs, m < N, words'[m] = 0 PROVE OnItsWay(m, 0)' \/ Replied(m, 0)'
  BY DEF EarlierAnswered
<1>1. m # N /\ 0 \in Texts
  BY LineNumbers
<1>2. CASE words[m] = 0
  <2>1. OnItsWay(m, 0) \/ Replied(m, 0)
    BY <1>2 DEF EarlierAnswered
  <2> QED BY <1>1, <2>1, WayKept, RepliesStay
<1>3. CASE words[m] # 0
  <2>1. words' # words
    BY <1>3
  <2>2. PICK k \in Line!Ids : Line!Write(k) \/ Line!Edit(k)
    <3>1. ASSUME NEW x \in editors, Line!ReadLast(x) \/ Line!Rewind(x) \/ Line!Clear(x) \/ Line!Requeue(x) PROVE words' = words
      BY <3>1, AnswerSteps, RequeueStep
    <3> QED BY <2>1, <3>1, LineSteps, DispatchTakes, EditTakes, FirstStep, LastStep, TurnSteps2, CancelStep
  <2>3. ~Line!Edit(k)
    <3>1. SUFFICES ASSUME Line!Edit(k) PROVE FALSE
      OBVIOUS
    <3>2. k = N /\ words' = [words EXCEPT ![k] = words[k] + 1]
      BY <3>1, EditStep
    <3> QED BY <1>1, <1>3, <3>2 DEF LineTypes
  <2>4. /\ k \in Msgs /\ words' = [words EXCEPT ![k] = 0] /\ inbox' = Append(inbox, [id |-> k, words |-> 0, edited |-> FALSE])
    BY <2>2, <2>3, WriteStep
  <2>5. /\ \A h \in Msgs : h # k => words'[h] = words[h]
        /\ Len(inbox') = Len(inbox) + 1 /\ Len(inbox) \in Nat
        /\ inbox'[Len(inbox) + 1] = [id |-> k, words |-> 0, edited |-> FALSE]
    BY <1>1, <2>4, WritesTypes
  <2>6. k = m /\ Len(inbox) + 1 \in Entries'
    BY <1>3, <2>5 DEF Entries
  <2> QED BY <2>5, <2>6 DEF OnItsWay, Comes
<1> QED BY <1>2, <1>3

LEMMA NotTwice ==
  ASSUME LineTypes, Ordered, Known, CalmWorld
  PROVE  /\ words[N] = -1 \/ InBox(N) => /\ ~HadTurn(N) /\ ~InLine(N) /\ last.id # N /\ \A t \in turn.msg : t.id # N
<1>1. N \in Msgs /\ N # 0
  BY LineNumbers
<1>2. words[N] = -1 \/ InBox(N) => ~HadTurn(N) /\ ~InLine(N)
  BY <1>1 DEF Ordered, Apart, Started
<1>3. ~HadTurn(N) => last.id # N /\ \A t \in turn.msg : t.id # N
  BY <1>1, HadAll DEF Known, CalmWorld
<1> QED BY <1>2, <1>3

\* An inbox that got one more: what the parts of LatestKnown say of it.
LEMMA MoreBoxed ==
  ASSUME LineTypes, NEW m \in Msgs, NEW w \in Texts, NEW ed \in BOOLEAN,
         inbox' = Append(inbox, [id |-> m, words |-> w, edited |-> ed])
  PROVE  /\ Entries' = Entries \cup {Len(inbox) + 1} /\ Len(inbox) + 1 = Len(inbox') /\ Len(inbox) + 1 \notin Entries
         /\ Len(inbox) \in Nat /\ \A i \in Entries : inbox'[i] = inbox[i] /\ i \in Nat /\ i < Len(inbox) + 1
         /\ inbox'[Len(inbox) + 1] = [id |-> m, words |-> w, edited |-> ed]
<1> DEFINE e == [id |-> m, words |-> w, edited |-> ed]
<1>1. e \in EventType /\ inbox \in Seq(EventType) /\ inbox' = Append(inbox, e)
  BY DEF EventType, LineTypes
<1> HIDE DEF e
<1>2. /\ Len(inbox') = Len(inbox) + 1 /\ Len(inbox) \in Nat /\ inbox'[Len(inbox) + 1] = e
      /\ \A j \in 1 .. Len(inbox) : inbox'[j] = inbox[j]
  BY <1>1, OneAppended
<1> QED BY <1>2 DEF Entries, e

LEMMA LatestWritten ==
  ASSUME LineTypes, Ordered, Known, CalmWorld, LatestKnown, calm, NEW m \in Line!Ids, Line!Write(m)
  PROVE  LatestKnown'
<1>1. /\ m \in Msgs /\ words[m] = -1 /\ \A k \in Msgs : k < m => words[k] # -1
      /\ words' = [words EXCEPT ![m] = 0] /\ inbox' = Append(inbox, [id |-> m, words |-> 0, edited |-> FALSE])
      /\ UNCHANGED <<disp, line, turn, editors, last, out>>
  BY WriteStep
<1>2. /\ words'[m] = 0 /\ \A k \in Msgs : k # m => words'[k] = words[k]
  BY <1>1, WritesTypes, LineNumbers
<1>3. N \in Msgs /\ N \in Nat /\ \A k \in Msgs : k \in Nat /\ k <= N
  BY LineNumbers DEF Msgs
<1>4. words[N] = -1
  BY <1>1, <1>3 DEF CalmWorld
<1>5. NoEdit /\ ~turn.cut
  BY <1>4 DEF LatestKnown
<1>6. /\ Entries' = Entries \cup {Len(inbox) + 1} /\ Len(inbox) \in Nat
      /\ \A i \in Entries : inbox'[i] = inbox[i] /\ i \in Nat /\ i < Len(inbox) + 1
      /\ inbox'[Len(inbox) + 1] = [id |-> m, words |-> 0, edited |-> FALSE]
  BY <1>1, MoreBoxed, LineNumbers
<1>7. NoEdit' /\ ~turn'.cut
  <2>1. ~inbox'[Len(inbox) + 1].edited
    BY <1>6
  <2>2. NoneEdited'
    BY <1>5, <1>6, <2>1 DEF NoEdit, NoneEdited
  <2> QED BY <1>1, <1>5, <2>2 DEF NoEdit
<1>8. CASE m # N
  <2>1. words'[N] = -1
    BY <1>2, <1>3, <1>4, <1>8
  <2> QED BY <1>7, <2>1 DEF LatestKnown
<1>9. CASE m = N
  <2>1. last'.id # N
    BY <1>1, <1>4, NotTwice
  <2>2. inbox'[Len(inbox) + 1].id = N /\ inbox'[Len(inbox) + 1].words = 0 /\ ~inbox'[Len(inbox) + 1].edited
    BY <1>6, <1>9
  <2>3. \A i \in Entries' : ~(i > Len(inbox) + 1)
    BY <1>6
  <2>4. Boxed'
    BY <1>6, <1>7, <2>1, <2>2, <2>3 DEF Boxed, NoEdit
  <2>5. words'[N] = 0
    BY <1>2, <1>9
  <2> QED BY <1>7, <2>4, <2>5 DEF LatestKnown, Old
<1> QED BY <1>8, <1>9

LEMMA LatestEdited ==
  ASSUME LineTypes, LatestKnown, calm, NEW m \in Line!Ids, Line!Edit(m)
  PROVE  LatestKnown'
<1> DEFINE w == words[m] + 1
<1>1. /\ m = N /\ N \in Msgs /\ words[m] \in Nat /\ w \in Texts
      /\ words' = [words EXCEPT ![m] = w] /\ inbox' = Append(inbox, [id |-> m, words |-> w, edited |-> TRUE])
      /\ UNCHANGED <<disp, line, turn, editors, last, out>>
  BY EditStep
<1>2. words'[N] = words[N] + 1 /\ words[N] \in Nat
  BY <1>1 DEF LineTypes
<1>3. CASE words[N] # 0
  <2>1. words'[N] \notin {-1, 0, 1}
    BY <1>2, <1>3
  <2> QED BY <2>1 DEF LatestKnown
<1>4. CASE words[N] = 0
  <2>1. w = 1
    BY <1>1, <1>4
  <2> HIDE DEF w
  <2>2. Old /\ NoEdit
    BY <1>4 DEF LatestKnown
  <2>3. /\ Entries' = Entries \cup {Len(inbox) + 1} /\ Len(inbox) + 1 = Len(inbox') /\ Len(inbox) \in Nat
        /\ \A i \in Entries : inbox'[i] = inbox[i] /\ i \in Nat /\ i < Len(inbox) + 1
        /\ inbox'[Len(inbox) + 1] = [id |-> m, words |-> w, edited |-> TRUE]
    BY <1>1, MoreBoxed
  <2>4. inbox'[Len(inbox')] = [id |-> N, words |-> 1, edited |-> TRUE] /\ inbox'[Len(inbox')].edited
    BY <1>1, <2>1, <2>3
  <2>5. EditBoxed'
    <3>1. \A i \in Entries' : inbox'[i].edited => i = Len(inbox')
      BY <2>2, <2>3 DEF NoEdit, NoneEdited
    <3>2. inbox' # <<>>
      BY <2>3
    <3> QED BY <1>1, <2>2, <2>4, <3>1, <3>2 DEF EditBoxed, NoEdit
  <2>6. OnlyEdited => OnlyEdited'
    BY <2>3, <2>4 DEF OnlyEdited
  <2>7. Boxed => Boxed'
    <3> SUFFICES ASSUME Boxed PROVE Boxed'
      OBVIOUS
    <3>1. PICK p \in Entries : /\ inbox[p].id = N /\ inbox[p].words = 0 /\ ~inbox[p].edited
                               /\ \A i \in Entries : i > p => inbox[i].edited
      BY DEF Boxed
    <3>2. p \in Entries' /\ inbox'[p] = inbox[p] /\ \A i \in Entries' : i > p => inbox'[i].edited
      BY <2>3, <2>4, <3>1
    <3> QED BY <1>1, <3>1, <3>2 DEF Boxed
  <2>8. (Lined => Lined') /\ (Turning => Turning') /\ (Noted => Noted')
    BY <1>1, <2>6 DEF Lined, Turning, Noted, Spots, Replied
  <2>9. Old'
    BY <1>1, <2>2, <2>7, <2>8 DEF Old
  <2>10. words'[N] = 1
    BY <1>2, <1>4
  <2> QED BY <2>5, <2>9, <2>10 DEF LatestKnown
<1> QED BY <1>3, <1>4

\* The first of the inbox is dispatched, and it is not an edit.
LEMMA BoxedGoesOn ==
  ASSUME LineTypes, Ordered, Known, CalmWorld, calm, Line!Dispatch, Boxed, ~turn.cut, ~inbox[1].edited
  PROVE  Old'
<1> DEFINE e == inbox[1]
           m == [id |-> e.id, words |-> e.words, lookUps |-> FALSE]
<1>1. /\ e \in EventType /\ Len(inbox) \in Nat \ {0} /\ Len(inbox') = Len(inbox) - 1
      /\ \A i \in 1 .. (Len(inbox) - 1) : inbox'[i] = inbox[i + 1]
      /\ UNCHANGED <<disp, editors, last, out>> /\ Line!Enqueue(m)
  BY DispatchTakes
<1>2. m \in MsgType /\ m.id = e.id /\ m.words = e.words
  BY <1>1 DEF EventType, MsgType
<1> HIDE DEF m
<1>3. 1 \in Entries /\ Entries = 1 .. Len(inbox) /\ Entries' = 1 .. (Len(inbox) - 1)
  BY <1>1 DEF Entries
<1>4. PICK p \in Entries : /\ inbox[p].id = N /\ inbox[p].words = 0 /\ ~inbox[p].edited
                           /\ \A i \in Entries : i > p => inbox[i].edited
  BY DEF Boxed
<1>5. InBox(N)
  BY <1>4 DEF InBox
<1>6. ~HadTurn(N) /\ ~InLine(N) /\ last.id # N /\ \A t \in turn.msg : t.id # N
  BY <1>5, NotTwice
<1>7. ~turn'.cut
  BY <1>1, <1>2, CalmEnters
<1>8. CASE p # 1
  <2>1. p - 1 \in Entries' /\ p - 1 \in 1 .. (Len(inbox) - 1) /\ (p - 1) + 1 = p
    BY <1>1, <1>3, <1>8
  <2>2. inbox'[p - 1] = inbox[p]
    BY <1>1, <2>1
  <2>3. \A i \in Entries' : i > p - 1 => inbox'[i].edited
    <3> SUFFICES ASSUME NEW i \in Entries', i > p - 1 PROVE inbox'[i].edited
      OBVIOUS
    <3>1. i + 1 \in Entries /\ i + 1 > p /\ i \in 1 .. (Len(inbox) - 1)
      BY <1>1, <1>3, <2>1
    <3> QED BY <1>1, <1>4, <3>1
  <2>4. Boxed'
    BY <1>1, <1>4, <2>1, <2>2, <2>3 DEF Boxed
  <2> QED BY <1>7, <2>4 DEF Old
<1>9. CASE p = 1
  <2>1. m.id = N /\ m.words = 0
    BY <1>2, <1>4, <1>9
  <2>2. OnlyEdited'
    <3> SUFFICES ASSUME NEW i \in Entries' PROVE inbox'[i].edited
      BY DEF OnlyEdited
    <3>1. i + 1 \in Entries /\ i + 1 > 1 /\ i \in 1 .. (Len(inbox) - 1)
      BY <1>1, <1>3
    <3> QED BY <1>1, <1>4, <1>9, <3>1
  <2>3. editors' = {} /\ last'.id # N
    BY <1>1, <1>6 DEF Boxed
  <2>4. CASE line.on
    <3>1. /\ Len(line'.msgs) = Len(line.msgs) + 1 /\ line'.msgs[Len(line.msgs) + 1] = m
          /\ \A i \in Spots : line'.msgs[i] = line.msgs[i]
          /\ turn' = turn /\ Len(line.msgs) \in Nat
      BY <1>1, <1>2, <2>4, EnterPlaces, LineLengths
    <3>2. Spots' = Spots \cup {Len(line.msgs) + 1} /\ Spots = 1 .. Len(line.msgs) /\ line'.msgs # <<>>
      BY <3>1 DEF Spots
    <3>3. \A i \in Spots : line.msgs[i].id # N
      BY <1>6 DEF InLine
    <3>4. \A i \in Spots' : IF i = Len(line'.msgs) THEN line'.msgs[i].id = N /\ line'.msgs[i].words = 0 ELSE line'.msgs[i].id # N
      BY <2>1, <3>1, <3>2, <3>3
    <3>5. Lined'
      BY <1>6, <2>2, <2>3, <3>1, <3>2, <3>4 DEF Lined
    <3> QED BY <1>7, <3>5 DEF Old
  <2>5. CASE ~line.on
    <3>1. turn'.step = "running" /\ turn'.msg = {m} /\ line'.msgs = <<>>
      <4>1. Starts(m, <<>>)
        BY <1>1, <1>2, <2>5, EnterPlaces
      <4> QED BY <4>1 DEF Starts
    <3>2. Turning'
      BY <2>1, <2>2, <2>3, <3>1 DEF Turning, Unanswered
    <3> QED BY <1>7, <3>2 DEF Old
  <2> QED BY <2>4, <2>5
<1> QED BY <1>8, <1>9

LEMMA LatestDispatched ==
  ASSUME LineTypes, Ordered, Known, CalmWorld, LatestKnown, calm, Line!Dispatch
  PROVE  LatestKnown'
<1> DEFINE e == inbox[1]
           m == [id |-> e.id, words |-> e.words, lookUps |-> FALSE]
<1>1. /\ inbox # <<>> /\ disp = {} /\ e \in EventType /\ Len(inbox) \in Nat \ {0} /\ Len(inbox') = Len(inbox) - 1
      /\ \A i \in 1 .. (Len(inbox) - 1) : inbox'[i] = inbox[i + 1]
      /\ UNCHANGED <<words, last, out>>
  BY DispatchTakes
<1>2. /\ 1 \in Entries /\ Entries = 1 .. Len(inbox) /\ Entries' = 1 .. (Len(inbox) - 1)
      /\ \A i \in Entries' : i + 1 \in Entries /\ inbox'[i] = inbox[i + 1]
  BY <1>1 DEF Entries
<1>3. ~e.edited => UNCHANGED <<disp, editors>> /\ Line!Enqueue(m) /\ m \in MsgType
  BY <1>1, DispatchTakes DEF EventType, MsgType
<1> HIDE DEF m
<1>4. NoneEdited => NoneEdited' /\ ~e.edited
  BY <1>2 DEF NoneEdited
<1>5. ~e.edited => (turn.cut \/ ~turn'.cut)
  BY <1>3, CalmEnters
<1>6. CASE words[N] = -1
  <2>1. NoEdit' /\ ~turn'.cut
    BY <1>3, <1>4, <1>5, <1>6 DEF LatestKnown, NoEdit
  <2> QED BY <1>1, <1>6, <2>1 DEF LatestKnown
<1>7. CASE words[N] = 0
  <2>1. Old /\ NoEdit /\ ~e.edited
    BY <1>4, <1>7 DEF LatestKnown, NoEdit
  <2>2. ~OnlyEdited
    BY <1>2, <2>1 DEF OnlyEdited
  <2>3. Boxed
    BY <2>1, <2>2 DEF Old, Lined, Turning, Noted
  <2>4. Old'
    BY <2>1, <2>3, BoxedGoesOn DEF Old
  <2>5. NoEdit'
    BY <1>3, <1>4, <2>1 DEF NoEdit
  <2> QED BY <1>1, <1>7, <2>4, <2>5 DEF LatestKnown
<1>8. CASE words[N] = 1
  <2>1. CASE Old /\ EditBoxed
    <3>1. /\ inbox[Len(inbox)] = [id |-> N, words |-> 1, edited |-> TRUE] /\ disp = {} /\ editors = {}
          /\ \A i \in Entries : inbox[i].edited => i = Len(inbox)
      BY <2>1 DEF EditBoxed
    <3>2. CASE Len(inbox) = 1
      <4>1. e.id = N /\ e.words = 1 /\ e.edited
        BY <3>1, <3>2
      <4>2. inbox' = <<>> /\ Entries' = {}
        <5>1. inbox' \in Seq(EventType) /\ Len(inbox') = 0
          BY <1>1, <3>2, DispatchTakes
        <5> QED BY <5>1 DEF Entries
      <4>3. UNCHANGED <<line, turn>>
        BY <4>1, DispatchTakes
      <4>4. ~Boxed /\ OnlyEdited'
        BY <1>2, <3>2, <4>1, <4>2 DEF Boxed, OnlyEdited
      <4>5. CASE last.id # N
        <5>1. disp' = {[id |-> N, words |-> 1]} /\ editors' = {}
          BY <3>1, <4>1, <4>5, DispatchTakes
        <5>2. EditTaken'
          BY <4>2, <5>1 DEF EditTaken, NoneEdited
        <5>3. Old'
          BY <1>1, <2>1, <4>3, <4>4, <4>5, <5>1 DEF Old, Lined, Turning, Noted, Spots, Replied
        <5> QED BY <1>1, <1>8, <5>2, <5>3 DEF LatestKnown
      <4>6. CASE last.id = N
        <5>1. disp' = {} /\ editors' = {[step |-> "read", id |-> N, words |-> 1, changed |-> FALSE]}
          BY <3>1, <4>1, <4>6, DispatchTakes DEF CalmWorld
        <5>2. Noted' /\ ~turn'.cut
          BY <1>1, <2>1, <4>3, <4>4, <4>6 DEF Old, Lined, Turning, Noted, Replied
        <5>3. EditRead'
          BY <4>2, <5>1, <5>2 DEF EditRead, NoneEdited
        <5> QED BY <1>1, <1>8, <5>2, <5>3 DEF LatestKnown, Old
      <4> QED BY <4>5, <4>6
    <3>3. CASE Len(inbox) # 1
      <4>1. ~e.edited
        BY <1>2, <3>1, <3>3
      <4>2. ~OnlyEdited
        BY <1>2, <4>1 DEF OnlyEdited
      <4>3. Boxed /\ ~turn.cut
        BY <2>1, <4>2 DEF Old, Lined, Turning, Noted
      <4>4. Old'
        BY <4>1, <4>3, BoxedGoesOn
      <4>5. inbox' # <<>> /\ Len(inbox') \in Entries' /\ Len(inbox') + 1 = Len(inbox)
        BY <1>1, <1>2, <3>3
      <4>6. inbox'[Len(inbox')] = [id |-> N, words |-> 1, edited |-> TRUE]
        BY <1>2, <3>1, <4>5
      <4>7. \A i \in Entries' : inbox'[i].edited => i = Len(inbox')
        BY <1>1, <1>2, <3>1
      <4>8. EditBoxed'
        BY <1>3, <3>1, <4>1, <4>5, <4>6, <4>7 DEF EditBoxed
      <4> QED BY <1>1, <1>8, <4>4, <4>8 DEF LatestKnown
    <3> QED BY <3>2, <3>3
  <2>2. ~EditTaken
    BY <1>1 DEF EditTaken
  <2>3. ~EditRead
    BY <1>2 DEF EditRead, Noted, OnlyEdited, NoneEdited
  <2>4. CASE Again
    <3>1. Again'
      BY <1>3, <1>4, <2>4 DEF Again
    <3> QED BY <1>1, <1>8, <3>1 DEF LatestKnown
  <2>5. CASE New
    <3>1. NoEdit'
      BY <1>3, <1>4, <2>5 DEF New, NoEdit
    <3>2. N \in Msgs /\ 1 \in Texts
      BY <1>8, LineNumbers DEF LineTypes
    <3>3. Line!Next
      BY DEF Line!Next
    <3>4. (OnItsWay(N, 1) \/ Replied(N, 1))'
      BY <1>1, <2>5, <3>2, <3>3, WayKept, RepliesStay DEF New
    <3> QED BY <1>1, <1>8, <3>1, <3>4 DEF LatestKnown, New
  <2> QED BY <1>8, <2>1, <2>2, <2>3, <2>4, <2>5 DEF LatestKnown
<1>9. CASE words[N] \notin {-1, 0, 1}
  BY <1>1, <1>9 DEF LatestKnown
<1> QED BY <1>6, <1>7, <1>8, <1>9

LEMMA LatestReplaced ==
  ASSUME LineTypes, CalmWorld, LatestKnown, calm, Line!DispatchEdit
  PROVE  LatestKnown'
<1>1. PICK e \in SaidType :
        /\ disp = {e} /\ disp' = {} /\ UNCHANGED <<words, inbox, last, out>>
        /\ \/ /\ Line!Waiting(e) # {} /\ UNCHANGED <<turn, editors>>
              /\ line' = [line EXCEPT !.msgs[Line!FirstOf(Line!Waiting(e))].words = e.words]
           \/ /\ Line!Waiting(e) = {} /\ line.on /\ line.current = e.id /\ UNCHANGED editors
              /\ line' = [line EXCEPT !.msgs = <<[id |-> e.id, words |-> e.words, lookUps |-> FALSE]>> \o @]
              /\ turn' = [turn EXCEPT !.cut = TRUE]
           \/ /\ Line!Waiting(e) = {} /\ ~(line.on /\ line.current = e.id) /\ UNCHANGED <<line, turn>>
              /\ editors' = editors \cup {[step |-> "read", id |-> e.id, words |-> e.words, changed |-> FALSE]}
  BY EditTakes
<1>2. CASE words[N] \notin {-1, 0, 1}
  BY <1>1, <1>2 DEF LatestKnown
<1>3. CASE words[N] \in {-1, 0}
  BY <1>1, <1>3 DEF LatestKnown, NoEdit
<1>4. CASE words[N] = 1
  <2>1. Old /\ EditTaken
    BY <1>1, <1>4 DEF LatestKnown, EditBoxed, EditRead, Again, New, NoEdit
  <2>2. e = [id |-> N, words |-> 1] /\ NoneEdited' /\ editors = {}
    BY <1>1, <2>1 DEF EditTaken, NoneEdited, Entries
  <2>3. e.id = N /\ e.words = 1
    BY <2>2
  <2>4. Lined \/ Turning \/ Noted
    BY <1>1, <2>1 DEF Old, Boxed
  <2>5. Len(line.msgs) \in Nat /\ DOMAIN line.msgs = Spots
    <3>1. line.msgs \in Seq(MsgType)
      BY DEF LineTypes, LineType
    <3> QED BY <3>1 DEF Spots
  <2>6. CASE Line!Waiting(e) # {} /\ UNCHANGED <<turn, editors>>
             /\ line' = [line EXCEPT !.msgs[Line!FirstOf(Line!Waiting(e))].words = e.words]
    <3>1. PICK k \in Spots : line.msgs[k].id = e.id /\ line'.msgs[k].words = e.words
      BY <1>1, <2>6, Reworded
    <3>2. Len(line'.msgs) = Len(line.msgs) /\ line'.msgs[k].id = line.msgs[k].id
      BY <1>1, <2>6, <3>1, Reworded
    <3>3. Queued(N, 1)'
      BY <2>3, <3>1, <3>2 DEF Queued, Spots
    <3>4. New'
      BY <1>1, <2>2, <2>6, <3>3 DEF New, NoEdit, OnItsWay
    <3> QED BY <1>1, <1>4, <3>4 DEF LatestKnown
  <2>7. CASE turn' = [turn EXCEPT !.cut = TRUE] /\ UNCHANGED editors
             /\ line' = [line EXCEPT !.msgs = <<[id |-> e.id, words |-> e.words, lookUps |-> FALSE]>> \o @]
    <3> DEFINE m == [id |-> e.id, words |-> e.words, lookUps |-> FALSE]
    <3>1. m \in MsgType /\ m.id = N /\ m.words = 1 /\ line' = [line EXCEPT !.msgs = <<m>> \o @]
      BY <2>3, <2>7 DEF MsgType, SaidType
    <3> HIDE DEF m
    <3>2. Len(line'.msgs) = Len(line.msgs) + 1 /\ line'.msgs[1] = m
      BY <2>7, <3>1, PutInFront
    <3>3. 1 \in Spots'
      BY <2>5, <3>2 DEF Spots
    <3>4. New'
      BY <1>1, <2>2, <2>7, <3>1, <3>2, <3>3 DEF New, NoEdit, OnItsWay, Queued
    <3> QED BY <1>1, <1>4, <3>4 DEF LatestKnown
  <2>8. CASE Line!Waiting(e) = {} /\ ~(line.on /\ line.current = e.id) /\ UNCHANGED <<line, turn>>
             /\ editors' = editors \cup {[step |-> "read", id |-> e.id, words |-> e.words, changed |-> FALSE]}
    <3>1. ~Lined
      <4>1. SUFFICES ASSUME Lined PROVE FALSE
        OBVIOUS
      <4>2. Len(line.msgs) \in Spots
        <5>1. line.msgs # <<>> /\ line.msgs \in Seq(MsgType)
          BY <4>1 DEF Lined, LineTypes, LineType
        <5> QED BY <5>1 DEF Spots
      <4>3. line.msgs[Len(line.msgs)].id = N
        BY <4>1, <4>2 DEF Lined
      <4> QED BY <2>3, <2>5, <2>8, <4>2, <4>3 DEF Line!Waiting
    <3>2. ~Turning
      <4>1. SUFFICES ASSUME Turning PROVE FALSE
        OBVIOUS
      <4>2. line.on /\ turn.msg # {}
        BY <4>1, LineNumbers DEF Turning, Unanswered, LineTypes
      <4>3. line.current = N
        BY <4>1, <4>2 DEF Turning, CalmWorld
      <4> QED BY <2>3, <2>8, <4>2, <4>3
    <3>3. Noted' /\ ~turn'.cut
      BY <1>1, <2>1, <2>4, <2>8, <3>1, <3>2 DEF Noted, Old, OnlyEdited, Entries, Replied
    <3>4. editors' = {[step |-> "read", id |-> N, words |-> 1, changed |-> FALSE]}
      BY <2>2, <2>3, <2>8
    <3>5. EditRead'
      BY <1>1, <2>2, <3>3, <3>4 DEF EditRead
    <3> QED BY <1>1, <1>4, <3>3, <3>5 DEF LatestKnown, Old
  <2> QED BY <1>1, <2>6, <2>7, <2>8
<1> QED BY <1>2, <1>3, <1>4

LEMMA LatestEnded ==
  ASSUME LineTypes, CalmWorld, LatestKnown, calm, Line!EndTurn
  PROVE  LatestKnown'
<1>1. turn.step = "ending" /\ UNCHANGED <<words, inbox, disp, editors, last, out>>
  BY LastStep
<1>2. Entries' = Entries /\ (NoneEdited <=> NoneEdited') /\ (OnlyEdited <=> OnlyEdited') /\ (NoEdit <=> NoEdit')
      /\ (EditBoxed <=> EditBoxed') /\ (EditTaken <=> EditTaken') /\ (Again <=> Again') /\ (Boxed <=> Boxed')
      /\ (Replied(N, 0) <=> Replied(N, 0)')
  BY <1>1 DEF Entries, NoneEdited, OnlyEdited, NoEdit, EditBoxed, EditTaken, Again, Boxed, Replied
<1>3. ~turn'.cut
  BY CalmGoesOn, LineNumbers
<1>4. ~Turning
  BY <1>1 DEF Turning, Unanswered
<1>5. Noted => Noted'
  <2>1. SUFFICES ASSUME Noted PROVE Noted'
    OBVIOUS
  <2>2. line' = Line!NoLine /\ turn' = Line!NoTurn
    BY <2>1, CalmGoesOn DEF Noted
  <2> QED BY <1>1, <1>2, <2>1, <2>2, LineNumbers DEF Noted
<1>6. Lined => Lined' \/ Turning'
  <2>1. SUFFICES ASSUME Lined PROVE Lined' \/ Turning'
    OBVIOUS
  <2>2. /\ Len(line.msgs) \in Nat \ {0} /\ Len(line'.msgs) = Len(line.msgs) - 1
        /\ \A i \in 1 .. (Len(line.msgs) - 1) : line'.msgs[i] = line.msgs[i + 1]
        /\ turn'.step = "running" /\ turn'.msg = {line.msgs[1]}
    BY <2>1, CalmGoesOn DEF Lined
  <2>3. 1 \in Spots /\ Spots = 1 .. Len(line.msgs) /\ Spots' = 1 .. (Len(line.msgs) - 1)
    BY <2>2 DEF Spots
  <2>4. line'.msgs \in Seq(MsgType)
    <3>1. LineTypes'
      BY LastStep
    <3> QED BY <3>1 DEF LineTypes, LineType
  <2>5. CASE Len(line.msgs) = 1
    <3>1. line.msgs[1].id = N /\ line.msgs[1].words = 0
      BY <2>1, <2>3, <2>5 DEF Lined
    <3>2. line'.msgs = <<>>
      BY <2>2, <2>4, <2>5
    <3> QED BY <1>1, <1>2, <2>1, <2>2, <3>1, <3>2 DEF Lined, Turning, Unanswered
  <2>6. CASE Len(line.msgs) # 1
    <3>1. line.msgs[1].id # N
      BY <2>1, <2>3, <2>6 DEF Lined
    <3>2. \A i \in Spots' : i + 1 \in Spots /\ line'.msgs[i] = line.msgs[i + 1] /\ ((i = Len(line'.msgs)) <=> (i + 1 = Len(line.msgs)))
      BY <2>2, <2>3
    <3>3. \A i \in Spots' : IF i = Len(line'.msgs) THEN line'.msgs[i].id = N /\ line'.msgs[i].words = 0 ELSE line'.msgs[i].id # N
      BY <2>1, <3>2 DEF Lined
    <3>4. line'.msgs # <<>>
      <4>1. Len(line'.msgs) # 0
        BY <2>2, <2>6
      <4> QED BY <4>1
    <3> QED BY <1>1, <1>2, <2>1, <2>2, <3>1, <3>3, <3>4 DEF Lined
  <2> QED BY <2>5, <2>6
<1>7. Old => Old'
  BY <1>2, <1>3, <1>4, <1>5, <1>6 DEF Old
<1>8. EditRead => EditRead'
  BY <1>1, <1>2, <1>5 DEF EditRead
<1>9. words[N] = 1 /\ New => New'
  <2>1. Line!Next
    BY DEF Line!Next, Line!Turn
  <2>2. words[N] = 1 => N \in Msgs /\ 1 \in Texts
    BY LineNumbers DEF LineTypes
  <2> QED BY <1>2, <2>1, <2>2, WayKept, RepliesStay DEF New, NoEdit
<1> QED BY <1>1, <1>2, <1>3, <1>7, <1>8, <1>9 DEF LatestKnown

LEMMA LatestTurned ==
  ASSUME LineTypes, Ordered, Known, CalmWorld, LatestKnown, calm, Line!Run \/ Line!Keep \/ Line!Send \/ Line!Note
  PROVE  LatestKnown'
<1>1. /\ turn'.msg = turn.msg /\ turn'.cut = turn.cut /\ UNCHANGED <<words, inbox, disp, line, editors>>
      /\ turn.step \in {"running", "keeping", "sending", "noting"}
  BY TurnSteps2
<1>2. Entries' = Entries /\ Spots' = Spots /\ (NoneEdited <=> NoneEdited') /\ (OnlyEdited <=> OnlyEdited') /\ (NoEdit <=> NoEdit')
      /\ (EditBoxed <=> EditBoxed') /\ (EditTaken <=> EditTaken') /\ (Again <=> Again')
  BY <1>1 DEF Entries, Spots, NoneEdited, OnlyEdited, NoEdit, EditBoxed, EditTaken, Again
<1>3. ~Noted /\ ~EditRead
  BY <1>1 DEF Noted, EditRead
<1>4. Line!Next
  BY DEF Line!Next, Line!Turn
<1>5. last' = last \/ \E t \in turn.msg : last'.id = t.id
  BY TurnTypes
<1>6. Old => Old'
  <2>1. SUFFICES ASSUME Old PROVE Old'
    OBVIOUS
  <2>2. /\ ~turn.cut
        /\ \/ turn.step \in Unanswered /\ turn'.step \in Unanswered /\ last' = last
           \/ /\ turn.step \in Unanswered /\ turn'.step = "noting" /\ last' = last
              /\ \A t \in turn.msg : Replied(t.id, t.words)'
           \/ turn.step = "noting" /\ turn'.step = "ending" /\ \A t \in turn.msg : last'.id = t.id /\ last'.words = t.words
    BY <2>1, CalmTurn DEF Old
  <2>3. Boxed => Boxed'
    <3>1. SUFFICES ASSUME Boxed PROVE Boxed'
      OBVIOUS
    <3>2. InBox(N)
      BY <3>1 DEF Boxed, InBox
    <3>3. last'.id # N
      BY <1>5, <3>2, NotTwice
    <3> QED BY <1>1, <1>2, <3>1, <3>3 DEF Boxed
  <2>4. Lined => Lined'
    <3>1. SUFFICES ASSUME Lined PROVE Lined'
      OBVIOUS
    <3>2. last'.id # N
      BY <1>5, <3>1 DEF Lined
    <3> QED BY <1>1, <1>2, <3>1, <3>2 DEF Lined
  <2>5. Turning => Turning' \/ Noted'
    <3>1. SUFFICES ASSUME Turning PROVE Turning' \/ Noted'
      OBVIOUS
    <3>2. turn.msg # {}
      BY TurnSteps2
    <3>3. CASE turn.step = "noting"
      <4>1. Replied(N, 0)'
        BY <1>4, <3>1, <3>3, RepliesStay DEF Turning
      <4>2. turn'.step = "ending" /\ last'.id = N /\ last'.words = 0
        BY <2>2, <3>1, <3>2, <3>3 DEF Turning, Unanswered
      <4> QED BY <1>1, <1>2, <3>1, <4>1, <4>2 DEF Turning, Noted
    <3>4. CASE turn.step # "noting"
      <4>1. turn'.step \in Unanswered \cup {"noting"} /\ last' = last /\ (turn'.step = "noting" => Replied(N, 0)')
        BY <2>2, <3>1, <3>2, <3>4 DEF Turning, Unanswered
      <4> QED BY <1>1, <1>2, <3>1, <4>1 DEF Turning
    <3> QED BY <3>3, <3>4
  <2> QED BY <1>1, <1>3, <2>1, <2>2, <2>3, <2>4, <2>5 DEF Old
<1>7. words[N] = 1 /\ New => New'
  <2>1. words[N] = 1 => N \in Msgs /\ 1 \in Texts
    BY LineNumbers DEF LineTypes
  <2> QED BY <1>2, <1>4, <2>1, WayKept, RepliesStay DEF New, NoEdit
<1> QED BY <1>1, <1>2, <1>3, <1>6, <1>7 DEF LatestKnown

LEMMA LatestRead ==
  ASSUME LineTypes, CalmWorld, LatestKnown, calm, NEW x \in editors, Line!ReadLast(x) \/ Line!Rewind(x) \/ Line!Clear(x)
  PROVE  LatestKnown'
<1>1. /\ UNCHANGED <<words, inbox, disp, line, turn, out>>
      /\ \/ editors' = editors \ {x} /\ x.step = "read" /\ (last.id # x.id \/ last.words = x.words)
         \/ \E y \in EditorType : editors' = (editors \ {x}) \cup {y} /\ y.id = x.id /\ y.words = x.words /\ y.step # "read"
  BY AnswerSteps DEF CalmWorld
<1>2. CASE words[N] # 1
  BY <1>1, <1>2 DEF LatestKnown, NoEdit
<1>3. CASE words[N] = 1
  <2>1. (EditRead /\ last.id = N /\ last.words = 0) \/ Again
    BY <1>3 DEF LatestKnown, EditBoxed, EditTaken, EditRead, New, NoEdit, Noted
  <2>2. NoneEdited /\ disp = {} /\ editors = {x} /\ x.id = N /\ x.words = 1
        /\ (x.step = "read" => last.id = N /\ last.words = 0)
    <3>1. CASE EditRead /\ last.id = N /\ last.words = 0
      <4>1. NoneEdited /\ disp = {} /\ editors = {[step |-> "read", id |-> N, words |-> 1, changed |-> FALSE]}
        BY <3>1 DEF EditRead
      <4>2. x = [step |-> "read", id |-> N, words |-> 1, changed |-> FALSE]
        BY <4>1
      <4>3. editors = {x} /\ x.id = N /\ x.words = 1
        BY <4>1, <4>2
      <4> QED BY <3>1, <4>1, <4>3
    <3>2. CASE Again
      <4>1. PICK z \in editors : editors = {z} /\ z.step # "read" /\ z.id = N /\ z.words = 1
        BY <3>2 DEF Again
      <4>2. x = z
        BY <4>1
      <4> QED BY <3>2, <4>1, <4>2 DEF Again
    <3> QED BY <2>1, <3>1, <3>2
  <2>3. PICK y \in EditorType : editors' = (editors \ {x}) \cup {y} /\ y.id = x.id /\ y.words = x.words /\ y.step # "read"
    BY <1>1, <2>2
  <2>4. NoneEdited' /\ disp' = {} /\ editors' = {y}
    BY <1>1, <2>2, <2>3 DEF NoneEdited, Entries
  <2>5. Again'
    BY <2>2, <2>3, <2>4 DEF Again
  <2> QED BY <1>1, <1>3, <2>5 DEF LatestKnown
<1> QED BY <1>2, <1>3

LEMMA LatestRequeued ==
  ASSUME LineTypes, CalmWorld, LatestKnown, calm, NEW x \in editors, Line!Requeue(x)
  PROVE  LatestKnown'
<1>1. x.step = "enqueue" /\ editors' = editors \ {x} /\ UNCHANGED <<words, inbox, disp>>
  BY RequeueStep
<1>2. PICK m \in MsgType : m.id = x.id /\ m.words = x.words /\ Line!Enqueue(m)
  BY RequeueStep
<1>3. CASE words[N] # 1
  BY <1>1, <1>3 DEF LatestKnown, NoEdit
<1>4. CASE words[N] = 1
  <2>1. Again
    BY <1>1, <1>4 DEF LatestKnown, EditBoxed, EditTaken, EditRead, New, NoEdit
  <2>2. NoneEdited /\ disp = {} /\ editors = {x} /\ x.id = N /\ x.words = 1
    BY <2>1 DEF Again
  <2>3. NoEdit'
    BY <1>1, <2>2 DEF NoEdit, NoneEdited, Entries
  <2>4. (Queued(m.id, m.words) \/ InHand(m.id, m.words))'
    BY <1>2, CalmEnters
  <2>5. m.id = N /\ m.words = 1
    BY <1>2, <2>2
  <2>6. (Queued(N, 1) \/ InHand(N, 1))'
    BY <2>4, <2>5 DEF Queued, InHand
  <2> QED BY <1>1, <1>4, <2>3, <2>6 DEF LatestKnown, New, OnItsWay
<1> QED BY <1>3, <1>4

LEMMA CalmKept ==
  ASSUME LineTypes, Ordered, Known, CalmInv, Line!Next
  PROVE  CalmInv'
<1>1. calm' = calm
  BY DEF Line!Next, Line!Write, Line!Edit, Line!Dispatch, Line!DispatchEdit, Line!Turn, Line!StartTurn, Line!Run,
         Line!Keep, Line!Send, Line!Note, Line!EndTurn, Line!AnswerEdit, Line!ReadLast, Line!Rewind, Line!Clear,
         Line!Requeue, Line!CancelTurns
<1>2. SUFFICES ASSUME calm PROVE CalmWorld' /\ EarlierAnswered' /\ LatestKnown'
  BY <1>1 DEF CalmInv
<1>3. CalmWorld /\ EarlierAnswered /\ LatestKnown
  BY <1>2 DEF CalmInv
<1>4. CalmWorld' /\ EarlierAnswered'
  BY <1>2, <1>3, CalmWorldKept, EarlierKept
<1>5. ~Line!StartTurn /\ ~Line!CancelTurns
  BY <1>2, <1>3, FirstStep, CancelStep DEF CalmWorld
<1>6. LatestKnown'
  <2>1. CASE \E m \in Line!Ids : Line!Write(m) \/ Line!Edit(m)
    BY <1>2, <1>3, <2>1, LatestWritten, LatestEdited
  <2>2. CASE Line!Dispatch
    BY <1>2, <1>3, <2>2, LatestDispatched
  <2>3. CASE Line!DispatchEdit
    BY <1>2, <1>3, <2>3, LatestReplaced
  <2>4. CASE Line!EndTurn
    BY <1>2, <1>3, <2>4, LatestEnded
  <2>5. CASE Line!Run \/ Line!Keep \/ Line!Send \/ Line!Note
    BY <1>2, <1>3, <2>5, LatestTurned
  <2>6. CASE \E x \in editors : Line!ReadLast(x) \/ Line!Rewind(x) \/ Line!Clear(x) \/ Line!Requeue(x)
    BY <1>2, <1>3, <2>6, LatestRead, LatestRequeued
  <2> QED BY <1>5, <2>1, <2>2, <2>3, <2>4, <2>5, <2>6, LineSteps
<1> QED BY <1>4, <1>6

(***************************************************************************)
(* Line: the invariant, and what it means.                                 *)
(***************************************************************************)
LineIInv == LineTypes /\ Ordered /\ Known /\ CalmInv

LEMMA LineBegins == ASSUME Line!Init PROVE LineIInv
<1>1. LineTypes
  BY LineTypesInit
<1>2. /\ words = [m \in Msgs |-> -1] /\ inbox = <<>> /\ disp = {} /\ editors = {} /\ ~stopped /\ begun = <<>>
      /\ line.msgs = <<>> /\ line.current = 0 /\ last.id = 0
      /\ turn.step = "none" /\ turn.msg = {} /\ ~turn.cut /\ ~turn.fails
  BY LineNumbers DEF Line!Init
<1>3. Turns = {} /\ Spots = {} /\ Entries = {} /\ turn.step # "taken"
  BY <1>2 DEF Turns, Spots, Entries
<1>4. Ordered
  BY <1>2, <1>3 DEF Ordered, TurnsInOrder, TakenInOrder, LineInOrder, BoxInOrder, Apart, Taken, Started, HadTurn, InLine, InBox
<1>5. Known
  BY <1>2 DEF Known
<1>6. CalmInv
  BY <1>2, <1>3, LineNumbers DEF CalmInv, CalmWorld, EarlierAnswered, LatestKnown, NoEdit, NoneEdited
<1> QED BY <1>1, <1>4, <1>5, <1>6 DEF LineIInv

LEMMA LineGoesOn == ASSUME LineIInv, Line!Next PROVE LineIInv'
BY LineTypesKept, OrderKept, KnownKept, CalmKept DEF LineIInv

LEMMA LineStands == ASSUME LineIInv, UNCHANGED lineVars PROVE LineIInv'
<1>0. UNCHANGED <<words, inbox, disp, line, turn, editors, history, last, stopped, calm, begun, out>>
  BY DEF lineVars
<1>1. LineTypes' /\ Ordered' /\ Known'
  <2>1. LineTypes'
    BY <1>0 DEF LineIInv, LineTypes
  <2>2. Ordered'
    BY <1>0, OrderSame DEF LineIInv
  <2>3. Known'
    BY <1>0 DEF LineIInv, Known, Had, Turns
  <2> QED BY <2>1, <2>2, <2>3
<1>2. CalmInv'
  <2>1. Entries' = Entries /\ Spots' = Spots
    BY <1>0 DEF Entries, Spots
  <2>2. CalmWorld => CalmWorld'
    BY <1>0, <2>1 DEF CalmWorld
  <2>3. \A m, w : (OnItsWay(m, w) <=> OnItsWay(m, w)') /\ (Replied(m, w) <=> Replied(m, w)')
    BY <1>0, <2>1 DEF OnItsWay, Comes, Queued, InHand, Replied
  <2>4. EarlierAnswered => EarlierAnswered'
    BY <1>0, <2>3 DEF EarlierAnswered
  <2>5. /\ (NoneEdited <=> NoneEdited') /\ (OnlyEdited <=> OnlyEdited') /\ (EditBoxed <=> EditBoxed')
        /\ (Boxed <=> Boxed') /\ (Lined <=> Lined')
    BY <1>0, <2>1 DEF NoneEdited, OnlyEdited, EditBoxed, Boxed, Lined
  <2>6. (NoEdit <=> NoEdit') /\ (EditTaken <=> EditTaken') /\ (Again <=> Again')
    BY <1>0, <2>5 DEF NoEdit, EditTaken, Again
  <2>7. (Turning <=> Turning') /\ (Noted <=> Noted')
    BY <1>0, <2>1, <2>3, <2>5 DEF Turning, Noted
  <2>8. (EditRead <=> EditRead') /\ (Old <=> Old')
    BY <1>0, <2>5, <2>7 DEF EditRead, Old
  <2>9. New <=> New'
    BY <2>3, <2>6 DEF New
  <2>10. LatestKnown => LatestKnown'
    BY <1>0, <2>5, <2>6, <2>8, <2>9 DEF LatestKnown
  <2> QED BY <1>0, <2>2, <2>4, <2>10 DEF LineIInv, CalmInv
<1> QED BY <1>1, <1>2 DEF LineIInv

\* A message's first turn comes after the first turns of those before it.
LEMMA LineKeepsOrder == ASSUME LineIInv PROVE Line!InOrder
<1> SUFFICES ASSUME NEW m \in Msgs, NEW k \in Msgs, m < k, NEW i \in Line!First(m), NEW j \in Line!First(k) PROVE i < j
  BY LineNumbers DEF Line!InOrder
<1>1. Len(begun) \in Nat /\ DOMAIN begun = Turns
  BY DEF LineIInv, LineTypes, Turns
<1>2. i \in Turns /\ begun[i].id = m /\ (\A h \in 1 .. (i - 1) : begun[h].id # m) /\ j \in Turns /\ begun[j].id = k
  BY <1>1 DEF Line!First
<1>3. ~Lost(m)
  BY <1>2 DEF Lost, Started, HadTurn
<1>4. PICK h \in 1 .. (j - 1) : begun[h].id = m
  BY <1>2, <1>3 DEF LineIInv, Ordered, TurnsInOrder
<1> QED BY <1>1, <1>2, <1>4 DEF Turns

\* In a calm world that has gone quiet, nothing is on its way: what was written was answered.
LEMMA LatestIsAnswered == ASSUME LineIInv PROVE Line!LatestAnswered
<1> SUFFICES ASSUME calm, Line!Quiet, NEW m \in Msgs, Line!Latest(m), words[m] <= 1 PROVE Replied(m, words[m])
  BY LineNumbers DEF Line!LatestAnswered, Line!AsItReads, Replied
<1>1. CalmWorld /\ EarlierAnswered /\ LatestKnown /\ LineTypes
  BY DEF LineIInv, CalmInv
<1>2. inbox = <<>> /\ disp = {} /\ editors = {} /\ line = Line!NoLine /\ turn = Line!NoTurn
  BY <1>1 DEF Line!Quiet, LineTypes
<1>3. Entries = {} /\ Spots = {} /\ line.msgs = <<>> /\ turn.step = "none"
  BY <1>2, LineNumbers DEF Entries, Spots
<1>4. \A k, w : ~OnItsWay(k, w)
  BY <1>3 DEF OnItsWay, Comes, Queued, InHand, Unanswered
<1>5. words[m] \in {0, 1}
  <2>1. words[m] \in Texts /\ words[m] # -1
    <3>1. words[m] \in Texts \cup {-1} /\ words[m] # -1
      BY <1>1 DEF Line!Latest, LineTypes
    <3> QED BY <3>1
  <2> QED BY <2>1, LineNumbers DEF Texts
<1>6. CASE m < N
  <2>1. words[m] = 0
    BY <1>1, <1>5, <1>6 DEF CalmWorld
  <2> QED BY <1>1, <1>4, <1>6, <2>1 DEF EarlierAnswered
<1>7. CASE m = N /\ words[m] = 0
  BY <1>1, <1>3, <1>7 DEF LatestKnown, Old, Boxed, Lined, Turning, Noted, Unanswered
<1>8. CASE m = N /\ words[m] = 1
  BY <1>1, <1>2, <1>4, <1>8 DEF LatestKnown, EditBoxed, EditTaken, EditRead, Again, New
<1> QED BY <1>5, <1>6, <1>7, <1>8, LineNumbers DEF Msgs

LEMMA LineEstablished == ASSUME LineIInv PROVE Line!LineInv
BY LineTypesMean, LineKeepsOrder, LatestIsAnswered DEF LineIInv, Line!LineInv

(* A message first gets its turn after all that were sent before it, whatever  *)
(* is edited and whenever the server stops (enqueueInbound, dispatchEdit and   *)
(* answerEdit: a line, an inbox and the turns that began); and when nothing    *)
(* fails, turns begin at once and only the last message is edited, once at     *)
(* most, that message was answered as it reads when all is quiet.              *)
THEOREM LineHolds == FairSpec => []LineInv
<1>1. Init => LineIInv
  BY LineBegins DEF Init
<1>2. LineIInv /\ [Next]_vars => LineIInv'
  <2> SUFFICES ASSUME LineIInv, [Next]_vars PROVE LineIInv'
    OBVIOUS
  <2>1. CASE Line!Next
    BY <2>1, LineGoesOn
  <2>2. CASE UNCHANGED lineVars
    BY <2>2, LineStands
  <2> QED BY <2>1, <2>2 DEF Next, vars
<1>3. LineIInv => LineInv
  BY LineEstablished DEF LineInv
<1> QED BY <1>1, <1>2, <1>3, PTL DEF FairSpec

(***************************************************************************)
(* Line: words are in one place, until they are answered.                  *)
(***************************************************************************)
Before == {"taken", "running", "keeping", "sending"}
HandedOn(m, w) == \E i \in Entries : inbox[i].id = m /\ inbox[i].words = w
LookedUp(m, w) == \E e \in disp : e.id = m /\ e.words = w
Spoken(m, w) == turn.step \in Before /\ \E t \in turn.msg : t.id = m /\ t.words = w
Edited(m, w) == \E x \in editors : x.id = m /\ x.words = w
At(k, m, w) ==
  \/ k = "inbox" /\ HandedOn(m, w)
  \/ k = "disp" /\ LookedUp(m, w)
  \/ k = "line" /\ Queued(m, w)
  \/ k = "turn" /\ Spoken(m, w)
  \/ k = "editors" /\ Edited(m, w)
  \/ k = "out" /\ Replied(m, w)

\* Not in two places, nor twice in one, and nowhere before they are written.
OnePlace == \A m, w, k, l : At(k, m, w) /\ At(l, m, w) => k = l
OneCopy ==
  /\ \A i, j \in Entries : inbox[i].id = inbox[j].id /\ inbox[i].words = inbox[j].words => i = j
  /\ \A i, j \in Spots : line.msgs[i].id = line.msgs[j].id /\ line.msgs[i].words = line.msgs[j].words => i = j
  /\ \A x, y \in editors : x.id = y.id /\ x.words = y.words => x = y
Written == \A k, m, w : At(k, m, w) => m \in Msgs /\ w \in Texts /\ w <= words[m]
OnceInv == OnePlace /\ OneCopy /\ Written

\* The words (m, w) leave one place for another; or words are left behind, and none come.
Moves(from, to, m, w) ==
  \A k, n, v : At(k, n, v)' => (At(k, n, v) /\ ~(k = from /\ n = m /\ v = w)) \/ (k = to /\ n = m /\ v = w)
Leaves == \A k, n, v : At(k, n, v)' => At(k, n, v)

LEMMA MovedOnce ==
  ASSUME OnePlace, Written, UNCHANGED words, NEW from, NEW to, NEW m, NEW w, At(from, m, w), Moves(from, to, m, w)
  PROVE  OnePlace' /\ Written'
<1>1. ASSUME NEW n, NEW v, NEW k, NEW l, At(k, n, v)', At(l, n, v)' PROVE k = l
  <2>1. CASE n = m /\ v = w
    <3>1. \A p : At(p, m, w)' => p = to
      BY DEF Moves, OnePlace
    <3> QED BY <1>1, <2>1, <3>1
  <2>2. CASE ~(n = m /\ v = w)
    BY <1>1, <2>2 DEF Moves, OnePlace
  <2> QED BY <2>1, <2>2
<1>2. ASSUME NEW k, NEW n, NEW v, At(k, n, v)' PROVE n \in Msgs /\ v \in Texts /\ v <= words'[n]
  BY <1>2 DEF Moves, Written
<1> QED BY <1>1, <1>2 DEF OnePlace, Written

LEMMA LeftOnce == ASSUME OnePlace, Written, UNCHANGED words, Leaves PROVE OnePlace' /\ Written'
BY DEF OnePlace, Written, Leaves

LEMMA AtIs ==
  \A n, v : /\ (At("inbox", n, v) <=> HandedOn(n, v)) /\ (At("disp", n, v) <=> LookedUp(n, v))
            /\ (At("line", n, v) <=> Queued(n, v)) /\ (At("turn", n, v) <=> Spoken(n, v))
            /\ (At("editors", n, v) <=> Edited(n, v)) /\ (At("out", n, v) <=> Replied(n, v))
BY DEF At

\* Only what the step changes needs a look.
LEMMA PlacesSame ==
  /\ UNCHANGED inbox => (\A n, v : HandedOn(n, v)' <=> HandedOn(n, v))
  /\ UNCHANGED disp => (\A n, v : LookedUp(n, v)' <=> LookedUp(n, v))
  /\ UNCHANGED line.msgs => (\A n, v : Queued(n, v)' <=> Queued(n, v))
  /\ UNCHANGED turn.msg /\ (turn'.step \in Before => turn.step \in Before) => (\A n, v : Spoken(n, v)' => Spoken(n, v))
  /\ UNCHANGED editors => (\A n, v : Edited(n, v)' <=> Edited(n, v))
  /\ UNCHANGED out => (\A n, v : Replied(n, v)' <=> Replied(n, v))
<1>1. UNCHANGED inbox => (\A n, v : HandedOn(n, v)' <=> HandedOn(n, v))
  BY DEF HandedOn, Entries
<1>2. UNCHANGED disp => (\A n, v : LookedUp(n, v)' <=> LookedUp(n, v))
  BY DEF LookedUp
<1>3. UNCHANGED line.msgs => (\A n, v : Queued(n, v)' <=> Queued(n, v))
  BY DEF Queued, Spots
<1>4. UNCHANGED turn.msg /\ (turn'.step \in Before => turn.step \in Before) => (\A n, v : Spoken(n, v)' => Spoken(n, v))
  BY DEF Spoken
<1>5. UNCHANGED editors => (\A n, v : Edited(n, v)' <=> Edited(n, v))
  BY DEF Edited
<1>6. UNCHANGED out => (\A n, v : Replied(n, v)' <=> Replied(n, v))
  BY DEF Replied
<1> QED BY <1>1, <1>2, <1>3, <1>4, <1>5, <1>6

\* A step by its effect on each place.
Effect(from, to, m, w) ==
  /\ \A n, v : HandedOn(n, v)' => (HandedOn(n, v) /\ ~(from = "inbox" /\ n = m /\ v = w)) \/ (to = "inbox" /\ n = m /\ v = w)
  /\ \A n, v : LookedUp(n, v)' => (LookedUp(n, v) /\ ~(from = "disp" /\ n = m /\ v = w)) \/ (to = "disp" /\ n = m /\ v = w)
  /\ \A n, v : Queued(n, v)' => (Queued(n, v) /\ ~(from = "line" /\ n = m /\ v = w)) \/ (to = "line" /\ n = m /\ v = w)
  /\ \A n, v : Spoken(n, v)' => (Spoken(n, v) /\ ~(from = "turn" /\ n = m /\ v = w)) \/ (to = "turn" /\ n = m /\ v = w)
  /\ \A n, v : Edited(n, v)' => (Edited(n, v) /\ ~(from = "editors" /\ n = m /\ v = w)) \/ (to = "editors" /\ n = m /\ v = w)
  /\ \A n, v : Replied(n, v)' => (Replied(n, v) /\ ~(from = "out" /\ n = m /\ v = w)) \/ (to = "out" /\ n = m /\ v = w)

LEMMA EffectMoves == ASSUME NEW from, NEW to, NEW m, NEW w, Effect(from, to, m, w) PROVE Moves(from, to, m, w)
BY DEF Effect, Moves, At

LEMMA EffectLeaves == ASSUME Effect("nowhere", "nowhere", 0, 0) PROVE Leaves
BY DEF Effect, Leaves, At

\* The person writes words that were nowhere.
LEMMA OnceWritten ==
  ASSUME LineTypes, OnceInv, NEW m \in Msgs, NEW w \in Texts, NEW ed \in BOOLEAN, words[m] < w,
         words' = [words EXCEPT ![m] = w], inbox' = Append(inbox, [id |-> m, words |-> w, edited |-> ed]),
         UNCHANGED <<disp, line, turn, editors, out>>
  PROVE  OnceInv'
<1>1. /\ words'[m] = w /\ \A k \in Msgs : k # m => words'[k] = words[k]
      /\ Len(inbox') = Len(inbox) + 1 /\ Len(inbox) \in Nat /\ \A j \in Entries : inbox'[j] = inbox[j]
      /\ inbox'[Len(inbox) + 1] = [id |-> m, words |-> w, edited |-> ed]
  BY WritesTypes
<1>2. Entries' = Entries \cup {Len(inbox) + 1}
  BY <1>1 DEF Entries
<1>3. \A n, v : HandedOn(n, v)' => HandedOn(n, v) \/ (n = m /\ v = w)
  <2> SUFFICES ASSUME NEW n, NEW v, HandedOn(n, v)' PROVE HandedOn(n, v) \/ (n = m /\ v = w)
    OBVIOUS
  <2>1. PICK i \in Entries' : inbox'[i].id = n /\ inbox'[i].words = v
    BY DEF HandedOn
  <2>2. CASE i \in Entries
    BY <1>1, <2>1, <2>2 DEF HandedOn
  <2>3. CASE i = Len(inbox) + 1
    BY <1>1, <2>1, <2>3
  <2> QED BY <1>2, <2>2, <2>3
<1>4. Effect("nowhere", "inbox", m, w)
  BY <1>3, PlacesSame DEF Effect
<1>0. \A k, n, v : At(k, n, v)' => At(k, n, v) \/ (k = "inbox" /\ n = m /\ v = w)
  BY <1>4, EffectMoves DEF Moves
<1>5. \A k : ~At(k, m, w)
  <2>1. words[m] \in Int /\ w \in Int
    BY LineNumbers DEF LineTypes, Texts
  <2> QED BY <2>1 DEF OnceInv, Written
<1>6. OnePlace'
  <2> SUFFICES ASSUME NEW n, NEW v, NEW k, NEW l, At(k, n, v)', At(l, n, v)' PROVE k = l
    BY DEF OnePlace
  <2> QED BY <1>0, <1>5 DEF OnceInv, OnePlace
<1>7. Written'
  <2> SUFFICES ASSUME NEW k, NEW n, NEW v, At(k, n, v)' PROVE n \in Msgs /\ v \in Texts /\ v <= words'[n]
    BY DEF Written
  <2>0. Texts \subseteq Nat /\ words \in [Msgs -> Texts \cup {-1}]
    BY LineNumbers DEF LineTypes, Texts
  <2>1. CASE n = m /\ v = w
    BY <1>1, <2>0, <2>1
  <2>2. CASE ~(n = m /\ v = w)
    <3>1. n \in Msgs /\ v \in Texts /\ v <= words[n]
      BY <1>0, <2>2 DEF OnceInv, Written
    <3>2. CASE n = m
      <4>1. words[m] \in Int /\ v \in Int /\ w \in Int
        <5>1. words[m] \in Texts \cup {-1}
          BY <2>0
        <5>2. \A t \in Texts \cup {-1} : t \in Int
          BY <2>0
        <5> QED BY <3>1, <5>1, <5>2
      <4>2. v <= words[m] /\ words'[n] = w
        BY <1>1, <3>1, <3>2
      <4>3. v <= w
        <5>1. words[m] < w
          OBVIOUS
        <5> QED BY <4>1, <4>2, <5>1
      <4> QED BY <3>1, <4>2, <4>3
    <3>3. CASE n # m
      BY <1>1, <3>1, <3>3
    <3> QED BY <3>1, <3>2, <3>3
  <2> QED BY <2>1, <2>2
<1>8. OneCopy'
  <2>1. ASSUME NEW i \in Entries', NEW j \in Entries', inbox'[i].id = inbox'[j].id, inbox'[i].words = inbox'[j].words PROVE i = j
    <3>1. \A p \in Entries : ~(inbox[p].id = m /\ inbox[p].words = w)
      BY <1>5, AtIs DEF HandedOn
    <3>2. CASE i \in Entries /\ j \in Entries
      <4>1. inbox'[i] = inbox[i] /\ inbox'[j] = inbox[j]
        BY <1>1, <3>2
      <4>2. inbox[i].id = inbox[j].id /\ inbox[i].words = inbox[j].words
        BY <2>1, <4>1
      <4> QED BY <3>2, <4>2 DEF OnceInv, OneCopy
    <3>3. CASE ~(i \in Entries /\ j \in Entries)
      <4>1. inbox'[Len(inbox) + 1].id = m /\ inbox'[Len(inbox) + 1].words = w
        BY <1>1
      <4>2. \A p \in Entries : ~(inbox'[p].id = m /\ inbox'[p].words = w)
        BY <1>1, <3>1
      <4> QED BY <1>2, <2>1, <3>3, <4>1, <4>2
    <3> QED BY <3>2, <3>3
  <2> QED BY <2>1 DEF OnceInv, OneCopy, Spots
<1> QED BY <1>6, <1>7, <1>8 DEF OnceInv

\* Words that come into the line, to wait or to be answered at once.
Where == IF line.on THEN "line" ELSE "turn"
LEMMA OnceEntered ==
  ASSUME LineTypes, OneCopy, NEW m \in MsgType, ~Queued(m.id, m.words), Line!Enqueue(m)
  PROVE  /\ \A i, j \in Spots' : line'.msgs[i].id = line'.msgs[j].id /\ line'.msgs[i].words = line'.msgs[j].words => i = j
         /\ \A n, v : Queued(n, v)' => Queued(n, v) \/ (Where = "line" /\ n = m.id /\ v = m.words)
         /\ \A n, v : Spoken(n, v)' => Spoken(n, v) \/ (Where = "turn" /\ n = m.id /\ v = m.words)
<1>1. CASE line.on
  <2>1. Joins(m) /\ line \in LineType /\ line.msgs \in Seq(MsgType)
    BY <1>1, Enqueued DEF LineTypes, LineType
  <2>2. line'.msgs = Append(line.msgs, m)
    BY <2>1 DEF Joins, LineType
  <2>3. /\ Len(line'.msgs) = Len(line.msgs) + 1 /\ Len(line.msgs) \in Nat /\ line'.msgs[Len(line.msgs) + 1] = m
        /\ \A i \in Spots : line'.msgs[i] = line.msgs[i]
    BY <2>1, <2>2, OneAppended DEF Spots
  <2>4. Spots' = Spots \cup {Len(line.msgs) + 1}
    BY <2>3 DEF Spots
  <2>5. \A i \in Spots : ~(line.msgs[i].id = m.id /\ line.msgs[i].words = m.words)
    BY DEF Queued
  <2>6. ASSUME NEW i \in Spots', NEW j \in Spots', line'.msgs[i].id = line'.msgs[j].id,
               line'.msgs[i].words = line'.msgs[j].words
        PROVE  i = j
    <3>1. \A p \in Spots : ~(line'.msgs[p].id = m.id /\ line'.msgs[p].words = m.words)
      BY <2>3, <2>5
    <3>2. CASE i \in Spots /\ j \in Spots
      <4>1. line.msgs[i].id = line.msgs[j].id /\ line.msgs[i].words = line.msgs[j].words
        BY <2>3, <2>6, <3>2
      <4> QED BY <3>2, <4>1 DEF OneCopy
    <3> QED BY <2>3, <2>4, <2>6, <3>1, <3>2
  <2>7. \A n, v : Queued(n, v)' => Queued(n, v) \/ (n = m.id /\ v = m.words)
    <3> SUFFICES ASSUME NEW n, NEW v, Queued(n, v)' PROVE Queued(n, v) \/ (n = m.id /\ v = m.words)
      OBVIOUS
    <3>1. PICK i \in Spots' : line'.msgs[i].id = n /\ line'.msgs[i].words = v
      BY DEF Queued
    <3>2. CASE i \in Spots
      BY <2>3, <3>1, <3>2 DEF Queued
    <3>3. CASE i = Len(line.msgs) + 1
      BY <2>3, <3>1, <3>3
    <3> QED BY <2>4, <3>2, <3>3
  <2>8. \A n, v : Spoken(n, v)' => Spoken(n, v)
    BY <2>1, PlacesSame DEF Joins
  <2> QED BY <1>1, <2>6, <2>7, <2>8 DEF Where
<1>2. CASE ~line.on
  <2>1. Starts(m, <<>>) /\ line'.msgs = <<>> /\ turn'.msg = {m}
    <3>1. Starts(m, <<>>)
      BY <1>2, Enqueued
    <3> QED BY <3>1 DEF Starts
  <2>2. Spots' = {}
    BY <2>1 DEF Spots
  <2>3. \A n, v : ~Queued(n, v)'
    BY <2>2 DEF Queued
  <2>4. \A n, v : Spoken(n, v)' => n = m.id /\ v = m.words
    BY <2>1 DEF Spoken
  <2> QED BY <1>2, <2>2, <2>3, <2>4 DEF Where
<1> QED BY <1>1, <1>2

\* What is put among the edits was not among them.
LEMMA OnceRead ==
  ASSUME OneCopy, NEW x, ~Edited(x.id, x.words), editors' = editors \cup {x}
  PROVE  /\ \A y, z \in editors' : y.id = z.id /\ y.words = z.words => y = z
         /\ \A n, v : Edited(n, v)' => Edited(n, v) \/ (n = x.id /\ v = x.words)
<1>1. \A y \in editors : ~(y.id = x.id /\ y.words = x.words)
  BY DEF Edited
<1> QED BY <1>1 DEF OneCopy, Edited

LEMMA OnceDispatched == ASSUME LineTypes, OnceInv, Line!Dispatch PROVE OnceInv'
<1> DEFINE m == inbox[1].id
           w == inbox[1].words
<1>1. /\ disp = {} /\ inbox[1] \in EventType /\ Len(inbox) \in Nat \ {0} /\ Len(inbox') = Len(inbox) - 1
      /\ \A i \in 1 .. (Len(inbox) - 1) : inbox'[i] = inbox[i + 1]
      /\ UNCHANGED <<words, out>>
      /\ \/ UNCHANGED <<disp, editors>> /\ Line!Enqueue([id |-> m, words |-> w, lookUps |-> FALSE])
         \/ /\ UNCHANGED <<line, turn, disp>>
            /\ editors' = editors \cup {[step |-> "read", id |-> m, words |-> w, changed |-> FALSE]}
         \/ UNCHANGED <<line, turn, editors>> /\ disp' = {[id |-> m, words |-> w]}
  BY DispatchTakes
<1>2. HandedOn(m, w) /\ m \in Msgs /\ w \in Texts
  <2>1. 1 \in Entries
    BY <1>1 DEF Entries
  <2> QED BY <1>1, <2>1 DEF HandedOn, EventType
<1>3. \A i \in Entries' : i + 1 \in Entries /\ i + 1 # 1 /\ inbox'[i] = inbox[i + 1]
  BY <1>1 DEF Entries
<1>4. \A i, j \in Entries' : inbox'[i].id = inbox'[j].id /\ inbox'[i].words = inbox'[j].words => i = j
  <2> SUFFICES ASSUME NEW i \in Entries', NEW j \in Entries', inbox'[i].id = inbox'[j].id, inbox'[i].words = inbox'[j].words
               PROVE  i = j
    OBVIOUS
  <2>1. i \in Int /\ j \in Int
    BY <1>1 DEF Entries
  <2>2. i + 1 = j + 1
    BY <1>3 DEF OnceInv, OneCopy
  <2> QED BY <2>1, <2>2
<1>5. \A n, v : HandedOn(n, v)' => HandedOn(n, v) /\ ~(n = m /\ v = w)
  <2> SUFFICES ASSUME NEW i \in Entries' PROVE HandedOn(inbox'[i].id, inbox'[i].words) /\ ~(inbox'[i].id = m /\ inbox'[i].words = w)
    BY DEF HandedOn
  <2>1. 1 \in Entries
    BY <1>1 DEF Entries
  <2>2. i + 1 \in Entries /\ i + 1 # 1 /\ inbox'[i] = inbox[i + 1]
    BY <1>3
  <2> QED BY <2>1, <2>2 DEF HandedOn, OnceInv, OneCopy
<1> HIDE DEF m, w
<1>6. At("inbox", m, w) /\ \A k : At(k, m, w) => k = "inbox"
  BY <1>2, AtIs DEF OnceInv, OnePlace
<1>8. CASE UNCHANGED <<disp, editors>> /\ Line!Enqueue([id |-> m, words |-> w, lookUps |-> FALSE])
  <2> DEFINE t == [id |-> m, words |-> w, lookUps |-> FALSE]
  <2>1. t \in MsgType /\ t.id = m /\ t.words = w
    BY <1>2 DEF MsgType
  <2>2. Line!Enqueue(t)
    BY <1>8
  <2> HIDE DEF t
  <2>3. /\ \A i, j \in Spots' : line'.msgs[i].id = line'.msgs[j].id /\ line'.msgs[i].words = line'.msgs[j].words => i = j
        /\ \A n, v : Queued(n, v)' => Queued(n, v) \/ (Where = "line" /\ n = m /\ v = w)
        /\ \A n, v : Spoken(n, v)' => Spoken(n, v) \/ (Where = "turn" /\ n = m /\ v = w)
    BY <1>6, <2>1, <2>2, AtIs, OnceEntered DEF OnceInv
  <2>4. Effect("inbox", Where, m, w)
    BY <1>1, <1>5, <1>8, <2>3, PlacesSame DEF Effect, Where
  <2>5. OneCopy'
    BY <1>4, <1>8, <2>3 DEF OnceInv, OneCopy
  <2> QED BY <1>1, <1>6, <2>4, <2>5, EffectMoves, MovedOnce DEF OnceInv
<1>9. CASE /\ UNCHANGED <<line, turn, disp>>
           /\ editors' = editors \cup {[step |-> "read", id |-> m, words |-> w, changed |-> FALSE]}
  <2> DEFINE x == [step |-> "read", id |-> m, words |-> w, changed |-> FALSE]
  <2>1. x.id = m /\ x.words = w /\ editors' = editors \cup {x}
    BY <1>9
  <2> HIDE DEF x
  <2>2. /\ \A y, z \in editors' : y.id = z.id /\ y.words = z.words => y = z
        /\ \A n, v : Edited(n, v)' => Edited(n, v) \/ (n = m /\ v = w)
    BY <1>6, <2>1, AtIs, OnceRead DEF OnceInv
  <2>3. Effect("inbox", "editors", m, w)
    BY <1>1, <1>5, <1>9, <2>2, PlacesSame DEF Effect
  <2>4. OneCopy'
    BY <1>4, <1>9, <2>2 DEF OnceInv, OneCopy, Spots
  <2> QED BY <1>1, <1>6, <2>3, <2>4, EffectMoves, MovedOnce DEF OnceInv
<1>10. CASE UNCHANGED <<line, turn, editors>> /\ disp' = {[id |-> m, words |-> w]}
  <2>1. \A n, v : LookedUp(n, v)' => n = m /\ v = w
    BY <1>10 DEF LookedUp
  <2>2. Effect("inbox", "disp", m, w)
    BY <1>1, <1>5, <1>10, <2>1, PlacesSame DEF Effect
  <2>3. OneCopy'
    BY <1>4, <1>10 DEF OnceInv, OneCopy, Spots
  <2> QED BY <1>1, <1>6, <2>2, <2>3, EffectMoves, MovedOnce DEF OnceInv
<1> QED BY <1>1, <1>8, <1>9, <1>10 DEF m, w

\* The words of an edit take the place of those that wait, go in front, or are to be read.
LEMMA OnceReplaced == ASSUME LineTypes, OnceInv, Line!DispatchEdit PROVE OnceInv'
<1>1. PICK e \in SaidType :
        /\ disp = {e} /\ disp' = {} /\ UNCHANGED <<words, inbox, out>>
        /\ \/ /\ Line!Waiting(e) # {} /\ UNCHANGED <<turn, editors>>
              /\ line' = [line EXCEPT !.msgs[Line!FirstOf(Line!Waiting(e))].words = e.words]
           \/ /\ UNCHANGED editors /\ turn' = [turn EXCEPT !.cut = TRUE]
              /\ line' = [line EXCEPT !.msgs = <<[id |-> e.id, words |-> e.words, lookUps |-> FALSE]>> \o @]
           \/ /\ UNCHANGED <<line, turn>>
              /\ editors' = editors \cup {[step |-> "read", id |-> e.id, words |-> e.words, changed |-> FALSE]}
  BY EditTakes
<1> DEFINE m == e.id
           w == e.words
<1>2. m \in Msgs /\ w \in Texts
  BY DEF SaidType
<1>3. At("disp", m, w) /\ \A k : At(k, m, w) => k = "disp"
  <2>1. LookedUp(m, w)
    BY <1>1 DEF LookedUp
  <2> QED BY <2>1, AtIs DEF OnceInv, OnePlace
<1>4. \A n, v : ~LookedUp(n, v)'
  BY <1>1 DEF LookedUp
<1>5. ~Queued(m, w) /\ ~Edited(m, w)
  BY <1>3, AtIs
<1>6. CASE /\ Line!Waiting(e) # {} /\ UNCHANGED <<turn, editors>>
           /\ line' = [line EXCEPT !.msgs[Line!FirstOf(Line!Waiting(e))].words = e.words]
  <2>1. /\ Len(line'.msgs) = Len(line.msgs) /\ \A j \in Spots : line'.msgs[j].id = line.msgs[j].id
        /\ \E k \in Spots : /\ line.msgs[k].id = e.id /\ line'.msgs[k].words = e.words
                            /\ \A j \in Spots : j # k => line'.msgs[j] = line.msgs[j]
    BY <1>1, <1>6, Reworded
  <2>2. PICK k \in Spots : /\ line'.msgs[k].id = m /\ line'.msgs[k].words = w
                           /\ \A j \in Spots : j # k => line'.msgs[j] = line.msgs[j]
    BY <2>1
  <2>3. Spots' = Spots
    BY <2>1 DEF Spots
  <2> HIDE DEF m, w
  <2>4. \A j \in Spots : ~(line.msgs[j].id = m /\ line.msgs[j].words = w)
    BY <1>5 DEF Queued
  <2>5. ASSUME NEW i \in Spots', NEW j \in Spots', line'.msgs[i].id = line'.msgs[j].id,
               line'.msgs[i].words = line'.msgs[j].words
        PROVE  i = j
    BY <2>2, <2>3, <2>4, <2>5 DEF OnceInv, OneCopy
  <2>6. ASSUME NEW n, NEW v, Queued(n, v)' PROVE Queued(n, v) \/ (n = m /\ v = w)
    <3>1. PICK i \in Spots' : line'.msgs[i].id = n /\ line'.msgs[i].words = v
      BY <2>6 DEF Queued
    <3> QED BY <2>2, <2>3, <3>1 DEF Queued
  <2>7. Effect("disp", "line", m, w)
    BY <1>1, <1>4, <1>6, <2>6, PlacesSame DEF Effect
  <2>8. OneCopy'
    BY <1>1, <1>6, <2>5 DEF OnceInv, OneCopy, Entries
  <2> QED BY <1>1, <1>3, <2>7, <2>8, EffectMoves, MovedOnce DEF OnceInv
<1>7. CASE /\ UNCHANGED editors /\ turn' = [turn EXCEPT !.cut = TRUE]
           /\ line' = [line EXCEPT !.msgs = <<[id |-> e.id, words |-> e.words, lookUps |-> FALSE]>> \o @]
  <2> DEFINE t == [id |-> e.id, words |-> e.words, lookUps |-> FALSE]
  <2>1. t \in MsgType /\ t.id = m /\ t.words = w
    BY <1>2 DEF MsgType
  <2>2. line' = [line EXCEPT !.msgs = <<t>> \o @]
    BY <1>7
  <2> HIDE DEF t, m, w
  <2>3. /\ Len(line'.msgs) = Len(line.msgs) + 1 /\ line'.msgs[1] = t /\ \A i \in Spots : line'.msgs[i + 1] = line.msgs[i]
        /\ turn'.step = turn.step /\ turn'.msg = turn.msg
    BY <1>7, <2>1, <2>2, PutInFront
  <2>4. Len(line.msgs) \in Nat
    BY DEF LineTypes, LineType
  <2>5. \A i \in Spots' : i = 1 \/ (i - 1 \in Spots /\ line'.msgs[i] = line.msgs[i - 1])
    <3> SUFFICES ASSUME NEW i \in Spots', i # 1 PROVE i - 1 \in Spots /\ line'.msgs[i] = line.msgs[i - 1]
      OBVIOUS
    <3>1. i - 1 \in Spots /\ (i - 1) + 1 = i
      BY <2>3, <2>4 DEF Spots
    <3> QED BY <2>3, <3>1
  <2>6. \A j \in Spots : ~(line.msgs[j].id = m /\ line.msgs[j].words = w)
    BY <1>5 DEF Queued
  <2>7. ASSUME NEW i \in Spots', NEW j \in Spots', line'.msgs[i].id = line'.msgs[j].id,
               line'.msgs[i].words = line'.msgs[j].words
        PROVE  i = j
    <3>1. i \in Int /\ j \in Int
      BY <2>3, <2>4 DEF Spots
    <3>2. CASE i = 1 \/ j = 1
      BY <2>1, <2>3, <2>5, <2>6, <2>7, <3>2
    <3>3. CASE i # 1 /\ j # 1
      <4>1. i - 1 \in Spots /\ j - 1 \in Spots /\ line'.msgs[i] = line.msgs[i - 1] /\ line'.msgs[j] = line.msgs[j - 1]
        BY <2>5, <3>3
      <4>2. i - 1 = j - 1
        BY <2>7, <4>1 DEF OnceInv, OneCopy
      <4> QED BY <3>1, <4>2
    <3> QED BY <3>2, <3>3
  <2>8. ASSUME NEW n, NEW v, Queued(n, v)' PROVE Queued(n, v) \/ (n = m /\ v = w)
    <3>1. PICK i \in Spots' : line'.msgs[i].id = n /\ line'.msgs[i].words = v
      BY <2>8 DEF Queued
    <3> QED BY <2>1, <2>3, <2>5, <3>1 DEF Queued
  <2>9. Effect("disp", "line", m, w)
    BY <1>1, <1>4, <1>7, <2>3, <2>8, PlacesSame DEF Effect
  <2>10. OneCopy'
    BY <1>1, <1>7, <2>7 DEF OnceInv, OneCopy, Entries
  <2> QED BY <1>1, <1>3, <2>9, <2>10, EffectMoves, MovedOnce DEF OnceInv, m, w
<1>8. CASE /\ UNCHANGED <<line, turn>>
           /\ editors' = editors \cup {[step |-> "read", id |-> e.id, words |-> e.words, changed |-> FALSE]}
  <2> DEFINE x == [step |-> "read", id |-> e.id, words |-> e.words, changed |-> FALSE]
  <2>1. x.id = m /\ x.words = w /\ editors' = editors \cup {x}
    BY <1>8
  <2> HIDE DEF x, m, w
  <2>2. /\ \A y, z \in editors' : y.id = z.id /\ y.words = z.words => y = z
        /\ \A n, v : Edited(n, v)' => Edited(n, v) \/ (n = m /\ v = w)
    BY <1>5, <2>1, OnceRead DEF OnceInv
  <2>3. Effect("disp", "editors", m, w)
    BY <1>1, <1>4, <1>8, <2>2, PlacesSame DEF Effect
  <2>4. OneCopy'
    BY <1>1, <1>8, <2>2 DEF OnceInv, OneCopy, Entries, Spots
  <2> QED BY <1>1, <1>3, <2>3, <2>4, EffectMoves, MovedOnce DEF OnceInv
<1> QED BY <1>1, <1>6, <1>7, <1>8

\* A turn goes on: its words stay with it until they were sent, or are left behind.
LEMMA OnceTurned == ASSUME LineTypes, OnceInv, Line!Run \/ Line!Keep \/ Line!Send \/ Line!Note PROVE OnceInv'
<1>1. /\ turn'.msg = turn.msg /\ turn.step \in {"running", "keeping", "sending", "noting"}
      /\ UNCHANGED <<words, inbox, disp, line, editors>>
  BY TurnSteps2
<1>2. OneCopy'
  BY <1>1 DEF OnceInv, OneCopy, Entries, Spots
<1>3. CASE out' = out
  <2>1. turn'.step \in Before => turn.step \in Before
    BY <1>3, <1>1, TurnSteps2 DEF Line!Run, Line!Keep, Line!Send, Line!Note, LineTypes, TurnType, Before
  <2>2. Effect("nowhere", "nowhere", 0, 0)
    BY <1>1, <1>3, <2>1, PlacesSame DEF Effect
  <2>3. Leaves
    BY <2>2, EffectLeaves
  <2> QED BY <1>1, <1>2, <2>3, LeftOnce DEF OnceInv
<1>4. CASE out' # out
  <2>1. PICK t \in turn.msg : /\ turn.step = "sending" /\ out' = out \cup {[id |-> t.id, words |-> t.words]}
                              /\ turn' = [turn EXCEPT !.step = "noting"]
    BY <1>4 DEF Line!Run, Line!Keep, Line!Send, Line!Note, Line!What
  <2>2. turn'.step = "noting"
    BY <2>1 DEF LineTypes, TurnType
  <2> DEFINE m == t.id
             w == t.words
  <2>3. At("turn", m, w)
    BY <2>1, AtIs DEF Spoken, Before
  <2>4. \A n, v : ~Spoken(n, v)'
    BY <2>2 DEF Spoken, Before
  <2>5. \A n, v : Replied(n, v)' => Replied(n, v) \/ (n = m /\ v = w)
    BY <2>1 DEF Replied
  <2> HIDE DEF m, w
  <2>6. Effect("turn", "out", m, w)
    BY <1>1, <2>4, <2>5, PlacesSame DEF Effect
  <2> QED BY <1>1, <1>2, <2>3, <2>6, EffectMoves, MovedOnce DEF OnceInv
<1> QED BY <1>3, <1>4

\* The line goes on with its first message, or is given up with all that waits.
LEMMA OnceEnded == ASSUME LineTypes, OnceInv, Line!EndTurn PROVE OnceInv'
<1>1. /\ UNCHANGED <<words, inbox, disp, editors, out>>
      /\ \/ line' = Line!NoLine /\ turn' = Line!NoTurn
         \/ /\ Len(line.msgs) \in Nat \ {0}
            /\ \E rest \in Seq(MsgType) :
                 /\ Starts(line.msgs[1], rest) /\ Len(rest) = Len(line.msgs) - 1
                 /\ \A i \in 1 .. (Len(line.msgs) - 1) : rest[i] = line.msgs[i + 1]
  BY LastStep
<1>2. CASE line' = Line!NoLine /\ turn' = Line!NoTurn
  <2>1. Spots' = {} /\ turn'.step = "none"
    BY <1>2, LineNumbers DEF Spots
  <2>2. \A n, v : ~Queued(n, v)' /\ ~Spoken(n, v)'
    BY <2>1 DEF Queued, Spoken, Before
  <2>3. Effect("nowhere", "nowhere", 0, 0)
    BY <1>1, <2>2, PlacesSame DEF Effect
  <2>4. Leaves
    BY <2>3, EffectLeaves
  <2>5. OneCopy'
    BY <1>1, <2>1 DEF OnceInv, OneCopy, Entries
  <2> QED BY <1>1, <2>4, <2>5, LeftOnce DEF OnceInv
<1>3. CASE /\ Len(line.msgs) \in Nat \ {0}
           /\ \E rest \in Seq(MsgType) :
                /\ Starts(line.msgs[1], rest) /\ Len(rest) = Len(line.msgs) - 1
                /\ \A i \in 1 .. (Len(line.msgs) - 1) : rest[i] = line.msgs[i + 1]
  <2> DEFINE m == line.msgs[1].id
             w == line.msgs[1].words
  <2>1. PICK rest \in Seq(MsgType) :
          /\ Starts(line.msgs[1], rest) /\ Len(rest) = Len(line.msgs) - 1
          /\ \A i \in 1 .. (Len(line.msgs) - 1) : rest[i] = line.msgs[i + 1]
    BY <1>3
  <2>2. line'.msgs = rest /\ turn'.msg = {line.msgs[1]}
    BY <2>1 DEF Starts
  <2>3. \A i \in Spots' : i \in Int /\ i + 1 \in Spots /\ i + 1 # 1 /\ line'.msgs[i] = line.msgs[i + 1]
    <3> SUFFICES ASSUME NEW i \in Spots' PROVE i \in Int /\ i + 1 \in Spots /\ i + 1 # 1 /\ line'.msgs[i] = line.msgs[i + 1]
      OBVIOUS
    <3>1. Len(line'.msgs) = Len(line.msgs) - 1 /\ Len(line.msgs) \in Nat \ {0}
      BY <1>3, <2>1, <2>2
    <3>2. i \in 1 .. (Len(line.msgs) - 1)
      BY <3>1 DEF Spots
    <3> QED BY <2>1, <2>2, <3>1, <3>2 DEF Spots
  <2>4. 1 \in Spots
    BY <1>3 DEF Spots
  <2>5. At("line", m, w)
    BY <2>4, AtIs DEF Queued
  <2>6. ASSUME NEW i \in Spots', NEW j \in Spots', line'.msgs[i].id = line'.msgs[j].id,
               line'.msgs[i].words = line'.msgs[j].words
        PROVE  i = j
    <3>1. i + 1 \in Spots /\ j + 1 \in Spots /\ line.msgs[i + 1].id = line.msgs[j + 1].id
          /\ line.msgs[i + 1].words = line.msgs[j + 1].words
      BY <2>3, <2>6
    <3>2. i + 1 = j + 1
      BY <3>1 DEF OnceInv, OneCopy
    <3> QED BY <2>3, <3>2
  <2>7. ASSUME NEW n, NEW v, Queued(n, v)' PROVE Queued(n, v) /\ ~(n = m /\ v = w)
    <3>1. PICK i \in Spots' : line'.msgs[i].id = n /\ line'.msgs[i].words = v
      BY <2>7 DEF Queued
    <3>2. i + 1 \in Spots /\ i + 1 # 1 /\ line.msgs[i + 1].id = n /\ line.msgs[i + 1].words = v
      BY <2>3, <3>1
    <3>3. ~(n = m /\ v = w)
      BY <2>4, <3>2 DEF OnceInv, OneCopy
    <3> QED BY <3>2, <3>3 DEF Queued
  <2>8. \A n, v : Spoken(n, v)' => n = m /\ v = w
    BY <2>2 DEF Spoken
  <2> HIDE DEF m, w
  <2>9. Effect("line", "turn", m, w)
    BY <1>1, <2>7, <2>8, PlacesSame DEF Effect
  <2>10. OneCopy'
    BY <1>1, <2>6 DEF OnceInv, OneCopy, Entries
  <2> QED BY <1>1, <2>5, <2>9, <2>10, EffectMoves, MovedOnce DEF OnceInv
<1> QED BY <1>1, <1>2, <1>3

\* An edit that is read goes on with its words, ends, or stands in line.
LEMMA OnceAnswered ==
  ASSUME LineTypes, OnceInv, NEW x \in editors, Line!ReadLast(x) \/ Line!Rewind(x) \/ Line!Clear(x)
  PROVE  OnceInv'
<1>1. /\ UNCHANGED <<words, inbox, disp, line, turn, out>>
      /\ \/ editors' = editors \ {x}
         \/ \E y \in EditorType : editors' = (editors \ {x}) \cup {y} /\ y.id = x.id /\ y.words = x.words
  BY AnswerSteps
<1>2. \A n, v : Edited(n, v)' => Edited(n, v)
  BY <1>1 DEF Edited
<1>3. Effect("nowhere", "nowhere", 0, 0)
  BY <1>1, <1>2, PlacesSame DEF Effect
<1>4. Leaves
  BY <1>3, EffectLeaves
<1>5. \A y, z \in editors' : y.id = z.id /\ y.words = z.words => y = z
  BY <1>1 DEF OnceInv, OneCopy
<1>6. OneCopy'
  BY <1>1, <1>5 DEF OnceInv, OneCopy, Entries, Spots
<1> QED BY <1>1, <1>4, <1>6, LeftOnce DEF OnceInv

LEMMA OnceRequeued == ASSUME LineTypes, OnceInv, NEW x \in editors, Line!Requeue(x) PROVE OnceInv'
<1>1. PICK t \in MsgType : t.id = x.id /\ t.words = x.words /\ Line!Enqueue(t)
  BY RequeueStep
<1>2. editors' = editors \ {x} /\ UNCHANGED <<words, inbox, disp, out>>
  BY RequeueStep
<1> DEFINE m == x.id
           w == x.words
<1>3. At("editors", m, w) /\ \A k : At(k, m, w) => k = "editors"
  <2>1. Edited(m, w)
    BY DEF Edited
  <2> QED BY <2>1, AtIs DEF OnceInv, OnePlace
<1>4. ~Queued(m, w)
  BY <1>3, AtIs
<1>5. /\ \A i, j \in Spots' : line'.msgs[i].id = line'.msgs[j].id /\ line'.msgs[i].words = line'.msgs[j].words => i = j
      /\ \A n, v : Queued(n, v)' => Queued(n, v) \/ (Where = "line" /\ n = m /\ v = w)
      /\ \A n, v : Spoken(n, v)' => Spoken(n, v) \/ (Where = "turn" /\ n = m /\ v = w)
  BY <1>1, <1>4, OnceEntered DEF OnceInv
<1>6. \A n, v : Edited(n, v)' => Edited(n, v) /\ ~(n = m /\ v = w)
  BY <1>2 DEF Edited, OnceInv, OneCopy
<1>7. OneCopy'
  BY <1>2, <1>5 DEF OnceInv, OneCopy, Entries
<1> HIDE DEF m, w
<1>8. Effect("editors", Where, m, w)
  BY <1>2, <1>5, <1>6, PlacesSame DEF Effect, Where
<1> QED BY <1>2, <1>3, <1>7, <1>8, EffectMoves, MovedOnce DEF OnceInv

LEMMA OnceSame ==
  ASSUME OnceInv, UNCHANGED <<words, inbox, disp, editors, out>>, line'.msgs = line.msgs, turn'.msg = turn.msg,
         turn'.step \in Before => turn.step \in Before
  PROVE  OnceInv'
<1>1. Effect("nowhere", "nowhere", 0, 0)
  BY PlacesSame DEF Effect
<1>2. Leaves
  BY <1>1, EffectLeaves
<1>3. OneCopy'
  BY DEF OnceInv, OneCopy, Entries, Spots
<1> QED BY <1>2, <1>3, LeftOnce DEF OnceInv

LEMMA OnceKept == ASSUME LineTypes, OnceInv, Line!Next PROVE OnceInv'
<1>1. ASSUME NEW m \in Line!Ids, Line!Write(m) PROVE OnceInv'
  <2>1. /\ m \in Msgs /\ words[m] = -1 /\ words' = [words EXCEPT ![m] = 0]
        /\ inbox' = Append(inbox, [id |-> m, words |-> 0, edited |-> FALSE]) /\ UNCHANGED <<disp, line, turn, editors, out>>
    BY <1>1, WriteStep
  <2>2. 0 \in Texts /\ words[m] < 0
    BY <2>1, LineNumbers
  <2> QED BY <2>1, <2>2, OnceWritten
<1>2. ASSUME NEW m \in Line!Ids, Line!Edit(m) PROVE OnceInv'
  <2>1. /\ m \in Msgs /\ words[m] \in Nat /\ words[m] + 1 \in Texts /\ words' = [words EXCEPT ![m] = words[m] + 1]
        /\ inbox' = Append(inbox, [id |-> m, words |-> words[m] + 1, edited |-> TRUE])
        /\ UNCHANGED <<disp, line, turn, editors, out>>
    BY <1>2, EditStep
  <2>2. words[m] < words[m] + 1
    BY <2>1
  <2> QED BY <2>1, <2>2, OnceWritten
<1>3. ASSUME Line!StartTurn PROVE OnceInv'
  <2>1. /\ turn.step = "taken" /\ turn'.msg = turn.msg /\ line'.msgs = line.msgs
        /\ UNCHANGED <<words, inbox, disp, editors, out>>
    BY <1>3, FirstStep
  <2> QED BY <2>1, OnceSame DEF Before
<1>4. ASSUME Line!CancelTurns PROVE OnceInv'
  BY <1>4, CancelStep, OnceSame
<1> QED BY <1>1, <1>2, <1>3, <1>4, LineSteps, OnceDispatched, OnceReplaced, OnceTurned, OnceEnded, OnceAnswered, OnceRequeued

LEMMA OnceBegins == ASSUME Line!Init PROVE OnceInv
<1>1. /\ inbox = <<>> /\ disp = {} /\ editors = {} /\ out = {} /\ line.msgs = <<>> /\ turn.step = "none"
  BY LineNumbers DEF Line!Init
<1>2. Entries = {} /\ Spots = {}
  BY <1>1 DEF Entries, Spots
<1>3. \A k, m, w : ~At(k, m, w)
  BY <1>1, <1>2 DEF At, HandedOn, LookedUp, Queued, Spoken, Edited, Replied, Before
<1> QED BY <1>1, <1>2, <1>3 DEF OnceInv, OnePlace, OneCopy, Written

(* No words of the person's are answered twice, though turns are cut, begun     *)
(* again and put in line anew: whatever is dispatched, edited, forgotten and    *)
(* answered again, words are in one place until they are sent, and afterwards   *)
(* in none (dispatchEdit, answerEdit, the turn's steps up to noteExchange).     *)
THEOREM AnsweredOnce == FairSpec => NotAnsweredTwice
<1> DEFINE Fresh == \A m \in turn.msg : turn.step = "sending" /\ turn'.step = "noting" => Line!What(m) \notin out
<1>1. Init => LineTypes /\ OnceInv
  BY LineTypesInit, OnceBegins DEF Init
<1>2. LineTypes /\ OnceInv /\ [Next]_vars => (LineTypes /\ OnceInv)'
  <2> SUFFICES ASSUME LineTypes, OnceInv, [Next]_vars PROVE LineTypes' /\ OnceInv'
    OBVIOUS
  <2>1. CASE Line!Next
    BY <2>1, LineTypesKept, OnceKept
  <2>2. CASE UNCHANGED lineVars
    <3>1. UNCHANGED <<words, inbox, disp, line, turn, editors, history, last, stopped, calm, begun, out>>
      BY <2>2 DEF lineVars
    <3>2. LineTypes'
      BY <3>1 DEF LineTypes
    <3> QED BY <3>1, <3>2, OnceSame
  <2> QED BY <2>1, <2>2 DEF Next, vars
<1>3. LineTypes /\ OnceInv => [Fresh]_(Line!vars)
  <2> SUFFICES ASSUME LineTypes, OnceInv, NEW m \in turn.msg, turn.step = "sending", Line!What(m) \in out PROVE FALSE
    OBVIOUS
  <2>1. Spoken(m.id, m.words) /\ Replied(m.id, m.words)
    BY DEF Spoken, Replied, Before, Line!What
  <2> QED BY <2>1, AtIs DEF OnceInv, OnePlace
<1>4. [](LineTypes /\ OnceInv) => NotAnsweredTwice
  BY <1>3, PTL DEF NotAnsweredTwice, Line!NotAnsweredTwice
<1> QED BY <1>1, <1>2, <1>4, PTL DEF FairSpec
=============================================================================

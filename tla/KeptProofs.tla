----------------------------- MODULE KeptProofs -----------------------------
(***************************************************************************)
(* Proofs about what is stored, for any constants: the three modules of      *)
(* MCKept, one after the other.                                            *)
(*                                                                         *)
(* JobCaps: EnqueueCapped keeps every cap and its calls never wait for each *)
(* other.  Why caps hold: what a call counted it counted under the locks of *)
(* both of its groups, so nobody else adds a capped row there before it     *)
(* stores, and rows that move only leave the count.  And since it counts    *)
(* every row of the window before its own created_at, and all after that,   *)
(* the new row overfills no window it falls in, whatever order rows came in. *)
(*                                                                         *)
(* Learning: what an exchange read is what is held, but for what others      *)
(* wrote since, so what it writes was not held, or the person said Yes to   *)
(* the value it replaces.                                                  *)
(*                                                                         *)
(* Definitions: of an agent about which one request is under way, what the   *)
(* host has is what is stored but for what the steps left of that request    *)
(* bring it; and what a request loaded or looked up is what is stored, if    *)
(* nothing was saved since.                                                *)
(***************************************************************************)
EXTENDS MCKept, FiniteSetTheorems, TLAPS

-----------------------------------------------------------------------------
(* JobCaps: the inductive invariant. *)

CapRecord == [scope : Scopes, max : Nat, window : Nat \ {0}]

(* The steps of a call that has a scope's lock. *)
Past(s) == IF s = "alert" THEN {"personAgent", "dup", "count", "store"}
                          ELSE {"dup", "count", "store"}

Asked       == \A w \in Workers : call[w].step # "idle" => call[w].req # {}
HasLocks    == \A w \in Workers, s \in Scopes :
                 call[w].step \in Past(s) => lock[s][Group(Req(w), s)] = w
OnlyCallers == \A w \in Workers, s \in Scopes : \A g \in Groups(s) :
                 lock[s][g] = w => call[w].step \in Past(s)

(* The jobs a new one of r, created then, could share a window with.         *)
Against(r, began, c) ==
  {i \in Kept(r \in Shadow) : /\ Group(i, c.scope) = Group(r, c.scope)
                              /\ row[i].created > began - c.window}

(* The caps a call has counted for. *)
CountedFor(w) ==
  {k \in DOMAIN Caps : \/ call[w].step = "store"
                       \/ call[w].step = "count" /\ k < call[w].at}

(* What a call counted still leaves room for its job. *)
CountsStand ==
  \A w \in Workers : \A k \in CountedFor(w) :
    Cardinality(Against(Req(w), call[w].began, Caps[k])) < Caps[k].max

(* A call begins to count with the first cap. *)
FromTheFirst ==
  \A w \in Workers : call[w].step \in {"alert", "personAgent", "dup"} => call[w].at = 1

AllWithin == \A k \in DOMAIN Caps : Within(Caps[k])

Locking == TypeOK /\ Asked /\ HasLocks /\ OnlyCallers
CapsIInv == Locking /\ FromTheFirst /\ CountsStand /\ AllWithin

-----------------------------------------------------------------------------
(* Typing. *)

Call == [step : {"idle", "alert", "personAgent", "dup", "count", "store"},
         req : SUBSET Requests, began : 0..MaxNow, at : 1..Len(Caps) + 1]
Row  == [status : Statuses \cup {"none"}, created : 0..MaxNow, capped : BOOLEAN]

LEMMA CapsAre ==
  /\ Len(Caps) \in Nat /\ DOMAIN Caps = 1..Len(Caps)
  /\ \A k \in DOMAIN Caps : /\ Caps[k] \in CapRecord /\ Caps[k].scope \in Scopes
                            /\ Caps[k].max \in Nat /\ Caps[k].window \in Nat \ {0}
<1>1. Caps \in Seq(CapRecord)
  BY CapsConstants DEF CapRecord
<1>2. \A k \in DOMAIN Caps : Caps[k] \in CapRecord
  BY <1>1
<1> QED BY <1>1, <1>2 DEF CapRecord

LEMMA SetsFinite ==
  ASSUME NEW S \in SUBSET Requests PROVE IsFiniteSet(S) /\ Cardinality(S) \in Nat
BY CapsConstants, FS_Subset, FS_CardinalityType

LEMMA FewerOf ==
  ASSUME NEW S \in SUBSET Requests, NEW T \in SUBSET S
  PROVE  Cardinality(T) <= Cardinality(S)
BY SetsFinite, FS_Subset

LEMMA ReqIs ==
  ASSUME TypeOK, Asked, NEW w \in Workers, call[w].step # "idle"
  PROVE  Req(w) \in Requests
<1>1. call[w].req # {} /\ call[w].req \in SUBSET Requests
  BY DEF TypeOK, Asked
<1> QED BY <1>1 DEF Req

(* A call that ends leaves its worker idle and every lock it had free.        *)
LEMMA EndTypes ==
  ASSUME TypeOK, NEW w \in Workers, End(w)
  PROVE  /\ call' \in [Workers -> Call]
         /\ DOMAIN lock' = Scopes
         /\ \A s \in Scopes : lock'[s] \in [Groups(s) -> Workers \cup {NoWorker}]
         /\ call'[w].step = "idle"
         /\ \A v \in Workers \ {w} : call'[v] = call[v]
         /\ \A s \in Scopes : \A g \in Groups(s) :
              lock'[s][g] = IF lock[s][g] = w THEN NoWorker ELSE lock[s][g]
<1>1. NoCall \in Call
  BY CapsAre, CapsConstants DEF NoCall, Call
<1>2. call \in [Workers -> Call] /\ call' = [call EXCEPT ![w] = NoCall]
  BY DEF TypeOK, Call, End
<1>3. lock' = Unlocked(w)
  BY DEF End
<1> HIDE DEF Call
<1>4. call' \in [Workers -> Call] /\ call'[w] = NoCall
      /\ \A v \in Workers \ {w} : call'[v] = call[v]
  BY <1>1, <1>2
<1>5. \A s \in Scopes : \A g \in Groups(s) : lock[s][g] \in Workers \cup {NoWorker}
  BY DEF TypeOK
<1> QED BY <1>3, <1>4, <1>5 DEF Unlocked, NoCall

LEMMA InitTypes == Init => TypeOK
<1> SUFFICES ASSUME Init PROVE TypeOK
  OBVIOUS
<1>1. NoCall \in Call /\ NoRow \in Row /\ 0 \in 0..MaxNow /\ 0 \in 0..MaxAborts
  BY CapsAre, CapsConstants DEF NoCall, Call, NoRow, Row
<1>2. call \in [Workers -> Call] /\ row \in [Requests -> Row]
  BY <1>1 DEF Init
<1>3. \A r \in Requests : row[r].status = "none"
  BY DEF Init, NoRow
<1>4. DOMAIN lock = Scopes /\ \A s \in Scopes : lock[s] \in [Groups(s) -> Workers \cup {NoWorker}]
  BY DEF Init
<1> QED BY <1>1, <1>2, <1>3, <1>4 DEF Init, TypeOK, Call, Row

(* Every step keeps the types. *)
LEMMA NextTypes == TypeOK /\ Asked /\ [Next]_vars => TypeOK'
<1> SUFFICES ASSUME TypeOK, Asked, [Next]_vars PROVE TypeOK'
  OBVIOUS
<1>c. /\ call \in [Workers -> Call] /\ row \in [Requests -> Row]
      /\ now \in 0..MaxNow /\ aborts \in 0..MaxAborts /\ answered \subseteq Requests
      /\ DOMAIN lock = Scopes
      /\ \A s \in Scopes : lock[s] \in [Groups(s) -> Workers \cup {NoWorker}]
  BY DEF TypeOK, Call, Row
<1> DEFINE CallsOK == call' \in [Workers -> Call]
           LocksOK == /\ DOMAIN lock' = Scopes
                      /\ \A s \in Scopes : lock'[s] \in [Groups(s) -> Workers \cup {NoWorker}]
           RowsOK  == row' \in [Requests -> Row]
           ShadowOK == \A r \in Requests :
                         row'[r].status # "none" => (r \in Shadow <=> row'[r].status = "shadow")
           RestOK  == /\ now' \in 0..MaxNow /\ aborts' \in 0..MaxAborts
                      /\ answered' \subseteq Requests
<1>s. \A r \in Requests :
        row[r].status # "none" => (r \in Shadow <=> row[r].status = "shadow")
  BY DEF TypeOK
<1>1. ASSUME NEW w \in Workers, NEW r \in Requests, Begin(w, r)
      PROVE  CallsOK /\ LocksOK /\ RowsOK /\ ShadowOK /\ RestOK
  <2>1. [step |-> "alert", req |-> {r}, began |-> now, at |-> 1] \in Call
    BY <1>c, CapsAre DEF Call
  <2> HIDE DEF Call, Row
  <2>2. CallsOK
    BY <1>1, <1>c, <2>1 DEF Begin
  <2> QED BY <1>1, <1>c, <1>s, <2>2 DEF Begin
<1>2. ASSUME NEW w \in Workers, Lock(w)
      PROVE  CallsOK /\ LocksOK /\ RowsOK /\ ShadowOK /\ RestOK
  <2>1. ASSUME NEW s \in {"personAgent", "dup"}
        PROVE  [call EXCEPT ![w].step = s] \in [Workers -> Call]
    <3>1. [call[w] EXCEPT !.step = s] \in Call
      BY <1>c DEF Call
    <3> HIDE DEF Call
    <3> QED BY <1>c, <3>1
  <2>2. CallsOK
    <3>1. call' = [call EXCEPT ![w].step = IF call[w].step = "alert" THEN "personAgent" ELSE "dup"]
      BY <1>2 DEF Lock
    <3> QED BY <2>1, <3>1
  <2>3. LocksOK
    <3>1. PICK t, g : lock' = [lock EXCEPT ![t][g] = w]
      BY <1>2 DEF Lock
    <3> QED BY <3>1, <1>c
  <2> HIDE DEF Call, Row
  <2> QED BY <1>2, <1>c, <1>s, <2>2, <2>3 DEF Lock
<1>3. ASSUME NEW w \in Workers, FindDuplicate(w)
      PROVE  CallsOK /\ LocksOK /\ RowsOK /\ ShadowOK /\ RestOK
  <2>1. Req(w) \in Requests
    BY <1>3, ReqIs DEF FindDuplicate
  <2>2. CallsOK /\ LocksOK
    <3>1. CASE End(w)
      BY <3>1, EndTypes
    <3>2. CASE call' = [call EXCEPT ![w].step = "count"] /\ lock' = lock
      <4>1. [call[w] EXCEPT !.step = "count"] \in Call
        BY <1>c DEF Call
      <4> HIDE DEF Call
      <4> QED BY <1>c, <3>2, <4>1
    <3> QED BY <1>3, <3>1, <3>2 DEF FindDuplicate
  <2> HIDE DEF Call, Row
  <2> QED BY <1>3, <1>c, <1>s, <2>1, <2>2 DEF FindDuplicate
<1>4. ASSUME NEW w \in Workers, CountCap(w)
      PROVE  CallsOK /\ LocksOK /\ RowsOK /\ ShadowOK /\ RestOK
  <2>1. Req(w) \in Requests
    BY <1>4, ReqIs DEF CountCap
  <2>2. CallsOK /\ LocksOK
    <3>1. CASE End(w)
      BY <3>1, EndTypes
    <3>2. CASE call' = [call EXCEPT ![w].step = "store"] /\ lock' = lock
      <4>1. [call[w] EXCEPT !.step = "store"] \in Call
        BY <1>c DEF Call
      <4> HIDE DEF Call
      <4> QED BY <1>c, <3>2, <4>1
    <3>3. CASE /\ call' = [call EXCEPT ![w].at = call[w].at + 1] /\ lock' = lock
               /\ ~ (call[w].at > Len(Caps))
      <4>1. call[w].at + 1 \in 1..Len(Caps) + 1
        BY <1>c, <3>3, CapsAre DEF Call
      <4>2. ASSUME NEW n \in 1..Len(Caps) + 1 PROVE [call[w] EXCEPT !.at = n] \in Call
        BY <1>c DEF Call
      <4>3. [call[w] EXCEPT !.at = call[w].at + 1] \in Call
        BY <4>1, <4>2
      <4> HIDE DEF Call
      <4> QED BY <1>c, <3>3, <4>3
    <3> QED BY <1>4, <3>1, <3>2, <3>3 DEF CountCap
  <2> HIDE DEF Call, Row
  <2> QED BY <1>4, <1>c, <1>s, <2>1, <2>2 DEF CountCap
<1>5. ASSUME NEW w \in Workers, Store(w)
      PROVE  CallsOK /\ LocksOK /\ RowsOK /\ ShadowOK /\ RestOK
  <2>1. Req(w) \in Requests
    BY <1>5, ReqIs DEF Store
  <2>2. CallsOK /\ LocksOK
    BY <1>5, EndTypes DEF Store
  <2>3. RowsOK /\ ShadowOK
    <3>1. CASE row' = [row EXCEPT ![Req(w)] = [status |-> StartStatus(Req(w)),
                                             created |-> call[w].began, capped |-> TRUE]]
      <4>1. [status |-> StartStatus(Req(w)), created |-> call[w].began, capped |-> TRUE] \in Row
        BY <1>c DEF Row, Call, StartStatus, Statuses
      <4> HIDE DEF Row
      <4>2. RowsOK
        BY <1>c, <3>1, <4>1
      <4>3. ShadowOK
        BY <1>c, <1>s, <2>1, <3>1 DEF StartStatus
      <4> QED BY <4>2, <4>3
    <3>2. CASE row' = row
      BY <1>c, <1>s, <3>2
    <3> QED BY <1>5, <3>1, <3>2 DEF Store
  <2> HIDE DEF Call, Row
  <2> QED BY <1>5, <1>c, <2>1, <2>2, <2>3 DEF Store
<1>6. ASSUME NEW w \in Workers, Abort(w)
      PROVE  CallsOK /\ LocksOK /\ RowsOK /\ ShadowOK /\ RestOK
  <2>1. CallsOK /\ LocksOK
    BY <1>6, EndTypes DEF Abort
  <2>2. aborts' \in 0..MaxAborts
    BY <1>6, <1>c, CapsConstants DEF Abort
  <2> HIDE DEF Call, Row
  <2> QED BY <1>6, <1>c, <1>s, <2>1, <2>2 DEF Abort
<1>7. ASSUME NEW r \in Requests, Enqueue(r)
      PROVE  CallsOK /\ LocksOK /\ RowsOK /\ ShadowOK /\ RestOK
  <2>1. [status |-> StartStatus(r), created |-> now, capped |-> FALSE] \in Row
    BY <1>c DEF Row, StartStatus, Statuses
  <2> HIDE DEF Call, Row
  <2>2. RowsOK
    BY <1>7, <1>c, <2>1 DEF Enqueue
  <2>3. ShadowOK
    BY <1>7, <1>c, <1>s DEF Enqueue, StartStatus
  <2> QED BY <1>7, <1>c, <2>2, <2>3 DEF Enqueue
<1>8. ASSUME NEW r \in Requests, Move(r)
      PROVE  CallsOK /\ LocksOK /\ RowsOK /\ ShadowOK /\ RestOK
  <2>1. PICK s \in Outcomes : row' = [row EXCEPT ![r].status = s]
    BY <1>8 DEF Move
  <2>2. s \in {"running", "done", "dropped", "interrupted", "failed"}
    BY CapsConstants
  <2>3. [row[r] EXCEPT !.status = s] \in Row
    BY <1>c, <2>2 DEF Row, Statuses
  <2>4. r \notin Shadow /\ row[r].status # "none"
    BY <1>8, <1>s DEF Move
  <2>5. row' = [row EXCEPT ![r] = [row[r] EXCEPT !.status = s]]
    BY <2>1
  <2>6. ShadowOK
    <3> SUFFICES ASSUME NEW q \in Requests
                 PROVE row'[q].status # "none" => (q \in Shadow <=> row'[q].status = "shadow")
      OBVIOUS
    <3>1. CASE q = r
      <4>1. row'[q] = [row[r] EXCEPT !.status = s]
        BY <1>c, <2>5, <3>1
      <4>2. row[r] \in Row
        BY <1>c
      <4>3. row'[q].status = s
        BY <4>1, <4>2 DEF Row
      <4> QED BY <2>2, <2>4, <3>1, <4>3
    <3>2. CASE q # r
      <4>1. row'[q] = row[q]
        BY <1>c, <2>5, <3>2
      <4> QED BY <1>s, <4>1
    <3> QED BY <3>1, <3>2
  <2> HIDE DEF Call, Row
  <2>7. RowsOK
    BY <1>c, <2>3, <2>5
  <2> QED BY <1>8, <1>c, <2>6, <2>7 DEF Move
<1>9. ASSUME Tick PROVE CallsOK /\ LocksOK /\ RowsOK /\ ShadowOK /\ RestOK
  <2>1. now' \in 0..MaxNow
    BY <1>9, <1>c, CapsConstants DEF Tick
  <2> HIDE DEF Call, Row
  <2> QED BY <1>9, <1>c, <1>s, <2>1 DEF Tick
<1>10. ASSUME UNCHANGED vars PROVE CallsOK /\ LocksOK /\ RowsOK /\ ShadowOK /\ RestOK
  <2> HIDE DEF Call, Row
  <2> QED BY <1>10, <1>c, <1>s DEF vars
<1>11. CallsOK /\ LocksOK /\ RowsOK /\ ShadowOK /\ RestOK
  <2> HIDE DEF CallsOK, LocksOK, RowsOK, ShadowOK, RestOK
  <2> QED BY <1>1, <1>2, <1>3, <1>4, <1>5, <1>6, <1>7, <1>8, <1>9, <1>10 DEF Next
<1> QED BY <1>11 DEF TypeOK, Call, Row

-----------------------------------------------------------------------------
(* The locks. *)

(* The rest of the state does not matter to who has which lock.              *)
LEMMA SameLocking ==
  ASSUME Asked, HasLocks, OnlyCallers, UNCHANGED <<call, lock>>
  PROVE  Asked' /\ HasLocks' /\ OnlyCallers'
BY DEF Asked, HasLocks, OnlyCallers, Req

(* A call that ends gives up its own locks and nobody else's.                *)
LEMMA EndLocking ==
  ASSUME TypeOK, Asked, HasLocks, OnlyCallers, NEW w \in Workers, End(w)
  PROVE  Asked' /\ HasLocks' /\ OnlyCallers'
<1>1. /\ call'[w].step = "idle"
      /\ \A v \in Workers \ {w} : call'[v] = call[v]
      /\ \A s \in Scopes : \A g \in Groups(s) :
           lock'[s][g] = IF lock[s][g] = w THEN NoWorker ELSE lock[s][g]
  BY EndTypes
<1>2. NoWorker \notin Workers
  BY CapsConstants
<1>3. Asked'
  BY <1>1 DEF Asked
<1>4. HasLocks'
  <2> SUFFICES ASSUME NEW v \in Workers, NEW s \in Scopes, call'[v].step \in Past(s)
               PROVE  lock'[s][Group(Req(v), s)'] = v
    BY DEF HasLocks
  <2>1. v # w
    BY <1>1 DEF Past
  <2>a. call'[v] = call[v] /\ Req(v)' = Req(v)
    BY <1>1, <2>1 DEF Req
  <2>2. call'[v] = call[v] /\ Req(v)' = Req(v) /\ Group(Req(v), s)' = Group(Req(v), s)
    BY <2>a DEF Group
  <2>3. lock[s][Group(Req(v), s)] = v
    BY <2>2 DEF HasLocks
  <2>4. Group(Req(v), s) \in Groups(s)
    <3>1. call[v].step # "idle"
      BY <2>2 DEF Past
    <3> QED BY <3>1, ReqIs DEF Groups
  <2> QED BY <1>1, <2>1, <2>2, <2>3, <2>4
<1>5. OnlyCallers'
  <2> SUFFICES ASSUME NEW v \in Workers, NEW s \in Scopes, NEW g \in Groups(s), lock'[s][g] = v
               PROVE  call'[v].step \in Past(s)
    BY DEF OnlyCallers, Groups, Group
  <2>1. lock[s][g] = v /\ v # w
    BY <1>1, <1>2
  <2> QED BY <1>1, <2>1 DEF OnlyCallers
<1> QED BY <1>3, <1>4, <1>5

(* A call that goes on without taking a lock, past the same locks.           *)
GoesOn(w, step) ==
  /\ call[w].step # "idle" /\ step # "idle"
  /\ \A s \in Scopes : call[w].step \in Past(s) /\ step \in Past(s)
  /\ call'[w].step = step /\ call'[w].req = call[w].req
  /\ \A v \in Workers \ {w} : call'[v] = call[v]
  /\ lock' = lock

LEMMA GoesOnLocking ==
  ASSUME Asked, HasLocks, OnlyCallers, NEW w \in Workers, NEW step, GoesOn(w, step)
  PROVE  Asked' /\ HasLocks' /\ OnlyCallers'
<1>1. \A v \in Workers : Req(v)' = Req(v)
  BY DEF Req, GoesOn
<1>2. Asked'
  BY DEF Asked, GoesOn
<1>3. HasLocks'
  <2> SUFFICES ASSUME NEW v \in Workers, NEW s \in Scopes, call'[v].step \in Past(s)
               PROVE  lock'[s][Group(Req(v), s)'] = v
    BY DEF HasLocks
  <2>1. call[v].step \in Past(s)
    BY DEF GoesOn
  <2>2. Group(Req(v), s)' = Group(Req(v), s)
    BY <1>1 DEF Group
  <2> QED BY <2>1, <2>2 DEF HasLocks, GoesOn
<1>4. OnlyCallers'
  <2> SUFFICES ASSUME NEW v \in Workers, NEW s \in Scopes, NEW g \in Groups(s), lock'[s][g] = v
               PROVE  call'[v].step \in Past(s)
    BY DEF OnlyCallers, Groups, Group
  <2>1. call[v].step \in Past(s)
    BY DEF OnlyCallers, GoesOn
  <2> QED BY <2>1 DEF GoesOn
<1> QED BY <1>2, <1>3, <1>4

(* What a step does to calls and locks. *)
LEMMA NextLocking == TypeOK /\ Asked /\ HasLocks /\ OnlyCallers /\ [Next]_vars
                     => Asked' /\ HasLocks' /\ OnlyCallers'
<1> SUFFICES ASSUME TypeOK, Asked, HasLocks, OnlyCallers, [Next]_vars
             PROVE  Asked' /\ HasLocks' /\ OnlyCallers'
  OBVIOUS
<1>c. /\ call \in [Workers -> Call] /\ DOMAIN lock = Scopes
      /\ \A s \in Scopes : lock[s] \in [Groups(s) -> Workers \cup {NoWorker}]
  BY DEF TypeOK, Call
<1>1. ASSUME NEW w \in Workers, NEW r \in Requests, Begin(w, r)
      PROVE  Asked' /\ HasLocks' /\ OnlyCallers'
  <2>1. /\ call[w].step = "idle" /\ lock' = lock
        /\ call'[w] = [step |-> "alert", req |-> {r}, began |-> now, at |-> 1]
        /\ \A v \in Workers \ {w} : call'[v] = call[v] /\ Req(v)' = Req(v)
    BY <1>c, <1>1 DEF Begin, Req
  <2>2. Asked'
    BY <2>1 DEF Asked
  <2>3. HasLocks'
    BY <2>1 DEF HasLocks, Past, Group
  <2>4. OnlyCallers'
    BY <2>1 DEF OnlyCallers, Past, Groups, Group
  <2> QED BY <2>2, <2>3, <2>4
<1>2. ASSUME NEW w \in Workers, Lock(w) PROVE Asked' /\ HasLocks' /\ OnlyCallers'
  <2> DEFINE t == call[w].step
             g == Group(Req(w), t)
             n == IF t = "alert" THEN "personAgent" ELSE "dup"
  <2>1. t \in Scopes /\ lock[t][g] = NoWorker /\ lock' = [lock EXCEPT ![t][g] = w]
        /\ call' = [call EXCEPT ![w].step = n]
    BY <1>2 DEF Lock, NextLock
  <2>2. Req(w) \in Requests /\ g \in Groups(t) /\ t # "idle"
    BY <2>1, ReqIs DEF Scopes, Groups
  <2>3. /\ call'[w].step = n /\ call'[w].req = call[w].req
        /\ \A v \in Workers \ {w} : call'[v] = call[v]
    BY <1>c, <2>1 DEF Call
  <2>4. \A v \in Workers : Req(v)' = Req(v)
    BY <2>3 DEF Req
  <2>5. /\ lock'[t][g] = w
        /\ \A s \in Scopes : \A h \in Groups(s) :
             lock'[s][h] = IF s = t /\ h = g THEN w ELSE lock[s][h]
    BY <1>c, <2>1, <2>2
  <2>6. Asked'
    BY <2>2, <2>3 DEF Asked
  <2>7. HasLocks'
    <3> SUFFICES ASSUME NEW v \in Workers, NEW s \in Scopes, call'[v].step \in Past(s)
                 PROVE  lock'[s][Group(Req(v), s)'] = v
      BY DEF HasLocks
    <3>1. Group(Req(v), s)' = Group(Req(v), s)
      BY <2>4 DEF Group
    <3>2. CASE v = w /\ s = t
      BY <2>5, <3>1, <3>2
    <3>3. CASE v # w \/ s # t
      <4>1. call[v].step \in Past(s)
        BY <2>1, <2>3, <3>3 DEF Past, Scopes
      <4>2. lock[s][Group(Req(v), s)] = v
        BY <4>1 DEF HasLocks
      <4>3. Group(Req(v), s) \in Groups(s)
        <5>1. call[v].step # "idle"
          BY <4>1 DEF Past
        <5> QED BY <5>1, ReqIs DEF Groups
      <4>4. ~(s = t /\ Group(Req(v), s) = g)
        BY <2>1, <4>2, CapsConstants
      <4> QED BY <2>5, <3>1, <4>2, <4>3, <4>4
    <3> QED BY <3>2, <3>3
  <2>8. OnlyCallers'
    <3> SUFFICES ASSUME NEW v \in Workers, NEW s \in Scopes, NEW h \in Groups(s), lock'[s][h] = v
                 PROVE  call'[v].step \in Past(s)
      BY DEF OnlyCallers, Groups, Group
    <3>1. CASE s = t /\ h = g
      <4>1. v = w
        BY <2>5, <3>1
      <4> QED BY <2>1, <2>3, <3>1, <4>1 DEF Past, Scopes
    <3>2. CASE ~(s = t /\ h = g)
      <4>1. call[v].step \in Past(s)
        BY <2>5, <3>2 DEF OnlyCallers
      <4> QED BY <2>1, <2>3, <4>1 DEF Past, Scopes
    <3> QED BY <3>1, <3>2
  <2> QED BY <2>6, <2>7, <2>8
<1>3. ASSUME NEW w \in Workers, FindDuplicate(w) PROVE Asked' /\ HasLocks' /\ OnlyCallers'
  <2>1. CASE End(w)
    BY <2>1, EndLocking
  <2>2. CASE call' = [call EXCEPT ![w].step = "count"] /\ lock' = lock
    <3>1. GoesOn(w, "count")
      BY <1>c, <1>3, <2>2 DEF FindDuplicate, GoesOn, Past, Call
    <3> QED BY <3>1, GoesOnLocking
  <2> QED BY <1>3, <2>1, <2>2 DEF FindDuplicate
<1>4. ASSUME NEW w \in Workers, CountCap(w) PROVE Asked' /\ HasLocks' /\ OnlyCallers'
  <2>1. CASE End(w)
    BY <2>1, EndLocking
  <2>2. CASE call' = [call EXCEPT ![w].step = "store"] /\ lock' = lock
    <3>1. GoesOn(w, "store")
      BY <1>c, <1>4, <2>2 DEF CountCap, GoesOn, Past, Call
    <3> QED BY <3>1, GoesOnLocking
  <2>3. CASE call' = [call EXCEPT ![w].at = call[w].at + 1] /\ lock' = lock
    <3>1. GoesOn(w, "count")
      BY <1>c, <1>4, <2>3 DEF CountCap, GoesOn, Past, Call
    <3> QED BY <3>1, GoesOnLocking
  <2> QED BY <1>4, <2>1, <2>2, <2>3 DEF CountCap
<1>5. ASSUME NEW w \in Workers, Store(w) \/ Abort(w) PROVE Asked' /\ HasLocks' /\ OnlyCallers'
  BY <1>5, EndLocking DEF Store, Abort
<1>6. ASSUME (\E r \in Requests : Enqueue(r) \/ Move(r)) \/ Tick \/ UNCHANGED vars
      PROVE  Asked' /\ HasLocks' /\ OnlyCallers'
  BY <1>6, SameLocking DEF Enqueue, Move, Tick, vars
<1> QED BY <1>1, <1>2, <1>3, <1>4, <1>5, <1>6 DEF Next

LEMMA InitLocking == Init => Asked /\ HasLocks /\ OnlyCallers
BY CapsConstants DEF Init, NoCall, Asked, HasLocks, OnlyCallers, Past

(* Who waits has no lock that who holds it could wait for. *)
LEMMA LockingIsNoCircle == Locking => NoCircle
<1> SUFFICES ASSUME Locking, NEW w \in Workers, NEW v \in Workers,
                    WaitsFor(w, v), WaitsFor(v, w)
             PROVE  FALSE
  BY DEF NoCircle
<1>1. ASSUME NEW x \in Workers, NEW y \in Workers, WaitsFor(x, y)
      PROVE  call[y].step \in Past(call[x].step) /\ call[x].step \in Scopes
  <2>1. call[x].step \in Scopes /\ call[x].step # "idle"
    BY <1>1 DEF WaitsFor, Scopes
  <2>2. Group(Req(x), call[x].step) \in Groups(call[x].step)
    BY <2>1, ReqIs DEF Locking, Groups
  <2>3. lock[call[x].step][Group(Req(x), call[x].step)] = y
    BY <1>1 DEF WaitsFor, NextLock
  <2> QED BY <2>1, <2>2, <2>3 DEF Locking, OnlyCallers
<1>2. call[v].step \in Past(call[w].step) /\ call[w].step \in Past(call[v].step)
      /\ call[w].step \in Scopes /\ call[v].step \in Scopes
  BY <1>1
<1> QED BY <1>2 DEF Past, Scopes

-----------------------------------------------------------------------------
(* The caps. *)

(* No kept row is new, and none has another created_at. *)
NoMore ==
  \A shadow \in BOOLEAN :
    /\ Kept(shadow)' \subseteq Kept(shadow)
    /\ \A r \in Kept(shadow)' : row'[r].created = row[r].created

LEMMA NoMoreKeepsRoom ==
  ASSUME NoMore, NEW c
  PROVE  /\ Within(c) /\ c.max \in Nat => Within(c)'
         /\ \A r, b : Against(r, b, c)' \subseteq Against(r, b, c)
<1>1. ASSUME NEW r, NEW b PROVE Against(r, b, c)' \subseteq Against(r, b, c)
  <2>1. (r \in Shadow) \in BOOLEAN
    OBVIOUS
  <2>2. /\ Kept(r \in Shadow)' \subseteq Kept(r \in Shadow)
        /\ \A i \in Kept(r \in Shadow)' : row'[i].created = row[i].created
    BY <2>1 DEF NoMore
  <2> QED BY <2>2 DEF Against, Group
<1>2. ASSUME Within(c), c.max \in Nat PROVE Within(c)'
  <2> SUFFICES ASSUME NEW shadow \in BOOLEAN, NEW r \in Kept(shadow)'
               PROVE  Cardinality({s \in Kept(shadow)' :
                        /\ Group(s, c.scope) = Group(r, c.scope)
                        /\ row'[s].created - row'[r].created \in 0..(c.window - 1)}) <= c.max
    BY DEF Within, Group
  <2> DEFINE T == {s \in Kept(shadow)' :
                     /\ Group(s, c.scope) = Group(r, c.scope)
                     /\ row'[s].created - row'[r].created \in 0..(c.window - 1)}
             S == {s \in Kept(shadow) :
                     /\ Group(s, c.scope) = Group(r, c.scope)
                     /\ row[s].created - row[r].created \in 0..(c.window - 1)}
  <2>1. r \in Kept(shadow) /\ T \subseteq S /\ S \subseteq Requests
    BY DEF NoMore, Kept
  <2>2. Cardinality(S) <= c.max
    BY <2>1, <1>2 DEF Within
  <2> HIDE DEF S, T
  <2>3. Cardinality(T) <= Cardinality(S)
    BY <2>1, FewerOf
  <2>4. Cardinality(S) \in Nat /\ Cardinality(T) \in Nat
    BY <2>1, SetsFinite
  <2>5. Cardinality(T) <= c.max
    BY <1>2, <2>2, <2>3, <2>4
  <2> QED BY <2>5 DEF T
<1> QED BY <1>1, <1>2

(* What is stored is one row more where there was none. *)
Stores(r, b) ==
  /\ row[r].status = "none"
  /\ row' = [row EXCEPT ![r] = [status |-> StartStatus(r), created |-> b, capped |-> TRUE]]

LEMMA StoredIsKept ==
  ASSUME row \in [Requests -> Row], NEW r \in Requests, NEW b \in 0..MaxNow, Stores(r, b)
  PROVE  /\ \A shadow \in BOOLEAN :
              Kept(shadow)' = IF shadow = (r \in Shadow) THEN Kept(shadow) \cup {r} ELSE Kept(shadow)
         /\ \A shadow \in BOOLEAN : r \notin Kept(shadow) /\ Kept(shadow) \subseteq Requests
         /\ row'[r].created = b
         /\ \A i \in Requests \ {r} : row'[i] = row[i]
<1>1. /\ row'[r] = [status |-> StartStatus(r), created |-> b, capped |-> TRUE]
      /\ \A i \in Requests \ {r} : row'[i] = row[i]
  BY DEF Stores
<1>2. \A shadow \in BOOLEAN : r \notin Kept(shadow) /\ Kept(shadow) \subseteq Requests
  BY DEF Kept, Stores
<1>3. ASSUME NEW shadow \in BOOLEAN
      PROVE  Kept(shadow)' = IF shadow = (r \in Shadow) THEN Kept(shadow) \cup {r} ELSE Kept(shadow)
  <2>1. \A i \in Requests \ {r} : i \in Kept(shadow)' <=> i \in Kept(shadow)
    BY <1>1 DEF Kept
  <2>2. r \in Kept(shadow)' <=> shadow = (r \in Shadow)
    BY <1>1 DEF Kept, StartStatus
  <2>3. Kept(shadow)' \subseteq Requests
    BY DEF Kept
  <2> QED BY <1>2, <2>1, <2>2, <2>3
<1> QED BY <1>1, <1>2, <1>3

(* A row for which the count left room fits in every window it falls in.      *)
LEMMA StoringFits ==
  ASSUME row \in [Requests -> Row], NEW r \in Requests, NEW b \in 0..MaxNow, Stores(r, b),
         NEW c \in CapRecord, Within(c), Cardinality(Against(r, b, c)) < c.max
  PROVE  Within(c)'
<1>c. MaxNow \in Nat /\ c.max \in Nat /\ c.window \in Nat /\ b \in Nat
  BY CapsConstants DEF CapRecord
<1>r. \A i \in Requests : row[i].created \in Nat
  BY <1>c DEF Row
<1> SUFFICES ASSUME NEW shadow \in BOOLEAN, NEW a \in Kept(shadow)'
             PROVE  Cardinality({s \in Kept(shadow)' :
                      /\ Group(s, c.scope) = Group(a, c.scope)
                      /\ row'[s].created - row'[a].created \in 0..(c.window - 1)}) <= c.max
  BY DEF Within, Group
<1> DEFINE T == {s \in Kept(shadow)' :
                   /\ Group(s, c.scope) = Group(a, c.scope)
                   /\ row'[s].created - row'[a].created \in 0..(c.window - 1)}
           S == {s \in Kept(shadow) :
                   /\ Group(s, c.scope) = Group(a, c.scope)
                   /\ row[s].created - row[a].created \in 0..(c.window - 1)}
<1>1. /\ Kept(shadow)' = IF shadow = (r \in Shadow) THEN Kept(shadow) \cup {r} ELSE Kept(shadow)
      /\ r \notin Kept(shadow) /\ Kept(shadow) \subseteq Requests
      /\ row'[r].created = b
      /\ \A i \in Requests \ {r} : row'[i] = row[i]
  BY StoredIsKept
<1>2. T \subseteq Requests /\ Cardinality(T) \in Nat
  <2>1. T \subseteq Requests
    BY <1>1
  <2> HIDE DEF T
  <2> QED BY <2>1, SetsFinite
<1>3. CASE r \notin T
  <2>1. a # r
    <3> SUFFICES ASSUME a = r PROVE FALSE
      OBVIOUS
    <3>1. row'[r].created - row'[r].created \in 0..(c.window - 1)
      BY <1>1, <1>c DEF CapRecord
    <3> QED BY <3>1, <1>3
  <2>2. T \subseteq S /\ a \in Kept(shadow)
    BY <1>1, <1>3, <2>1
  <2>3. Cardinality(S) <= c.max
    BY <2>2 DEF Within
  <2>4. S \subseteq Requests
    BY <1>1
  <2> HIDE DEF S, T
  <2> QED BY <1>2, <1>c, <2>2, <2>3, <2>4, FewerOf, SetsFinite DEF T
<1>4. CASE r \in T
  <2> DEFINE A == Against(r, b, c)
  <2>1. shadow = (r \in Shadow) /\ Group(r, c.scope) = Group(a, c.scope)
    BY <1>1, <1>4
  <2>2. row'[a].created \in Nat /\ b - row'[a].created >= 0 /\ b - row'[a].created <= c.window - 1
    <3>1. row'[a].created \in Nat
      BY <1>1, <1>c, <1>r
    <3>2. b - row'[a].created \in 0..(c.window - 1)
      BY <1>1, <1>4
    <3> QED BY <3>1, <3>2, <1>c
  <2>3. T \ {r} \subseteq A
    <3> SUFFICES ASSUME NEW i \in T \ {r} PROVE i \in A
      OBVIOUS
    <3>1. i \in Kept(shadow) /\ i \in Requests /\ Group(i, c.scope) = Group(r, c.scope)
      BY <1>1, <2>1
    <3>2. row[i].created - row'[a].created \in 0..(c.window - 1)
      BY <1>1, <3>1
    <3>3. row[i].created > b - c.window
      BY <3>1, <3>2, <2>2, <1>c, <1>r
    <3> QED BY <3>1, <3>3, <2>1 DEF Against
  <2>4. A \subseteq Requests
    BY <1>1, <2>1 DEF Against
  <2>5. Cardinality(T \ {r}) = Cardinality(T) - 1
    <3> HIDE DEF T
    <3> QED BY <1>2, <1>4, SetsFinite, FS_RemoveElement
  <2>6. Cardinality(A) < c.max
    OBVIOUS
  <2> HIDE DEF A, T
  <2>7. Cardinality(T \ {r}) <= Cardinality(A)
    BY <2>3, <2>4, FewerOf
  <2>8. Cardinality(A) \in Nat
    BY <2>4, SetsFinite
  <2>9. Cardinality(T) <= c.max
    BY <1>2, <1>c, <2>5, <2>6, <2>7, <2>8
  <2> QED BY <2>9 DEF T
<1> QED BY <1>3, <1>4

(* A count made before stands while no row comes in. *)
Counting(v) ==
  /\ CountedFor(v)' \subseteq CountedFor(v)
  /\ CountedFor(v)' # {} => call'[v].req = call[v].req /\ call'[v].began = call[v].began

LEMMA StillStands ==
  ASSUME CountsStand, NoMore, NEW w \in Workers, Counting(w), NEW k \in CountedFor(w)'
  PROVE  Cardinality(Against(Req(w), call[w].began, Caps[k])') < Caps[k].max
<1>1. k \in CountedFor(w) /\ k \in DOMAIN Caps /\ Caps[k].max \in Nat
  BY CapsAre DEF Counting, CountedFor
<1>2. call'[w].req = call[w].req /\ call'[w].began = call[w].began
  BY DEF Counting
<1>3. Req(w)' = Req(w)
  BY <1>2 DEF Req
<1>q. PICK q, b : q = Req(w) /\ b = call[w].began
  OBVIOUS
<1>4. Against(Req(w), call[w].began, Caps[k])' \subseteq Against(q, b, Caps[k])
  <2>1. Against(q, b, Caps[k])' \subseteq Against(q, b, Caps[k])
    BY NoMoreKeepsRoom
  <2>2. Req(w)' = q /\ (call[w].began)' = b
    BY <1>2, <1>3, <1>q
  <2>3. Against(Req(w), call[w].began, Caps[k])' = Against(q, b, Caps[k])'
    BY <2>2 DEF Against
  <2> QED BY <2>1, <2>3
<1>5. Against(q, b, Caps[k]) \subseteq Requests
  BY DEF Against, Kept
<1>6. Cardinality(Against(q, b, Caps[k])) < Caps[k].max
  BY <1>1, <1>q DEF CountsStand
<1> DEFINE U == Against(q, b, Caps[k])
           V == Against(Req(w), call[w].began, Caps[k])'
<1>7. Cardinality(V) <= Cardinality(U) /\ Cardinality(V) \in Nat /\ Cardinality(U) \in Nat
  <2>1. U \subseteq Requests /\ V \subseteq U
    BY <1>4, <1>5
  <2> HIDE DEF U, V
  <2> QED BY <2>1, FewerOf, SetsFinite
<1>8. Cardinality(U) < Caps[k].max
  BY <1>6
<1> HIDE DEF U, V
<1>9. Cardinality(V) < Caps[k].max
  BY <1>1, <1>7, <1>8
<1> QED BY <1>9 DEF V

(* The rows as they are. *)
LEMMA RowsSame == UNCHANGED row => NoMore
BY DEF NoMore, Kept

LEMMA RowsMove ==
  ASSUME TypeOK, NEW r \in Requests, Move(r) \/ Enqueue(r) PROVE NoMore
<1> SUFFICES ASSUME NEW shadow \in BOOLEAN, NEW i \in Kept(shadow)'
             PROVE  i \in Kept(shadow) /\ row'[i].created = row[i].created
  BY DEF NoMore
<1>c. row \in [Requests -> Row] /\ i \in Requests
  BY DEF TypeOK, Row, Kept
<1>1. CASE Move(r)
  <2>1. PICK s \in Outcomes : row' = [row EXCEPT ![r].status = s]
    BY <1>1 DEF Move
  <2>2. s # "shadow" /\ s # "none"
    BY CapsConstants
  <2>3. CASE i = r
    <3>1. /\ row'[r].status = s /\ row'[r].created = row[r].created
          /\ row'[r].capped = row[r].capped
      BY <1>c, <2>1 DEF Row
    <3> QED BY <1>1, <1>c, <2>2, <2>3, <3>1 DEF Kept, Move
  <2>4. CASE i # r
    BY <1>c, <2>1, <2>4 DEF Kept
  <2> QED BY <2>3, <2>4
<1>2. CASE Enqueue(r)
  <2>1. row'[r].capped = FALSE /\ (i # r => row'[i] = row[i])
    BY <1>c, <1>2 DEF Enqueue
  <2> QED BY <1>c, <2>1 DEF Kept
<1> QED BY <1>1, <1>2

(* What Counts counts is all a new row is up against. *)
LEMMA CountsAll ==
  ASSUME TypeOK, NEW r \in Requests, NEW b, NEW c
  PROVE  /\ Cardinality(Against(r, b, c)) <= Counts(r, b, c)
         /\ Cardinality(Against(r, b, c)) \in Nat /\ Counts(r, b, c) \in Nat
<1> DEFINE S == {i \in Requests : /\ Group(i, c.scope) = Group(r, c.scope)
                                  /\ row[i].status \in Counted(r)
                                  /\ InWindow(i, b, c)}
           T == Against(r, b, c)
<1>1. T \subseteq S
  <2> SUFFICES ASSUME NEW i \in T PROVE i \in S
    OBVIOUS
  <2>1. row[i] \in Row /\ i \in Requests /\ i \in Kept(r \in Shadow)
    BY DEF TypeOK, Row, Against, Kept
  <2>2. row[i].status \in Counted(r)
    BY <2>1 DEF Row, Statuses, Kept, Counted
  <2> QED BY <2>1, <2>2 DEF Against, InWindow
<1>2. S \subseteq Requests
  OBVIOUS
<1>3. Counts(r, b, c) = Cardinality(S)
  BY DEF Counts
<1> HIDE DEF S, T
<1>4. Cardinality(T) <= Cardinality(S) /\ Cardinality(T) \in Nat /\ Cardinality(S) \in Nat
  BY <1>1, <1>2, FewerOf, SetsFinite
<1> QED BY <1>3, <1>4 DEF T

(* A step that lets no kept row in leaves every cap and every count as good.  *)
LEMMA QuietKeepsCaps ==
  ASSUME CountsStand, AllWithin, NoMore, \A v \in Workers : Counting(v)
  PROVE  CountsStand' /\ AllWithin'
<1>1. CountsStand'
  BY StillStands DEF CountsStand
<1>2. AllWithin'
  BY NoMoreKeepsRoom, CapsAre DEF AllWithin
<1> QED BY <1>1, <1>2

LEMMA EndCounting ==
  ASSUME TypeOK, NEW w \in Workers, End(w), NEW v \in Workers
  PROVE  Counting(v) /\ (v = w => CountedFor(v)' = {})
<1>1. call'[w].step = "idle" /\ \A u \in Workers \ {w} : call'[u] = call[u]
  BY EndTypes
<1> QED BY <1>1 DEF Counting, CountedFor

(* A call still counting adds the cap it counted for. *)
LEMMA CountingKeepsCaps ==
  ASSUME Locking, CountsStand, AllWithin, NEW w \in Workers, CountCap(w),
         call[w].at \in DOMAIN Caps, call' = [call EXCEPT ![w].at = call[w].at + 1],
         Counts(Req(w), call[w].began, Caps[call[w].at]) < Caps[call[w].at].max
  PROVE  CountsStand' /\ AllWithin'
<1> DEFINE i == call[w].at
<1>c. call \in [Workers -> Call] /\ TypeOK
  BY DEF Locking, TypeOK, Call
<1>1. /\ call'[w].at = i + 1 /\ call'[w].step = call[w].step /\ call[w].step = "count"
      /\ call'[w].req = call[w].req /\ call'[w].began = call[w].began
      /\ \A v \in Workers \ {w} : call'[v] = call[v]
  BY <1>c DEF Call, CountCap
<1>2. row' = row /\ NoMore
  BY RowsSame DEF CountCap
<1>3. AllWithin'
  BY <1>2, NoMoreKeepsRoom, CapsAre DEF AllWithin
<1>4. CountsStand'
  <2> SUFFICES ASSUME NEW v \in Workers, NEW k \in CountedFor(v)'
               PROVE  Cardinality(Against(Req(v), call[v].began, Caps[k])') < Caps[k].max
    BY DEF CountsStand
  <2>1. Req(v)' = Req(v) /\ call'[v].began = call[v].began
    BY <1>1 DEF Req
  <2>2. Against(Req(v), call[v].began, Caps[k])' = Against(Req(v), call[v].began, Caps[k])
    BY <1>2, <2>1 DEF Against, Kept
  <2>3. k \in CountedFor(v) \/ (v = w /\ k = i)
    BY <1>1, <1>c, CapsAre DEF CountedFor, Call
  <2>4. CASE k \in CountedFor(v)
    BY <2>2, <2>4 DEF CountsStand
  <2>5. CASE v = w /\ k = i
    <3>1. call[w].step # "idle"
      BY <1>1
    <3>2. Req(w) \in Requests
      BY <1>c, <3>1, ReqIs DEF Locking
    <3>3. PICK r \in Requests, b \in {call[w].began} : r = Req(w)
      BY <3>2
    <3>4. /\ Cardinality(Against(r, b, Caps[k])) <= Counts(r, b, Caps[k])
          /\ Cardinality(Against(r, b, Caps[k])) \in Nat /\ Counts(r, b, Caps[k]) \in Nat
      BY <1>c, CountsAll
    <3>5. Counts(r, b, Caps[k]) < Caps[k].max /\ Caps[k].max \in Nat
      BY <2>5, <3>3, CapsAre
    <3>6. Cardinality(Against(r, b, Caps[k])) < Caps[k].max
      BY <3>4, <3>5
    <3> QED BY <2>2, <2>5, <3>3, <3>6
  <2> QED BY <2>3, <2>4, <2>5
<1> QED BY <1>3, <1>4

(* A job that is stored fits, and is nobody else's who counts in its groups:   *)
(* they would need its locks.                                                *)
LEMMA StoringKeepsCaps ==
  ASSUME Locking, CountsStand, AllWithin, NEW w \in Workers, Store(w)
  PROVE  CountsStand' /\ AllWithin'
<1>c. TypeOK /\ Asked /\ HasLocks /\ row \in [Requests -> Row] /\ call[w].began \in 0..MaxNow
  BY DEF Locking, TypeOK, Row
<1>1. End(w) /\ call[w].step = "store" /\ Req(w) \in Requests
  BY <1>c, ReqIs DEF Store
<1>2. CASE row' = row
  BY <1>1, <1>2, <1>c, RowsSame, QuietKeepsCaps, EndCounting
<1>3. CASE row' # row
  <2>1. PICK r \in Requests, b \in 0..MaxNow :
          r = Req(w) /\ b = call[w].began /\ Stores(r, b)
    BY <1>1, <1>3, <1>c DEF Store, Stores
  <2>2. \A k \in DOMAIN Caps : Cardinality(Against(r, b, Caps[k])) < Caps[k].max
    BY <1>1, <2>1 DEF CountsStand, CountedFor
  <2>3. AllWithin'
    BY <1>c, <2>1, <2>2, CapsAre, StoringFits DEF AllWithin
  <2>4. CountsStand'
    <3> SUFFICES ASSUME NEW v \in Workers, NEW k \in CountedFor(v)'
                 PROVE  Cardinality(Against(Req(v), call[v].began, Caps[k])') < Caps[k].max
      BY DEF CountsStand
    <3>1. v # w /\ k \in DOMAIN Caps
      BY <1>1, <1>c, EndCounting DEF CountedFor
    <3>2. call'[v] = call[v] /\ Req(v)' = Req(v)
      BY <1>1, <1>c, <3>1, EndTypes DEF Req
    <3>3. k \in CountedFor(v) /\ call[v].step \in {"count", "store"}
      BY <3>2 DEF CountedFor
    <3>4. Group(r, Caps[k].scope) # Group(Req(v), Caps[k].scope)
      <4>1. Caps[k].scope \in Scopes
        BY <3>1, CapsAre
      <4>2. /\ lock[Caps[k].scope][Group(r, Caps[k].scope)] = w
            /\ lock[Caps[k].scope][Group(Req(v), Caps[k].scope)] = v
        BY <1>1, <1>c, <2>1, <3>3, <4>1 DEF HasLocks, Past
      <4> QED BY <3>1, <4>2
    <3>5. /\ \A shadow \in BOOLEAN : Kept(shadow)' \subseteq Kept(shadow) \cup {r}
          /\ \A i \in Requests \ {r} : row'[i] = row[i]
          /\ \A shadow \in BOOLEAN : Kept(shadow) \subseteq Requests
      BY <1>c, <2>1, StoredIsKept
    <3>6. Against(Req(v), call[v].began, Caps[k])' \subseteq Against(Req(v), call[v].began, Caps[k])
      <4> SUFFICES ASSUME NEW i \in Against(Req(v), call[v].began, Caps[k])'
                   PROVE  i \in Against(Req(v), call[v].began, Caps[k])
        OBVIOUS
      <4>1. /\ i \in Kept(Req(v) \in Shadow)'
            /\ Group(i, Caps[k].scope) = Group(Req(v), Caps[k].scope)
            /\ row'[i].created > call[v].began - Caps[k].window
        BY <3>2 DEF Against, Group
      <4>2. i # r
        BY <3>4, <4>1
      <4>3. i \in Kept(Req(v) \in Shadow) /\ i \in Requests
        <5>1. (Req(v) \in Shadow) \in BOOLEAN /\ (Req(v) \in Shadow)' = (Req(v) \in Shadow)
          BY <3>2
        <5>2. PICK shadow \in BOOLEAN : shadow = (Req(v) \in Shadow)
          BY <5>1
        <5>3. i \in Kept(shadow)'
          BY <4>1, <5>1, <5>2 DEF Kept
        <5> QED BY <3>5, <4>2, <5>2, <5>3
      <4>4. row'[i] = row[i]
        BY <3>5, <4>2, <4>3
      <4> QED BY <4>1, <4>3, <4>4 DEF Against
    <3> DEFINE U == Against(Req(v), call[v].began, Caps[k])
               V == Against(Req(v), call[v].began, Caps[k])'
    <3>7. Cardinality(U) < Caps[k].max
      BY <3>3 DEF CountsStand
    <3>8. V \subseteq U /\ U \subseteq Requests
      BY <3>6 DEF Against, Kept
    <3> HIDE DEF U, V
    <3>9. /\ Cardinality(V) <= Cardinality(U) /\ Cardinality(V) \in Nat
          /\ Cardinality(U) \in Nat /\ Caps[k].max \in Nat
      BY <3>1, <3>8, FewerOf, SetsFinite, CapsAre
    <3>10. Cardinality(V) < Caps[k].max
      BY <3>7, <3>9
    <3> QED BY <3>10 DEF V
  <2> QED BY <2>3, <2>4
<1> QED BY <1>2, <1>3

LEMMA NextFromTheFirst == TypeOK /\ FromTheFirst /\ [Next]_vars => FromTheFirst'
<1> SUFFICES ASSUME TypeOK, FromTheFirst, [Next]_vars, NEW v \in Workers,
                    call'[v].step \in {"alert", "personAgent", "dup"}
             PROVE  call'[v].at = 1
  BY DEF FromTheFirst
<1>c. call \in [Workers -> Call]
  BY DEF TypeOK, Call
<1>1. ASSUME NEW w \in Workers, NEW r \in Requests, Begin(w, r) PROVE call'[v].at = 1
  BY <1>1, <1>c DEF Begin, FromTheFirst
<1>2. ASSUME NEW w \in Workers, Lock(w) PROVE call'[v].at = 1
  BY <1>2, <1>c DEF Lock, FromTheFirst, Scopes, Call
<1>3. ASSUME NEW w \in Workers, End(w) PROVE call'[v].at = 1
  BY <1>3, EndTypes DEF FromTheFirst
<1>4. ASSUME NEW w \in Workers, FindDuplicate(w), ~End(w) PROVE call'[v].at = 1
  BY <1>4, <1>c DEF FindDuplicate, FromTheFirst, Call
<1>5. ASSUME NEW w \in Workers, CountCap(w), ~End(w) PROVE call'[v].at = 1
  BY <1>5, <1>c DEF CountCap, FromTheFirst, Call
<1>6. CASE call' = call
  BY <1>6 DEF FromTheFirst
<1> QED BY <1>1, <1>2, <1>3, <1>4, <1>5, <1>6 DEF Next, Store, Abort, Enqueue, Move, Tick, vars

LEMMA NextCaps ==
  Locking /\ FromTheFirst /\ CountsStand /\ AllWithin /\ [Next]_vars => CountsStand' /\ AllWithin'
<1> SUFFICES ASSUME Locking, FromTheFirst, CountsStand, AllWithin, [Next]_vars
             PROVE  CountsStand' /\ AllWithin'
  OBVIOUS
<1>c. TypeOK /\ Asked /\ call \in [Workers -> Call]
  BY DEF Locking, TypeOK, Call
<1>1. ASSUME NEW w \in Workers, NEW r \in Requests, Begin(w, r) PROVE CountsStand' /\ AllWithin'
  <2>1. \A v \in Workers : Counting(v)
    BY <1>1, <1>c DEF Begin, Counting, CountedFor
  <2> QED BY <1>1, <2>1, RowsSame, QuietKeepsCaps DEF Begin
<1>2. ASSUME NEW w \in Workers, Lock(w) PROVE CountsStand' /\ AllWithin'
  <2>1. \A v \in Workers : Counting(v)
    BY <1>2, <1>c DEF Lock, Counting, CountedFor, Call
  <2> QED BY <1>2, <2>1, RowsSame, QuietKeepsCaps DEF Lock
<1>3. ASSUME NEW w \in Workers, FindDuplicate(w) PROVE CountsStand' /\ AllWithin'
  <2>1. ASSUME NEW v \in Workers PROVE Counting(v)
    <3>1. CASE End(w)
      BY <1>c, <3>1, EndCounting
    <3>2. CASE call' = [call EXCEPT ![w].step = "count"]
      <4>1. call[w].at = 1
        BY <1>3 DEF FindDuplicate, FromTheFirst
      <4>2. /\ call'[w].step = "count" /\ call'[w].at = 1
            /\ (v # w => call'[v] = call[v])
        BY <1>c, <3>2, <4>1 DEF Call
      <4>3. CASE v = w
        <5>1. CountedFor(v)' = {}
          BY <4>2, <4>3, CapsAre DEF CountedFor
        <5> QED BY <5>1 DEF Counting
      <4>4. CASE v # w
        BY <4>2, <4>4 DEF Counting, CountedFor
      <4> QED BY <4>3, <4>4
    <3> QED BY <1>3, <3>1, <3>2 DEF FindDuplicate
  <2> QED BY <1>3, <2>1, RowsSame, QuietKeepsCaps DEF FindDuplicate
<1>4. ASSUME NEW w \in Workers, CountCap(w) PROVE CountsStand' /\ AllWithin'
  <2>a. call[w].at \in 1..Len(Caps) + 1
    BY <1>c DEF Call
  <2>1. CASE End(w)
    BY <1>4, <1>c, <2>1, EndCounting, RowsSame, QuietKeepsCaps DEF CountCap
  <2>2. CASE call[w].at > Len(Caps) /\ call' = [call EXCEPT ![w].step = "store"]
    <3>1. /\ call[w].step = "count" /\ call'[w].step = "store" /\ call'[w].at = call[w].at
          /\ call'[w].req = call[w].req /\ call'[w].began = call[w].began
          /\ \A v \in Workers \ {w} : call'[v] = call[v]
      BY <1>4, <1>c, <2>2 DEF CountCap, Call
    <3>2. ASSUME NEW v \in Workers PROVE Counting(v)
      <4>1. CASE v = w
        BY <2>2, <2>a, <3>1, <4>1, CapsAre DEF Counting, CountedFor
      <4>2. CASE v # w
        BY <3>1, <4>2 DEF Counting, CountedFor
      <4> QED BY <4>1, <4>2
    <3> QED BY <1>4, <3>2, RowsSame, QuietKeepsCaps DEF CountCap
  <2>3. CASE /\ call[w].at <= Len(Caps) /\ call' = [call EXCEPT ![w].at = call[w].at + 1]
             /\ ~(Counts(Req(w), call[w].began, Caps[call[w].at]) >= Caps[call[w].at].max)
    <3>1. call[w].at \in DOMAIN Caps
      BY <2>3, <2>a, CapsAre
    <3>2. call[w].step # "idle"
      BY <1>4 DEF CountCap
    <3>3. Counts(Req(w), call[w].began, Caps[call[w].at]) < Caps[call[w].at].max
      <4>1. Req(w) \in Requests
        BY <1>c, <3>2, ReqIs
      <4>2. /\ Counts(Req(w), call[w].began, Caps[call[w].at]) \in Nat
            /\ Caps[call[w].at].max \in Nat
        BY <1>c, <3>1, <4>1, CapsAre, CountsAll
      <4> QED BY <2>3, <4>2
    <3> QED BY <1>4, <2>3, <3>1, <3>3, CountingKeepsCaps
  <2>4. call[w].at > Len(Caps) <=> ~(call[w].at <= Len(Caps))
    BY <2>a, CapsAre
  <2> QED BY <1>4, <2>1, <2>2, <2>3, <2>4 DEF CountCap
<1>5. ASSUME NEW w \in Workers, Store(w) PROVE CountsStand' /\ AllWithin'
  BY <1>5, StoringKeepsCaps
<1>6. ASSUME NEW w \in Workers, Abort(w) PROVE CountsStand' /\ AllWithin'
  BY <1>6, <1>c, EndCounting, RowsSame, QuietKeepsCaps DEF Abort
<1>7. ASSUME NEW r \in Requests, Enqueue(r) \/ Move(r) PROVE CountsStand' /\ AllWithin'
  <2>1. \A v \in Workers : Counting(v)
    BY <1>7 DEF Enqueue, Move, Counting, CountedFor
  <2> QED BY <1>7, <1>c, <2>1, RowsMove, QuietKeepsCaps
<1>8. ASSUME Tick \/ UNCHANGED vars PROVE CountsStand' /\ AllWithin'
  <2>1. \A v \in Workers : Counting(v)
    BY <1>8 DEF Tick, vars, Counting, CountedFor
  <2> QED BY <1>8, <2>1, RowsSame, QuietKeepsCaps DEF Tick, vars
<1> QED BY <1>1, <1>2, <1>3, <1>4, <1>5, <1>6, <1>7, <1>8 DEF Next

LEMMA InitCaps == Init => FromTheFirst /\ CountsStand /\ AllWithin
<1> SUFFICES ASSUME Init PROVE FromTheFirst /\ CountsStand /\ AllWithin
  OBVIOUS
<1>1. \A w \in Workers : CountedFor(w) = {} /\ call[w].at = 1
  BY DEF Init, NoCall, CountedFor
<1>2. \A shadow \in BOOLEAN : Kept(shadow) = {}
  BY DEF Init, NoRow, Kept
<1>3. AllWithin
  BY <1>2 DEF AllWithin, Within
<1> QED BY <1>1, <1>3 DEF CountsStand, FromTheFirst

-----------------------------------------------------------------------------
(* The theorems. *)

LEMMA CapsInvariance == Spec => []CapsIInv
<1>1. Init => CapsIInv
  BY InitTypes, InitLocking, InitCaps DEF CapsIInv, Locking
<1>2. CapsIInv /\ [Next]_vars => CapsIInv'
  <2>1. CapsIInv /\ [Next]_vars => TypeOK'
    BY NextTypes DEF CapsIInv, Locking
  <2>2. CapsIInv /\ [Next]_vars => Asked' /\ HasLocks' /\ OnlyCallers'
    BY NextLocking DEF CapsIInv, Locking
  <2>3. CapsIInv /\ [Next]_vars => FromTheFirst'
    BY NextFromTheFirst DEF CapsIInv, Locking
  <2>4. CapsIInv /\ [Next]_vars => CountsStand' /\ AllWithin'
    BY NextCaps DEF CapsIInv
  <2> QED BY <2>1, <2>2, <2>3, <2>4 DEF CapsIInv, Locking
<1> QED BY <1>1, <1>2, PTL DEF Spec

(* Every variable keeps its type, and a shadow request's job (Job.Shadow) is  *)
(* a shadow whatever happens to it.                                         *)
THEOREM JobCapsTypes == Spec => []TypeOK
<1>1. CapsIInv => TypeOK
  BY DEF CapsIInv, Locking
<1> QED BY <1>1, CapsInvariance, PTL

(* EnqueueCapped takes its advisory locks in one order, so that no two calls  *)
(* wait for each other, whoever asks for what.                              *)
THEOREM CallsTakeTurns == Spec => []NoCircle
<1>1. CapsIInv => NoCircle
  BY LockingIsNoCircle DEF CapsIInv
<1> QED BY <1>1, CapsInvariance, PTL

(* EnqueueCapped keeps every cap of an alert and of a person with an agent in *)
(* every stretch of its window, however many workers call it at once, while  *)
(* jobs are also stored without a cap, run, fail and are dropped.            *)
THEOREM CapsHold == Spec => []WithinCaps
<1>1. CapsIInv => WithinCaps
  <2>1. CapsIInv => AlertWithinCap /\ PersonAgentWithinCap
    BY DEF CapsIInv, AllWithin, AlertWithinCap, PersonAgentWithinCap
  <2> QED BY <2>1, LockingIsNoCircle DEF CapsIInv, Locking, WithinCaps
<1> QED BY <1>1, CapsInvariance, PTL

(***************************************************************************)
(* Learning: the inductive invariant.                                      *)
(***************************************************************************)
HeldValues == Values \cup {Learns!NoValue}
ItemType == [slot : Slots \cup {Learns!NoValue}, value : HeldValues, old : HeldValues, yes : BOOLEAN, doubt : BOOLEAN]
LearnType == [step : Learns!Steps, seen : [Slots -> HeldValues], left : Nat, questions : 0 .. MaxQuestions, item : ItemType]
LearnPastType == [other : [Exchanges -> SUBSET Slots], apart : SUBSET Slots, noes : SUBSET (Slots \X Values)]

LearnTypes ==
  /\ held \in [Slots -> HeldValues] /\ declined \in SUBSET (Slots \X Values)
  /\ learn \in [Exchanges -> LearnType] /\ edits \in 0 .. MaxEdits /\ learnPast \in LearnPastType

Deciding == {"propose", "asked", "refused", "write", "insert"}

\* What an exchange read is what is held, but for what others wrote since; what it is about to write was not held, or the
\* person said Yes to; and what was not held is the only name of its kind, unless the judge was in doubt.
Sound(e, l, h, o) ==
  /\ l.step \in Deciding \cup {"considering"} => \A s \in Learns!Reach(e) : l.seen[s] = h[s] \/ s \in o
  /\ l.step \in Deciding =>
       l.item.slot \in Learns!Reach(e) /\ l.item.value \in Values /\ l.item.old = l.seen[l.item.slot]
  /\ l.step \in {"propose", "asked", "refused"} => l.item.old # Learns!NoValue
  /\ l.step \in {"write", "insert"} =>
       /\ l.item.yes \/ l.item.old = Learns!NoValue
       /\ l.item.old = Learns!NoValue /\ ~l.item.doubt =>
            \A t \in Slots \ {l.item.slot} :
              Scope[t] = Scope[l.item.slot] /\ Kind[t] = Kind[l.item.slot] => l.seen[t] = Learns!NoValue

\* A refusal is kept as long as it counts, if its value has words.
RefusalsKept == \A n \in learnPast.noes : n \in declined \/ n[2] \in Wordless

LearnIInv ==
  /\ LearnTypes /\ RefusalsKept /\ Learns!NotTwice
  /\ \A e \in Exchanges : Sound(e, learn[e], held, learnPast.other[e])

(***************************************************************************)
(* Learning: every step keeps the invariant.                               *)
(***************************************************************************)
LEMMA LearnFacts ==
  /\ Learns!NoValue \notin Values /\ "hand" \notin Exchanges
  /\ MaxQuestions \in Nat /\ MaxEdits \in Nat /\ Proposals \in [Exchanges -> Nat]
BY KeptConstants DEF Learns!LearningConstants

LEMMA LearnInit == ASSUME Learns!Init PROVE LearnIInv
<1>1. LearnTypes
  BY LearnFacts DEF Learns!Init, LearnTypes, HeldValues, LearnType, ItemType, LearnPastType, Learns!Steps, Learns!NoItem,
                    Learns!Item
<1>2. RefusalsKept /\ Learns!NotTwice
  BY DEF Learns!Init, RefusalsKept, Learns!NotTwice
<1>3. \A e \in Exchanges : Sound(e, learn[e], held, learnPast.other[e])
  BY DEF Learns!Init, Sound, Deciding
<1> QED BY <1>1, <1>2, <1>3 DEF LearnIInv

\* What somebody else writes is noted for the exchange that did not see it.
LEMMA OthersWrite ==
  ASSUME NEW e, NEW l, NEW s \in Slots, NEW v, NEW h, NEW o, h = [t \in Slots |-> h[t]], Sound(e, l, h, o)
  PROVE  Sound(e, l, [h EXCEPT ![s] = v], o \cup {s})
<1>1. \A t \in Learns!Reach(e) : [h EXCEPT ![s] = v][t] = h[t] \/ t = s
  BY DEF Learns!Reach
<1> QED BY <1>1 DEF Sound

\* An exchange goes on, and nothing is written.
LEMMA LearnGoesOn ==
  ASSUME LearnIInv, NEW e \in Exchanges, NEW l \in LearnType, learn' = [learn EXCEPT ![e] = l],
         UNCHANGED <<held, declined, edits, learnPast>>, Sound(e, l, held, learnPast.other[e])
  PROVE  LearnIInv'
<1>1. LearnTypes'
  BY DEF LearnIInv, LearnTypes
<1>2. RefusalsKept' /\ Learns!NotTwice'
  BY DEF LearnIInv, RefusalsKept, Learns!NotTwice
<1>3. ASSUME NEW x \in Exchanges PROVE Sound(x, learn'[x], held', learnPast'.other[x])
  <2>1. CASE x = e
    <3>1. learn'[x] = l
      BY <2>1 DEF LearnIInv, LearnTypes
    <3> QED BY <2>1, <3>1
  <2>2. CASE x # e
    <3>1. learn'[x] = learn[x]
      BY <2>2 DEF LearnIInv, LearnTypes
    <3> QED BY <3>1 DEF LearnIInv
  <2> QED BY <2>1, <2>2
<1> QED BY <1>1, <1>2, <1>3 DEF LearnIInv

LEMMA QueuedKeeps == ASSUME LearnIInv, NEW e \in Exchanges, Learns!MaybeLearn(e) \/ Learns!Locks(e) PROVE LearnIInv'
<1>1. PICK step \in {"queued", "locked"} :
        learn' = [learn EXCEPT ![e].step = step] /\ UNCHANGED <<held, declined, edits, learnPast>>
  BY DEF Learns!MaybeLearn, Learns!Locks
<1> DEFINE l == [learn[e] EXCEPT !.step = step]
<1>2. learn' = [learn EXCEPT ![e] = l]
  BY <1>1
<1>3. l \in LearnType /\ l.step = step
  BY DEF LearnIInv, LearnTypes, LearnType, Learns!Steps
<1> HIDE DEF l
<1>4. Sound(e, l, held, learnPast.other[e])
  BY <1>3 DEF Sound, Deciding
<1> QED BY <1>1, <1>2, <1>3, <1>4, LearnGoesOn

\* What is read is what is held; nothing was written since.
LEMMA ReadsKeeps == ASSUME LearnIInv, NEW e \in Exchanges, Learns!Reads(e) PROVE LearnIInv'
<1> DEFINE read == [s \in Slots |-> IF s \in Learns!Reach(e) THEN held[s] ELSE Learns!NoValue]
<1>1. PICK n \in 0 .. Proposals[e] :
        learn' = [learn EXCEPT ![e].step = "considering", ![e].left = n, ![e].seen = read]
  BY DEF Learns!Reads
<1>2. learnPast' = [learnPast EXCEPT !.other[e] = {}] /\ UNCHANGED <<held, declined, edits>>
  BY DEF Learns!Reads
<1> DEFINE l == [learn[e] EXCEPT !.step = "considering", !.left = n, !.seen = read]
<1>3. learn' = [learn EXCEPT ![e] = l]
  BY <1>1
<1>4. read \in [Slots -> HeldValues] /\ n \in Nat
  BY LearnFacts DEF LearnIInv, LearnTypes, HeldValues
<1>5. \A s \in Learns!Reach(e) : read[s] = held[s]
  BY DEF Learns!Reach
<1> HIDE DEF read
<1>6. l \in LearnType /\ l.step = "considering" /\ l.seen = read
  BY <1>4 DEF LearnIInv, LearnTypes, LearnType, Learns!Steps
<1> HIDE DEF l
<1>7. Sound(e, l, held, {})
  BY <1>5, <1>6 DEF Sound, Deciding
<1>8. /\ learnPast' \in LearnPastType /\ learnPast'.noes = learnPast.noes /\ learnPast'.apart = learnPast.apart
      /\ learnPast'.other = [learnPast.other EXCEPT ![e] = {}]
  BY <1>2 DEF LearnIInv, LearnTypes, LearnPastType
<1>9. LearnTypes'
  BY <1>2, <1>3, <1>6, <1>8 DEF LearnIInv, LearnTypes
<1>10. RefusalsKept' /\ Learns!NotTwice'
  BY <1>2, <1>8 DEF LearnIInv, RefusalsKept, Learns!NotTwice
<1>11. ASSUME NEW x \in Exchanges PROVE Sound(x, learn'[x], held', learnPast'.other[x])
  <2>1. CASE x = e
    <3>1. learn'[x] = l /\ learnPast'.other[x] = {}
      BY <1>3, <1>8, <2>1 DEF LearnIInv, LearnTypes, LearnPastType
    <3> QED BY <1>2, <1>7, <2>1, <3>1
  <2>2. CASE x # e
    <3>1. learn'[x] = learn[x] /\ learnPast'.other[x] = learnPast.other[x]
      BY <1>3, <1>8, <2>2 DEF LearnIInv, LearnTypes, LearnPastType
    <3> QED BY <1>2, <3>1 DEF LearnIInv
  <2> QED BY <2>1, <2>2
<1> QED BY <1>9, <1>10, <1>11 DEF LearnIInv

DoneLearning == [step |-> "done", seen |-> [s \in Slots |-> Learns!NoValue], left |-> 0, questions |-> 0, item |-> Learns!NoItem]

LEMMA DoneIsSound == DoneLearning \in LearnType /\ \A e, h, o : Sound(e, DoneLearning, h, o)
<1>1. DoneLearning \in LearnType
  BY LearnFacts DEF DoneLearning, LearnType, HeldValues, ItemType, Learns!Steps, Learns!NoItem, Learns!Item
<1>2. DoneLearning.step = "done"
  BY DEF DoneLearning
<1> HIDE DEF DoneLearning
<1> QED BY <1>1, <1>2 DEF Sound, Deciding

LEMMA EndsKeeps == ASSUME LearnIInv, NEW e \in Exchanges, Learns!Ends(e) PROVE LearnIInv'
<1>1. learn' = [learn EXCEPT ![e] = DoneLearning] /\ learnPast' = [learnPast EXCEPT !.other[e] = {}]
      /\ UNCHANGED <<held, declined, edits>>
  BY DEF Learns!Ends, DoneLearning
<1>2. /\ learnPast' \in LearnPastType /\ learnPast'.noes = learnPast.noes /\ learnPast'.apart = learnPast.apart
      /\ learnPast'.other = [learnPast.other EXCEPT ![e] = {}]
  BY <1>1 DEF LearnIInv, LearnTypes, LearnPastType
<1>3. LearnTypes'
  BY <1>1, <1>2, DoneIsSound DEF LearnIInv, LearnTypes
<1>4. RefusalsKept' /\ Learns!NotTwice'
  BY <1>1, <1>2 DEF LearnIInv, RefusalsKept, Learns!NotTwice
<1>5. ASSUME NEW x \in Exchanges PROVE Sound(x, learn'[x], held', learnPast'.other[x])
  <2>1. CASE x = e
    <3>1. learn'[x] = DoneLearning
      BY <1>1, <2>1 DEF LearnIInv, LearnTypes
    <3> QED BY <3>1, DoneIsSound
  <2>2. CASE x # e
    <3>1. learn'[x] = learn[x] /\ learnPast'.other[x] = learnPast.other[x]
      BY <1>1, <1>2, <2>2 DEF LearnIInv, LearnTypes, LearnPastType
    <3> QED BY <1>1, <3>1 DEF LearnIInv
  <2> QED BY <2>1, <2>2
<1> QED BY <1>3, <1>4, <1>5 DEF LearnIInv

\* Whatever is about to be written was considered as this: of what was read, new, or a change to be asked about.
LEMMA ConsidersKeeps ==
  ASSUME LearnIInv, NEW e \in Exchanges, NEW s \in Slots, NEW v \in Values, Learns!Considers(e, s, v)
  PROVE  LearnIInv'
<1> DEFINE left == learn[e].left - 1
<1>1. /\ learn[e].step = "considering" /\ learn[e].left > 0 /\ s \in Learns!Reach(e)
      /\ UNCHANGED <<held, declined, edits, learnPast>>
  BY DEF Learns!Considers
<1>2. learn[e] \in LearnType /\ left \in Nat
  BY <1>1 DEF LearnIInv, LearnTypes, LearnType
<1>3. Sound(e, learn[e], held, learnPast.other[e])
  BY DEF LearnIInv
<1>4. CASE Learns!Skips(e)
  <2> DEFINE l == [learn[e] EXCEPT !.left = left]
  <2>1. learn' = [learn EXCEPT ![e] = l]
    BY <1>4 DEF Learns!Skips
  <2> HIDE DEF left
  <2>2. l \in LearnType /\ l.step = "considering" /\ l.seen = learn[e].seen
    BY <1>1, <1>2 DEF LearnType
  <2> HIDE DEF l
  <2>3. Sound(e, l, held, learnPast.other[e])
    BY <1>1, <1>3, <2>2 DEF Sound, Deciding
  <2> QED BY <1>1, <2>1, <2>2, <2>3, LearnGoesOn
<1>5. ASSUME NEW k \in Learns!Taken(e, s), Learns!LearnsNew(e, s, k, v) PROVE LearnIInv'
  <2> DEFINE doubt == \E x \in Learns!SeenIn(e, Scope[s]) : Kind[x] = Kind[k]
             q == Learns!Item(k, v, Learns!NoValue, FALSE, doubt)
             l == [learn[e] EXCEPT !.step = "write", !.left = left, !.item = q]
  <2>1. learn' = [learn EXCEPT ![e] = l] /\ learn[e].seen[k] = Learns!NoValue
    BY <1>5 DEF Learns!LearnsNew
  <2>2. k = s
    BY <1>5, <2>1 DEF Learns!Taken, Learns!SeenIn
  <2>3. q \in ItemType /\ q.slot = s /\ q.value = v /\ q.old = Learns!NoValue /\ q.doubt = doubt
    BY <2>2 DEF Learns!Item, ItemType, HeldValues
  <2>4. ASSUME ~doubt, NEW t \in Slots \ {s}, Scope[t] = Scope[s], Kind[t] = Kind[s] PROVE learn[e].seen[t] = Learns!NoValue
    <3>1. t \in Learns!Reach(e)
      BY <1>1, <2>4 DEF Learns!Reach
    <3> QED BY <2>2, <2>4, <3>1 DEF Learns!SeenIn
  <2> HIDE DEF q, left, doubt
  <2>5. l \in LearnType /\ l.step = "write" /\ l.seen = learn[e].seen /\ l.item = q
    BY <1>2, <2>3 DEF LearnType, Learns!Steps
  <2> HIDE DEF l
  <2>6. Sound(e, l, held, learnPast.other[e])
    BY <1>1, <1>3, <2>1, <2>2, <2>3, <2>4, <2>5 DEF Sound, Deciding
  <2> QED BY <1>1, <2>1, <2>5, <2>6, LearnGoesOn
<1>6. ASSUME NEW k \in Learns!Taken(e, s), NEW unknown \in BOOLEAN, Learns!ProposesChange(e, k, v, unknown) PROVE LearnIInv'
  <2> DEFINE q == Learns!Item(k, v, learn[e].seen[k], FALSE, unknown)
             l == [learn[e] EXCEPT !.step = "propose", !.left = left, !.item = q]
  <2>1. learn' = [learn EXCEPT ![e] = l] /\ learn[e].seen[k] # Learns!NoValue
    BY <1>6 DEF Learns!ProposesChange
  <2>2. k \in Learns!Reach(e) /\ k \in Slots
    BY <1>1, <1>6 DEF Learns!Taken, Learns!SeenIn, Learns!Reach
  <2>3. q \in ItemType /\ q.slot = k /\ q.value = v /\ q.old = learn[e].seen[k]
    BY <1>2, <2>2 DEF Learns!Item, ItemType, HeldValues, LearnType
  <2> HIDE DEF q, left
  <2>4. l \in LearnType /\ l.step = "propose" /\ l.seen = learn[e].seen /\ l.item = q
    BY <1>2, <2>3 DEF LearnType, Learns!Steps
  <2> HIDE DEF l
  <2>5. Sound(e, l, held, learnPast.other[e])
    BY <1>1, <1>3, <2>1, <2>2, <2>3, <2>4 DEF Sound, Deciding
  <2> QED BY <1>1, <2>1, <2>4, <2>5, LearnGoesOn
<1> QED BY <1>4, <1>5, <1>6 DEF Learns!Considers

\* The question is asked or not, answered or not; what was proposed stays as it is.
LEMMA AskedKeeps ==
  ASSUME LearnIInv, NEW e \in Exchanges,
         Learns!Asks(e) \/ (\E step \in {"write", "refused", "considering"} : Learns!Answers(e, step)) \/ Learns!Counts(e)
  PROVE  LearnIInv'
<1>1. /\ learn[e] \in LearnType /\ Sound(e, learn[e], held, learnPast.other[e]) /\ learn[e].step \in Deciding
      /\ UNCHANGED <<held, declined, edits, learnPast>>
  BY DEF LearnIInv, LearnTypes, Learns!Asks, Learns!Answers, Learns!Counts, Deciding
<1>2. ASSUME learn' = [learn EXCEPT ![e].step = "considering", ![e].item = Learns!NoItem] PROVE LearnIInv'
  <2> DEFINE l == [learn[e] EXCEPT !.step = "considering", !.item = Learns!NoItem]
  <2>1. Learns!NoItem \in ItemType
    BY DEF Learns!NoItem, Learns!Item, ItemType, HeldValues
  <2>2. l \in LearnType /\ l.step = "considering" /\ l.seen = learn[e].seen
    BY <1>1, <2>1 DEF LearnType, Learns!Steps
  <2>3. learn' = [learn EXCEPT ![e] = l]
    BY <1>2
  <2> HIDE DEF l
  <2>4. Sound(e, l, held, learnPast.other[e])
    BY <1>1, <2>2 DEF Sound, Deciding
  <2> QED BY <1>1, <2>2, <2>3, <2>4, LearnGoesOn
<1>3. ASSUME learn[e].step = "propose", learn[e].questions < MaxQuestions,
             learn' = [learn EXCEPT ![e].step = "asked", ![e].questions = @ + 1]
      PROVE  LearnIInv'
  <2> DEFINE asked == learn[e].questions + 1
             l == [learn[e] EXCEPT !.step = "asked", !.questions = asked]
  <2>1. asked \in 0 .. MaxQuestions
    BY <1>1, <1>3, LearnFacts DEF LearnType
  <2>2. learn' = [learn EXCEPT ![e] = l]
    BY <1>3
  <2> HIDE DEF asked
  <2>3. l \in LearnType /\ l.step = "asked" /\ l.seen = learn[e].seen /\ l.item = learn[e].item
    BY <1>1, <2>1 DEF LearnType, Learns!Steps
  <2> HIDE DEF l
  <2>4. Sound(e, l, held, learnPast.other[e])
    BY <1>1, <1>3, <2>3 DEF Sound, Deciding
  <2> QED BY <1>1, <2>2, <2>3, <2>4, LearnGoesOn
<1>4. ASSUME learn[e].step = "asked", NEW step \in {"write", "refused"},
             learn' = [learn EXCEPT ![e].step = step, ![e].item = [@ EXCEPT !.yes = step = "write"]]
      PROVE  LearnIInv'
  <2> DEFINE q == [learn[e].item EXCEPT !.yes = step = "write"]
             l == [learn[e] EXCEPT !.step = step, !.item = q]
  <2>1. /\ q \in ItemType /\ q.slot = learn[e].item.slot /\ q.value = learn[e].item.value /\ q.old = learn[e].item.old
        /\ q.yes = (step = "write")
    BY <1>1 DEF LearnType, ItemType
  <2>2. learn' = [learn EXCEPT ![e] = l]
    BY <1>4
  <2> HIDE DEF q
  <2>3. l \in LearnType /\ l.step = step /\ l.seen = learn[e].seen /\ l.item = q
    BY <1>1, <2>1 DEF LearnType, Learns!Steps
  <2> HIDE DEF l
  <2>4. Sound(e, l, held, learnPast.other[e])
    BY <1>1, <1>4, <2>1, <2>3 DEF Sound, Deciding
  <2> QED BY <1>1, <2>2, <2>3, <2>4, LearnGoesOn
<1>5. ASSUME learn[e].step = "write", learn' = [learn EXCEPT ![e].step = "insert"] PROVE LearnIInv'
  <2> DEFINE l == [learn[e] EXCEPT !.step = "insert"]
  <2>1. learn' = [learn EXCEPT ![e] = l]
    BY <1>5
  <2>2. l \in LearnType /\ l.step = "insert" /\ l.seen = learn[e].seen /\ l.item = learn[e].item
    BY <1>1 DEF LearnType, Learns!Steps
  <2> HIDE DEF l
  <2>3. Sound(e, l, held, learnPast.other[e])
    BY <1>1, <1>5, <2>2 DEF Sound, Deciding
  <2> QED BY <1>1, <2>1, <2>2, <2>3, LearnGoesOn
<1>6. CASE Learns!Asks(e)
  BY <1>2, <1>3, <1>6 DEF Learns!Asks
<1>7. ASSUME NEW step \in {"write", "refused", "considering"}, Learns!Answers(e, step) PROVE LearnIInv'
  <2>1. CASE step = "considering"
    BY <1>2, <1>7, <2>1 DEF Learns!Answers
  <2>2. CASE step # "considering"
    BY <1>4, <1>7, <2>2 DEF Learns!Answers
  <2> QED BY <2>1, <2>2
<1>8. CASE Learns!Counts(e)
  BY <1>2, <1>5, <1>8 DEF Learns!Counts
<1> QED BY <1>6, <1>7, <1>8

\* A refusal is kept when it counts, unless it has no words.
LEMMA DeclinesKeeps == ASSUME LearnIInv, NEW e \in Exchanges, Learns!Declines(e) PROVE LearnIInv'
<1> DEFINE q == learn[e].item
           l == [learn[e] EXCEPT !.step = "considering", !.item = Learns!NoItem]
<1>1. /\ learn[e].step = "refused" /\ learn' = [learn EXCEPT ![e] = l] /\ UNCHANGED <<held, edits>>
      /\ \/ /\ declined' = IF q.value \in Wordless THEN declined ELSE declined \cup Learns!Refusal(q)
            /\ learnPast' = [learnPast EXCEPT !.noes = @ \cup {<<q.slot, q.value>>}]
         \/ UNCHANGED <<declined, learnPast>>
  BY DEF Learns!Declines
<1>2. learn[e] \in LearnType /\ Sound(e, learn[e], held, learnPast.other[e])
  BY DEF LearnIInv, LearnTypes
<1>3. q.slot \in Slots /\ q.value \in Values
  BY <1>1, <1>2 DEF Sound, Deciding, Learns!Reach
<1>4. Learns!NoItem \in ItemType
  BY DEF Learns!NoItem, Learns!Item, ItemType, HeldValues
<1>5. l \in LearnType /\ l.step = "considering" /\ l.seen = learn[e].seen
  BY <1>2, <1>4 DEF LearnType, Learns!Steps
<1> HIDE DEF l, q
<1>6. Sound(e, l, held, learnPast.other[e])
  BY <1>1, <1>2, <1>5 DEF Sound, Deciding
<1>7. CASE UNCHANGED <<declined, learnPast>>
  BY <1>1, <1>5, <1>6, <1>7, LearnGoesOn
<1>8. CASE /\ declined' = IF q.value \in Wordless THEN declined ELSE declined \cup Learns!Refusal(q)
           /\ learnPast' = [learnPast EXCEPT !.noes = @ \cup {<<q.slot, q.value>>}]
  <2>1. /\ learnPast' \in LearnPastType /\ learnPast'.noes = learnPast.noes \cup {<<q.slot, q.value>>}
        /\ learnPast'.apart = learnPast.apart /\ learnPast'.other = learnPast.other
    BY <1>3, <1>8 DEF LearnIInv, LearnTypes, LearnPastType
  <2>2. declined' \in SUBSET (Slots \X Values)
    BY <1>3, <1>8 DEF LearnIInv, LearnTypes, Learns!Refusal
  <2>3. LearnTypes'
    BY <1>1, <1>5, <2>1, <2>2 DEF LearnIInv, LearnTypes
  <2>4. RefusalsKept'
    BY <1>8, <2>1 DEF LearnIInv, RefusalsKept, Learns!Refusal
  <2>5. Learns!NotTwice'
    BY <1>1, <2>1 DEF LearnIInv, Learns!NotTwice
  <2>6. ASSUME NEW x \in Exchanges PROVE Sound(x, learn'[x], held', learnPast'.other[x])
    <3>1. learn'[x] = IF x = e THEN l ELSE learn[x]
      BY <1>1 DEF LearnIInv, LearnTypes
    <3> QED BY <1>1, <1>6, <2>1, <3>1 DEF LearnIInv
  <2> QED BY <2>3, <2>4, <2>5, <2>6 DEF LearnIInv
<1> QED BY <1>1, <1>7, <1>8

\* Every other name of the kind that is held may be one of two.
OthersApart(s) ==
  \A t \in Slots \ {s} :
    Scope[t] = Scope[s] /\ Kind[t] = Kind[s] /\ held[t] # Learns!NoValue => {s, t} \cap learnPast.apart # {}

\* A write, by an exchange or by hand: everybody else notes it.
LEMMA WriteKeeps ==
  ASSUME LearnIInv, NEW s \in Slots, NEW v \in HeldValues, NEW writer, NEW apart \in BOOLEAN, NEW n \in 0 .. MaxEdits,
         held' = [held EXCEPT ![s] = v], learnPast' = Learns!Noted(writer, s, apart), declined' = declined, edits' = n,
         NEW l \in [Exchanges -> LearnType], learn' = l,
         \A x \in Exchanges \ {writer} : l[x] = learn[x],
         writer \in Exchanges => Sound(writer, l[writer], [held EXCEPT ![s] = v], learnPast.other[writer]),
         apart \/ OthersApart(s)
  PROVE  LearnIInv'
<1> DEFINE other == [x \in Exchanges |-> IF x = writer THEN learnPast.other[x] ELSE learnPast.other[x] \cup {s}]
           split == IF apart THEN learnPast.apart \cup {s} ELSE learnPast.apart
<1>1. /\ learnPast' \in LearnPastType /\ learnPast'.noes = learnPast.noes
      /\ learnPast'.apart = split /\ learnPast'.other = other
  <2>1. learnPast' = [learnPast EXCEPT !.other = other, !.apart = split]
    BY DEF Learns!Noted
  <2>2. other \in [Exchanges -> SUBSET Slots] /\ split \in SUBSET Slots
    BY DEF LearnIInv, LearnTypes, LearnPastType
  <2> HIDE DEF other, split
  <2> QED BY <2>1, <2>2 DEF LearnIInv, LearnTypes, LearnPastType
<1>2. LearnTypes'
  BY <1>1 DEF LearnIInv, LearnTypes
<1>3. RefusalsKept'
  BY <1>1 DEF LearnIInv, RefusalsKept
<1>4. Learns!NotTwice'
  <2> SUFFICES ASSUME NEW a \in Slots, NEW b \in Slots, a # b, Scope[a] = Scope[b], Kind[a] = Kind[b],
                      held'[a] # Learns!NoValue, held'[b] # Learns!NoValue
               PROVE  {a, b} \cap split # {}
    BY <1>1 DEF Learns!NotTwice
  <2>1. \A t \in Slots : held'[t] = IF t = s THEN v ELSE held[t]
    BY DEF LearnIInv, LearnTypes
  <2>2. learnPast.apart \subseteq split /\ (apart => s \in split)
    OBVIOUS
  <2> HIDE DEF split
  <2>3. CASE a # s /\ b # s
    <3>1. {a, b} \cap learnPast.apart # {}
      BY <2>1, <2>3 DEF LearnIInv, Learns!NotTwice
    <3> QED BY <2>2, <3>1
  <2>4. CASE a = s
    BY <2>1, <2>2, <2>4 DEF OthersApart
  <2>5. CASE b = s
    BY <2>1, <2>2, <2>5 DEF OthersApart
  <2> QED BY <2>3, <2>4, <2>5
<1>5. ASSUME NEW x \in Exchanges PROVE Sound(x, learn'[x], held', learnPast'.other[x])
  <2>1. CASE x = writer
    <3>1. learnPast'.other[x] = learnPast.other[x]
      BY <1>1, <2>1
    <3> QED BY <2>1, <3>1
  <2>2. CASE x # writer
    <3>1. learnPast'.other[x] = learnPast.other[x] \cup {s} /\ learn'[x] = learn[x]
      BY <1>1, <2>2
    <3>2. Sound(x, learn[x], held, learnPast.other[x]) /\ held = [t \in Slots |-> held[t]]
      BY DEF LearnIInv, LearnTypes
    <3>3. Sound(x, learn[x], [held EXCEPT ![s] = v], learnPast.other[x] \cup {s})
      BY <3>2, OthersWrite
    <3> QED BY <3>1, <3>3
  <2> QED BY <2>1, <2>2
<1> QED BY <1>2, <1>3, <1>4, <1>5 DEF LearnIInv

LEMMA InsertsKeeps == ASSUME LearnIInv, NEW e \in Exchanges, Learns!Inserts(e) PROVE LearnIInv'
<1> DEFINE q == learn[e].item
           written == [learn[e].seen EXCEPT ![q.slot] = q.value]
           apart == q.doubt \/ learnPast.other[e] # {}
<1>1. learn[e].step = "insert" /\ declined' = declined /\ edits' = edits
  BY DEF Learns!Inserts
<1>2. \/ /\ held' = [held EXCEPT ![q.slot] = q.value] /\ learnPast' = Learns!Noted(e, q.slot, apart)
         /\ learn' = [learn EXCEPT ![e].step = "considering", ![e].item = Learns!NoItem, ![e].seen = written]
      \/ /\ learn' = [learn EXCEPT ![e].step = "considering", ![e].item = Learns!NoItem] /\ UNCHANGED <<held, learnPast>>
  BY DEF Learns!Inserts, Learns!Put
<1>3. learn[e] \in LearnType /\ Sound(e, learn[e], held, learnPast.other[e])
  BY DEF LearnIInv, LearnTypes
<1>4. q.slot \in Slots /\ q.value \in Values /\ q \in ItemType /\ q.old = learn[e].seen[q.slot] /\ q.slot \in Learns!Reach(e)
  BY <1>1, <1>3 DEF Sound, Deciding, Learns!Reach, LearnType
<1>5. Learns!NoItem \in ItemType
  BY DEF Learns!NoItem, Learns!Item, ItemType, HeldValues
<1>6. CASE learn' = [learn EXCEPT ![e].step = "considering", ![e].item = Learns!NoItem] /\ UNCHANGED <<held, learnPast>>
  <2> DEFINE l == [learn[e] EXCEPT !.step = "considering", !.item = Learns!NoItem]
  <2>1. learn' = [learn EXCEPT ![e] = l]
    BY <1>6
  <2>2. l \in LearnType /\ l.step = "considering" /\ l.seen = learn[e].seen
    BY <1>3, <1>5 DEF LearnType, Learns!Steps
  <2> HIDE DEF l
  <2>3. Sound(e, l, held, learnPast.other[e])
    BY <1>1, <1>3, <2>2 DEF Sound, Deciding
  <2> QED BY <1>1, <1>6, <2>1, <2>2, <2>3, LearnGoesOn
<1>7. CASE /\ held' = [held EXCEPT ![q.slot] = q.value] /\ learnPast' = Learns!Noted(e, q.slot, apart)
           /\ learn' = [learn EXCEPT ![e].step = "considering", ![e].item = Learns!NoItem, ![e].seen = written]
  <2> DEFINE l == [learn[e] EXCEPT !.step = "considering", !.item = Learns!NoItem, !.seen = written]
             ls == [learn EXCEPT ![e] = l]
  <2>1. learn' = ls
    BY <1>7
  <2>2. written \in [Slots -> HeldValues] /\ \A t \in Slots : written[t] = IF t = q.slot THEN q.value ELSE learn[e].seen[t]
    BY <1>3, <1>4 DEF LearnType, HeldValues
  <2> HIDE DEF written
  <2>3. l \in LearnType /\ l.step = "considering" /\ l.seen = written
    BY <1>3, <1>5, <2>2 DEF LearnType, Learns!Steps
  <2> HIDE DEF l
  <2>4. ls \in [Exchanges -> LearnType] /\ ls[e] = l /\ \A x \in Exchanges \ {e} : ls[x] = learn[x]
    BY <2>3 DEF LearnIInv, LearnTypes
  <2> HIDE DEF ls
  <2>5. \A t \in Slots : [held EXCEPT ![q.slot] = q.value][t] = IF t = q.slot THEN q.value ELSE held[t]
    BY DEF LearnIInv, LearnTypes
  <2>6. Learns!Reach(e) \subseteq Slots
    BY DEF Learns!Reach
  <2>7. \A t \in Learns!Reach(e) : learn[e].seen[t] = held[t] \/ t \in learnPast.other[e]
    BY <1>1, <1>3 DEF Sound, Deciding
  <2>8. Sound(e, l, [held EXCEPT ![q.slot] = q.value], learnPast.other[e])
    BY <2>2, <2>3, <2>5, <2>6, <2>7 DEF Sound, Deciding
  <2>9. ASSUME ~apart PROVE OthersApart(q.slot)
    <3> SUFFICES ASSUME NEW t \in Slots \ {q.slot}, Scope[t] = Scope[q.slot], Kind[t] = Kind[q.slot], held[t] # Learns!NoValue
                 PROVE  {q.slot, t} \cap learnPast.apart # {}
      BY DEF OthersApart
    <3>1. t \in Learns!Reach(e)
      BY <1>4 DEF Learns!Reach
    <3>2. learn[e].seen[t] = held[t] /\ learn[e].seen[q.slot] = held[q.slot]
      BY <1>4, <2>7, <2>9, <3>1
    <3>3. q.old # Learns!NoValue
      BY <1>1, <1>3, <2>9, <3>2 DEF Sound
    <3>4. held[q.slot] # Learns!NoValue
      BY <1>4, <3>2, <3>3
    <3> QED BY <1>4, <3>4 DEF LearnIInv, Learns!NotTwice
  <2>10. apart \in BOOLEAN
    BY <1>4 DEF ItemType
  <2>11. edits \in 0 .. MaxEdits /\ q.value \in HeldValues
    BY <1>4 DEF LearnIInv, LearnTypes, HeldValues
  <2> HIDE DEF q, apart
  <2> QED BY <1>1, <1>4, <1>7, <2>1, <2>4, <2>8, <2>9, <2>10, <2>11, WriteKeeps
<1> QED BY <1>2, <1>6, <1>7

LEMMA EditsKeeps ==
  ASSUME LearnIInv, NEW s \in Slots, NEW v \in Values \cup {Learns!NoValue}, Learns!EditsByHand(s, v)
  PROVE  LearnIInv'
<1>1. /\ held' = [held EXCEPT ![s] = v] /\ learnPast' = Learns!Noted("hand", s, TRUE) /\ edits' = edits + 1
      /\ edits < MaxEdits /\ UNCHANGED <<declined, learn>>
  BY DEF Learns!EditsByHand
<1>2. edits + 1 \in 0 .. MaxEdits
  BY <1>1, LearnFacts DEF LearnIInv, LearnTypes
<1>3. v \in HeldValues /\ learn \in [Exchanges -> LearnType]
  BY DEF HeldValues, LearnIInv, LearnTypes
<1> QED BY <1>1, <1>2, <1>3, LearnFacts, WriteKeeps

LEMMA OutdatedKeeps == ASSUME LearnIInv, NEW s \in Slots, NEW v \in Values, Learns!Outdated(s, v) PROVE LearnIInv'
<1>1. /\ declined' = declined \ {<<s, v>>} /\ learnPast' = [learnPast EXCEPT !.noes = @ \ {<<s, v>>}]
      /\ UNCHANGED <<held, learn, edits>>
  BY DEF Learns!Outdated
<1>2. /\ learnPast' \in LearnPastType /\ learnPast'.noes = learnPast.noes \ {<<s, v>>}
      /\ learnPast'.apart = learnPast.apart /\ learnPast'.other = learnPast.other
  BY <1>1 DEF LearnIInv, LearnTypes, LearnPastType
<1>3. LearnTypes'
  BY <1>1, <1>2 DEF LearnIInv, LearnTypes
<1>4. RefusalsKept'
  BY <1>1, <1>2 DEF LearnIInv, RefusalsKept
<1>5. Learns!NotTwice' /\ \A x \in Exchanges : Sound(x, learn'[x], held', learnPast'.other[x])
  BY <1>1, <1>2 DEF LearnIInv, Learns!NotTwice
<1> QED BY <1>3, <1>4, <1>5 DEF LearnIInv

\* What a server that restarts was learning is gone, and nothing of it is written.
LEMMA RestartsKeeps == ASSUME LearnIInv, NEW x, Learns!Restarts(x) PROVE LearnIInv'
<1>1. /\ UNCHANGED <<held, declined, edits, learnPast>>
      /\ learn' = [e \in Exchanges |-> IF Server[e] = x /\ learn[e].step # "none" THEN DoneLearning ELSE learn[e]]
  BY DEF Learns!Restarts, DoneLearning
<1>2. LearnTypes'
  BY <1>1, DoneIsSound DEF LearnIInv, LearnTypes
<1>3. RefusalsKept' /\ Learns!NotTwice'
  BY <1>1 DEF LearnIInv, RefusalsKept, Learns!NotTwice
<1>4. ASSUME NEW e \in Exchanges PROVE Sound(e, learn'[e], held', learnPast'.other[e])
  BY <1>1, DoneIsSound DEF LearnIInv
<1> QED BY <1>2, <1>3, <1>4 DEF LearnIInv

LEMMA LearnStep == ASSUME LearnIInv, [Learns!Next]_(Learns!vars) PROVE LearnIInv'
<1>1. CASE UNCHANGED Learns!vars
  BY <1>1 DEF Learns!vars, LearnIInv, LearnTypes, RefusalsKept, Learns!NotTwice
<1>2. CASE Learns!Next
  BY <1>2, QueuedKeeps, ReadsKeeps, EndsKeeps, ConsidersKeeps, AskedKeeps, DeclinesKeeps, InsertsKeeps, EditsKeeps,
     OutdatedKeeps, RestartsKeeps DEF Learns!Next, Learns!Learn
<1> QED BY <1>1, <1>2

LearnKept == part = "learning" => LearnIInv

LEMMA LearnInvariance == KeptSpec => []LearnKept
<1>1. KeptInit => LearnKept
  BY LearnInit DEF KeptInit, LearnKept
<1>2. LearnKept /\ [KeptNext]_keptVars => LearnKept'
  <2> SUFFICES ASSUME LearnKept, [KeptNext]_keptVars, part' = "learning" PROVE LearnIInv'
    BY DEF LearnKept
  <2>1. part' = part
    BY DEF KeptNext, keptVars
  <2>2. [Learns!Next]_(Learns!vars)
    BY <2>1 DEF KeptNext, keptVars, learningVars, Learns!vars
  <2> QED BY <2>1, <2>2, LearnStep DEF LearnKept
<1> QED BY <1>1, <1>2, PTL DEF KeptSpec

\* The same information is not kept twice under two names of a scope, but where the judge did not see that they are the
\* same, or somebody else wrote one meanwhile (consider, SameKind, SetProfileDetail).
THEOREM NotedOnce == KeptSpec => []LearningInv
<1>1. LearnKept => LearningInv
  <2> SUFFICES ASSUME LearnIInv PROVE Learns!LearningInv
    BY DEF LearnKept, LearningInv
  <2>1. \A e \in Exchanges : learn[e].step \in Learns!Steps /\ learn[e].questions \in 0 .. MaxQuestions
    BY DEF LearnIInv, LearnTypes, LearnType
  <2>2. Learns!TypeOK
    BY <2>1 DEF LearnIInv, LearnTypes, HeldValues, Learns!TypeOK
  <2> QED BY <2>2 DEF LearnIInv, Learns!LearningInv
<1> QED BY <1>1, LearnInvariance, PTL

\* An exchange changes what it learns by its own steps, or by its server's restart.
LEMMA OthersStay ==
  ASSUME LearnIInv, Learns!Next, NEW e \in Exchanges, learn'[e] # learn[e]
  PROVE  Learns!Learn(e) \/ learn'[e] = DoneLearning
<1>1. learn = [x \in Exchanges |-> learn[x]]
  BY DEF LearnIInv, LearnTypes
<1>2. ASSUME NEW x \in Exchanges, Learns!Learn(x) PROVE Learns!Learn(e)
  <2>1. \A y \in Exchanges \ {x} : learn'[y] = learn[y]
    BY <1>1, <1>2 DEF Learns!Learn, Learns!MaybeLearn, Learns!Locks, Learns!Reads, Learns!Ends, Learns!Asks, Learns!Declines,
                      Learns!Counts, Learns!Inserts, Learns!Considers, Learns!LearnsNew, Learns!ProposesChange, Learns!Skips,
                      Learns!Answers
  <2> QED BY <1>2, <2>1
<1>3. ASSUME NEW x, Learns!Restarts(x) PROVE learn'[e] = DoneLearning
  BY <1>3 DEF Learns!Restarts, DoneLearning
<1>4. ASSUME NEW s, NEW v, Learns!Outdated(s, v) \/ Learns!EditsByHand(s, v) PROVE FALSE
  BY <1>4 DEF Learns!Outdated, Learns!EditsByHand
<1> QED BY <1>2, <1>3, <1>4 DEF Learns!Next

\* What the person said Yes and No to stands: a value that is held is replaced by what was said only after a Yes that named
\* it, unless somebody else wrote it since it was read, and what was refused is not asked again while that is known
\* (proposeChange, SetProfileDetail, DeclinedProfileValue).
THEOREM PersonDecided == KeptSpec => PersonDecides
<1>1. LearnKept /\ [KeptNext]_keptVars => [part = "learning" => Learns!DecidesStep]_keptVars
  <2> SUFFICES ASSUME LearnKept, KeptNext, part = "learning" PROVE Learns!DecidesStep
    OBVIOUS
  <2>1. LearnIInv /\ Learns!Next
    BY DEF LearnKept, KeptNext
  <2>2. ASSUME NEW e \in Exchanges, NEW s \in Slots, Learns!ReplacesWith(e, s)
        PROVE  (learn[e].item.yes /\ learn[e].item.old = held[s]) \/ s \in learnPast.other[e]
    <3>1. learn[e].step = "insert" /\ learn'[e].step # "insert" /\ held[s] # Learns!NoValue /\ held'[s] # held[s]
      BY <2>2 DEF Learns!ReplacesWith
    <3>2. Learns!Inserts(e)
      <4>1. ASSUME NEW x, Learns!Restarts(x) PROVE FALSE
        BY <3>1, <4>1 DEF Learns!Restarts
      <4>2. ASSUME NEW t, NEW v, Learns!Outdated(t, v) \/ Learns!EditsByHand(t, v) PROVE FALSE
        BY <3>1, <4>2 DEF Learns!Outdated, Learns!EditsByHand
      <4>3. PICK x \in Exchanges : Learns!Learn(x)
        BY <2>1, <4>1, <4>2 DEF Learns!Next
      <4>4. Learns!Inserts(x)
        BY <3>1, <4>3 DEF Learns!Learn, Learns!MaybeLearn, Learns!Locks, Learns!Reads, Learns!Ends, Learns!Asks,
                          Learns!Declines, Learns!Counts, Learns!Considers, Learns!Answers
      <4>5. x = e
        BY <2>1, <3>1, <4>4 DEF Learns!Inserts, LearnIInv, LearnTypes
      <4> QED BY <4>4, <4>5
    <3>3. s = learn[e].item.slot
      BY <2>1, <3>1, <3>2 DEF Learns!Inserts, LearnIInv, LearnTypes
    <3>4. Sound(e, learn[e], held, learnPast.other[e])
      BY <2>1 DEF LearnIInv
    <3> QED BY <3>1, <3>3, <3>4 DEF Sound, Deciding
  <2>3. ASSUME NEW e \in Exchanges, Learns!Proposed(e)
        PROVE  \/ <<learn'[e].item.slot, learn'[e].item.value>> \notin learnPast.noes
               \/ learn'[e].item.doubt
               \/ learn'[e].item.value \in Wordless
    <3>1. learn[e].step = "considering" /\ learn'[e].step = "propose"
      BY <2>3 DEF Learns!Proposed
    <3>2. Learns!Learn(e)
      BY <2>1, <3>1, OthersStay DEF DoneLearning
    <3>3. learn[e] \in LearnType /\ e \in DOMAIN learn
      BY <2>1 DEF LearnIInv, LearnTypes
    <3>4. PICK s \in Slots, v \in Values : Learns!Considers(e, s, v)
      BY <3>1, <3>2, <3>3 DEF Learns!Learn, Learns!MaybeLearn, Learns!Locks, Learns!Reads, Learns!Ends, Learns!Asks,
                              Learns!Declines, Learns!Counts, Learns!Inserts, Learns!Answers
    <3>5. \E k \in Learns!Taken(e, s), unknown \in BOOLEAN : Learns!ProposesChange(e, k, v, unknown)
      <4>1. ~Learns!Skips(e)
        BY <3>1, <3>3 DEF Learns!Skips, LearnType
      <4>2. ASSUME NEW k, Learns!LearnsNew(e, s, k, v) PROVE FALSE
        BY <3>1, <3>3, <4>2 DEF Learns!LearnsNew, LearnType
      <4>3. PICK k \in Learns!Taken(e, s) :
              Learns!LearnsNew(e, s, k, v) \/ \E unknown \in BOOLEAN : Learns!ProposesChange(e, k, v, unknown)
        BY <3>4, <4>1 DEF Learns!Considers
      <4> QED BY <4>2, <4>3
    <3> PICK k \in Learns!Taken(e, s), unknown \in BOOLEAN : Learns!ProposesChange(e, k, v, unknown)
      BY <3>5
    <3>6. learn'[e].item = Learns!Item(k, v, learn[e].seen[k], FALSE, unknown)
      BY <3>3 DEF Learns!ProposesChange, LearnType
    <3>7. learn'[e].item.slot = k /\ learn'[e].item.value = v /\ learn'[e].item.doubt = unknown
      BY <3>6 DEF Learns!Item
    <3>8. unknown \/ <<k, v>> \notin declined
      BY DEF Learns!ProposesChange
    <3> QED BY <2>1, <3>7, <3>8 DEF LearnIInv, RefusalsKept
  <2> QED BY <2>2, <2>3 DEF Learns!DecidesStep, Learns!OnlyYesChanges, Learns!RefusedOnce
<1> QED BY <1>1, LearnInvariance, PTL DEF KeptSpec, PersonDecides

(***************************************************************************)
(* Definitions: the inductive invariant.                                   *)
(***************************************************************************)
DefsSteps == {"none", "loaded", "checked", "hook", "read", "apply", "start", "drop", "done"}
SkillCopies == SUBSET [id : Skills, text : Defs!Text]
ReqType == [kind : Kinds \cup {"none"}, step : DefsSteps, agent : {{}} \cup {{a} : a \in Agents}, skill : SUBSET Skills,
            want : SUBSET Identities, copy : Defs!Row, late : BOOLEAN, had : SkillCopies]
HostType == [there : BOOLEAN, text : Defs!Text, rules : Defs!Text, skills : SkillCopies]

DefsTypes ==
  /\ store \in [Agents -> Defs!Row] /\ identities \in SUBSET (Identities \ coming) /\ coming \in SUBSET Identities
  /\ skill \in [Skills -> [owner : {{}} \cup {{a} : a \in Agents}, text : Defs!Text]]
  /\ host \in [Agents -> HostType]
  /\ listeners \in SUBSET (Agents \X (Identities \ coming))
  /\ req \in [Workers -> ReqType]
  /\ restarts \in 0 .. MaxRestarts
  /\ defsPast \in [unsure : SUBSET Agents, unchecked : SUBSET Identities]

\* A request goes through the steps of its kind, of one agent, and refers to no identity that is still to be made.
Orderly(q, to) ==
  /\ q.step \notin {"none", "done"} => q.agent # {} /\ q.kind \in Kinds
  /\ q.step = "checked" => q.kind = "identities"
  /\ q.step \in {"read", "apply"} => q.kind \in Defs!Reloading \cup {"create"}
  /\ q.step = "start" => q.kind \in {"create", "identities"}
  /\ q.step = "drop" => q.kind = "delete"
  /\ q.step \in {"loaded", "checked"} /\ q.kind \in {"create", "patch", "rules", "identities", "delete"} => q.copy.there
  /\ q.kind = "delete" => q.want = {}
  /\ q.copy.ids \cap to = {}
  /\ q.step \in {"checked", "start"} \/ (q.step = "hook" /\ q.kind = "identities") => q.want \cap to = {}

\* What was loaded, or looked up, is still what is stored, as long as nothing was saved since.
UpToDate(q, rows) ==
  q.step \in {"loaded", "checked"} /\ ~q.late =>
    \A a \in q.agent :
      /\ q.kind \in {"patch", "rules", "identities"} => q.copy = rows[a]
      /\ q.step = "checked" => \A i \in q.want : i \in rows[a].ids \/ \A b \in Agents : i \notin rows[b].ids

OneAgentEach ==
  \A i \in identities \ defsPast.unchecked : \A a, b \in Agents : i \in store[a].ids /\ i \in store[b].ids => a = b

\* The host has what is stored: a row, a host's copy, the identities listened to, the identities there are, the skills.
Agree(X, Y, all) == \A i \in all : i \in X <=> i \in Y
Synced(stored, mine, on, all, had) ==
  /\ mine.there = stored.there
  /\ stored.there => mine.text = stored.text /\ mine.skills = had
  /\ Agree(on, stored.ids, all)

\* Or it will have, after the steps that are left of the one request that is under way.
OnItsWay(q, stored, mine, on, all, had) ==
  /\ q.step \in {"loaded", "checked"} =>
       /\ Synced(stored, mine, on, all, had)
       /\ q.kind \in {"patch", "rules", "identities", "delete"} =>
            stored.there /\ q.copy.text = stored.text /\ Agree(q.copy.ids, stored.ids, all)
       /\ q.kind = "create" => ~stored.there
  /\ q.step \in {"hook", "read", "apply"} /\ q.kind \in Defs!Reloading => mine.there = stored.there /\ Agree(on, stored.ids, all)
  /\ q.step \in {"hook", "read", "apply"} /\ q.kind = "create" => stored.there /\ Agree(on, {}, all)
  /\ q.step \in {"read", "apply"} =>
       q.copy.text = stored.text /\ q.copy.there = stored.there /\ Agree(q.copy.ids, stored.ids, all)
  /\ q.step = "apply" => q.had = had
  /\ (q.step = "hook" /\ q.kind = "identities") \/ q.step = "start" =>
       /\ stored.there /\ mine.there /\ mine.text = stored.text /\ mine.skills = had
       /\ Agree(q.want, stored.ids, all)
  /\ q.step = "hook" /\ q.kind = "identities" => Agree(on, q.copy.ids, all)
  /\ q.step = "start" => Agree(on, q.copy.ids \cap q.want, all)
  /\ q.step = "hook" /\ q.kind = "delete" => ~stored.there /\ stored.ids = {} /\ Agree(on, q.copy.ids, all)
  /\ q.step = "drop" => ~stored.there /\ stored.ids = {} /\ Agree(on, {}, all)

On(a) == {i \in Identities : <<a, i>> \in listeners}
Follows(a) ==
  a \notin defsPast.unsure =>
    /\ \A q, r \in Defs!Of(a) : Defs!Active(q) /\ Defs!Active(r) => q = r
    /\ (\A r \in Defs!Of(a) : ~Defs!Active(r)) => Synced(store[a], host[a], On(a), identities, Defs!SkillsOf(a))
    /\ \A r \in Defs!Of(a) :
         Defs!Active(r) => OnItsWay(req[r], store[a], host[a], On(a), identities, Defs!SkillsOf(a))

DefsIInv ==
  /\ DefsTypes
  /\ \A a \in Agents : ~store[a].there => store[a].ids = {}
  /\ \A r \in Workers : Orderly(req[r], coming) /\ UpToDate(req[r], store)
  /\ Defs!Kept /\ OneAgentEach
  /\ \A a \in Agents : Follows(a)

(***************************************************************************)
(* Definitions: what a step leaves alone.                                  *)
(***************************************************************************)
LEMMA DefsFacts ==
  /\ Bots \in SUBSET Identities
  /\ Kinds \subseteq {"create", "patch", "rules", "identities", "delete", "newskill", "skill", "unskill"}
  /\ Stored \in [Agents -> {{}} \cup {{ids} : ids \in SUBSET Identities}]
  /\ MaxRestarts \in Nat
BY KeptConstants DEF Defs!DefinitionsConstants

\* Two requests that differ only in whether something was saved meanwhile.
ButForLate(q, p) == q = [p EXCEPT !.late = q.late]

LEMMA StillOnItsWay ==
  ASSUME NEW q, NEW s, NEW t, NEW mine, NEW on, NEW all, NEW less, NEW had,
         OnItsWay(q, s, mine, on, all, had), less \subseteq all,
         t.there = s.there, t.text = s.text, Agree(t.ids, s.ids, less), s.ids = {} => t.ids = {}
  PROVE  OnItsWay(q, t, mine, on, less, had)
<1>1. \A X : Agree(X, s.ids, all) => Agree(X, t.ids, less)
  BY DEF Agree
<1>2. \A X, Y : Agree(X, Y, all) => Agree(X, Y, less)
  BY DEF Agree
<1> QED BY <1>1, <1>2 DEF OnItsWay, Synced

\* An agent that a step is not about: what there is of its identities may be less.
LEMMA Elsewhere ==
  ASSUME DefsIInv, NEW b \in Agents,
         \A q \in Workers : req'[q].agent = {b} /\ Defs!Active(q)' => ButForLate(req'[q], req[q]),
         \A q \in Workers : req[q].agent = {b} /\ Defs!Active(q) => ButForLate(req'[q], req[q]),
         b \in defsPast.unsure => b \in defsPast'.unsure, identities' \subseteq identities,
         store'[b].there = store[b].there, store'[b].text = store[b].text,
         Agree(store'[b].ids, store[b].ids, identities'), store[b].ids = {} => store'[b].ids = {},
         host'[b] = host[b], On(b)' = On(b), b \notin defsPast'.unsure => Defs!SkillsOf(b)' = Defs!SkillsOf(b)
  PROVE  Follows(b)'
<1> SUFFICES ASSUME b \notin defsPast'.unsure PROVE Follows(b)'
  BY DEF Follows
<1>1. Follows(b) /\ req \in [Workers -> ReqType]
  BY DEF DefsIInv, DefsTypes
<1>2. ASSUME NEW q \in Workers, ButForLate(req'[q], req[q])
      PROVE  /\ req'[q].agent = req[q].agent /\ req'[q].step = req[q].step /\ req'[q].kind = req[q].kind
             /\ req'[q].want = req[q].want /\ req'[q].copy = req[q].copy /\ req'[q].had = req[q].had
  BY <1>1, <1>2 DEF ButForLate, ReqType
<1>3. \A q \in Workers : req'[q].agent = {b} /\ Defs!Active(q)' => req[q].agent = {b} /\ Defs!Active(q)
  BY <1>2 DEF Defs!Active
<1>4. \A q \in Workers : req[q].agent = {b} /\ Defs!Active(q) => req'[q].agent = {b} /\ Defs!Active(q)'
  BY <1>2 DEF Defs!Active
<1>5. \A q, r \in Defs!Of(b)' : Defs!Active(q)' /\ Defs!Active(r)' => q = r
  BY <1>1, <1>3 DEF Follows, Defs!Of
<1>6. ASSUME \A r \in Defs!Of(b)' : ~Defs!Active(r)'
      PROVE  Synced(store'[b], host'[b], On(b)', identities', Defs!SkillsOf(b)')
  <2>1. Synced(store[b], host[b], On(b), identities, Defs!SkillsOf(b))
    BY <1>1, <1>4, <1>6 DEF Follows, Defs!Of
  <2> QED BY <2>1 DEF Synced, Agree
<1>7. ASSUME NEW r \in Workers, req'[r].agent = {b}, Defs!Active(r)'
      PROVE  OnItsWay(req'[r], store'[b], host'[b], On(b)', identities', Defs!SkillsOf(b)')
  <2>1. OnItsWay(req[r], store[b], host[b], On(b), identities, Defs!SkillsOf(b))
    BY <1>1, <1>3, <1>7 DEF Follows, Defs!Of
  <2>2. OnItsWay(req[r], store'[b], host[b], On(b), identities', Defs!SkillsOf(b))
    BY <2>1, StillOnItsWay
  <2> QED BY <1>2, <1>7, <2>2 DEF OnItsWay
<1> QED BY <1>5, <1>6, <1>7 DEF Follows, Defs!Of

\* The agent a step is about, when all that is under way about it is that request.
LEMMA StepOf ==
  ASSUME NEW r \in Workers, NEW a \in Agents,
         a \notin defsPast'.unsure =>
           /\ \A q \in Workers \ {r} : ~(req'[q].agent = {a} /\ Defs!Active(q)')
           /\ IF Defs!Active(r)' THEN OnItsWay(req'[r], store'[a], host'[a], On(a)', identities', Defs!SkillsOf(a)')
                                 ELSE Synced(store'[a], host'[a], On(a)', identities', Defs!SkillsOf(a)'),
         req'[r].agent = {a}
  PROVE  Follows(a)'
BY DEF Follows, Defs!Of

LEMMA StepsTo ==
  ASSUME NEW q \in ReqType, NEW step \in DefsSteps, NEW l, l = [q EXCEPT !.step = step]
  PROVE  /\ l \in ReqType /\ l.step = step /\ l.kind = q.kind /\ l.agent = q.agent /\ l.skill = q.skill
         /\ l.want = q.want /\ l.copy = q.copy /\ l.late = q.late /\ l.had = q.had
BY DEF ReqType

\* What is known of an agent while a request about it is under way and nothing else is.
LEMMA UnderWayAlone ==
  ASSUME DefsIInv, NEW r \in Workers, NEW a \in Agents, req[r].agent = {a}, Defs!Active(r), a \notin defsPast.unsure
  PROVE  /\ OnItsWay(req[r], store[a], host[a], On(a), identities, Defs!SkillsOf(a))
         /\ \A o \in Workers \ {r} : ~(req[o].agent = {a} /\ Defs!Active(o))
BY DEF DefsIInv, Follows, Defs!Of

LEMMA ActsFor ==
  ASSUME DefsIInv, NEW r \in Workers, NEW a \in req[r].agent
  PROVE  a \in Agents /\ req[r].agent = {a} /\ req[r] \in ReqType /\ Orderly(req[r], coming) /\ UpToDate(req[r], store)
<1>1. req[r] \in ReqType
  BY DEF DefsIInv, DefsTypes
<1> QED BY <1>1 DEF DefsIInv, ReqType

\* A request about an agent goes on: no agent's row changes.
LEMMA DefsGoesOn ==
  ASSUME DefsIInv, NEW r \in Workers, NEW a \in Agents, NEW q \in ReqType, q.agent = {a},
         req' = [req EXCEPT ![r] = q], req[r].agent = {a} \/ ~Defs!Active(r),
         UNCHANGED <<store, identities, coming, restarts>>,
         skill' \in [Skills -> [owner : {{}} \cup {{b} : b \in Agents}, text : Defs!Text]],
         \A s \in Skills : \A b \in skill'[s].owner : store[b].there,
         host' \in [Agents -> HostType], listeners' \in SUBSET (Agents \X (Identities \ coming)),
         defsPast' \in [unsure : SUBSET Agents, unchecked : SUBSET Identities],
         defsPast.unsure \subseteq defsPast'.unsure, defsPast'.unchecked = defsPast.unchecked,
         \A b \in Agents \ {a} : /\ host'[b] = host[b] /\ On(b)' = On(b)
                                 /\ b \notin defsPast'.unsure => Defs!SkillsOf(b)' = Defs!SkillsOf(b),
         Orderly(q, coming), UpToDate(q, store),
         a \notin defsPast'.unsure =>
           /\ \A o \in Workers \ {r} : ~(req[o].agent = {a} /\ Defs!Active(o))
           /\ IF q.step \notin {"none", "done"}
              THEN OnItsWay(q, store[a], host'[a], On(a)', identities, Defs!SkillsOf(a)')
              ELSE Synced(store[a], host'[a], On(a)', identities, Defs!SkillsOf(a)')
  PROVE  DefsIInv'
<1>1. req \in [Workers -> ReqType] /\ req'[r] = q /\ \A o \in Workers \ {r} : req'[o] = req[o]
  BY DEF DefsIInv, DefsTypes
<1>2. DefsTypes'
  BY <1>1 DEF DefsIInv, DefsTypes
<1>3. \A b \in Agents : ~store'[b].there => store'[b].ids = {}
  BY DEF DefsIInv
<1>4. \A o \in Workers : Orderly(req'[o], coming') /\ UpToDate(req'[o], store')
  BY <1>1 DEF DefsIInv
<1>5. Defs!Kept' /\ OneAgentEach'
  BY DEF DefsIInv, Defs!Kept, OneAgentEach
<1>6. ASSUME NEW b \in Agents, b # a PROVE Follows(b)'
  <2>1. \A o \in Workers : req'[o].agent = {b} /\ Defs!Active(o)' => ButForLate(req'[o], req[o])
    BY <1>1, <1>6 DEF ButForLate, ReqType
  <2>2. \A o \in Workers : req[o].agent = {b} /\ Defs!Active(o) => ButForLate(req'[o], req[o])
    BY <1>1, <1>6 DEF ButForLate, ReqType
  <2>3. Agree(store'[b].ids, store[b].ids, identities')
    BY DEF Agree
  <2> QED BY <1>6, <2>1, <2>2, <2>3, Elsewhere
<1>7. Follows(a)'
  <2>1. Defs!Active(r)' <=> q.step \notin {"none", "done"}
    BY <1>1 DEF Defs!Active
  <2>2. \A o \in Workers \ {r} : req'[o].agent = {a} /\ Defs!Active(o)' => req[o].agent = {a} /\ Defs!Active(o)
    BY <1>1 DEF Defs!Active
  <2> QED BY <1>1, <2>1, <2>2, StepOf
<1> QED BY <1>2, <1>3, <1>4, <1>5, <1>6, <1>7 DEF DefsIInv

\* The same, when the host is not told anything either, and what is known of the agents stays as it is.
LEMMA DefsStepsOn ==
  ASSUME DefsIInv, NEW r \in Workers, NEW a \in Agents, NEW q \in ReqType, q.agent = {a},
         req' = [req EXCEPT ![r] = q], req[r].agent = {a}, Defs!Active(r),
         UNCHANGED <<store, identities, coming, skill, host, listeners, restarts, defsPast>>,
         Orderly(q, coming), UpToDate(q, store),
         OnItsWay(req[r], store[a], host[a], On(a), identities, Defs!SkillsOf(a)) =>
           IF q.step \notin {"none", "done"}
           THEN OnItsWay(q, store[a], host[a], On(a), identities, Defs!SkillsOf(a))
           ELSE Synced(store[a], host[a], On(a), identities, Defs!SkillsOf(a))
  PROVE  DefsIInv'
<1>1. \A b \in Agents : On(b)' = On(b) /\ Defs!SkillsOf(b)' = Defs!SkillsOf(b)
  BY DEF On, Defs!SkillsOf
<1>2. DefsTypes /\ \A s \in Skills : \A b \in skill[s].owner : store[b].there
  BY DEF DefsIInv, Defs!Kept
<1>3. ASSUME a \notin defsPast.unsure
      PROVE  /\ OnItsWay(req[r], store[a], host[a], On(a), identities, Defs!SkillsOf(a))
             /\ \A o \in Workers \ {r} : ~(req[o].agent = {a} /\ Defs!Active(o))
  BY <1>3, UnderWayAlone
<1>4. /\ host' \in [Agents -> HostType] /\ listeners' \in SUBSET (Agents \X (Identities \ coming))
      /\ defsPast' \in [unsure : SUBSET Agents, unchecked : SUBSET Identities]
      /\ skill' \in [Skills -> [owner : {{}} \cup {{b} : b \in Agents}, text : Defs!Text]]
  BY <1>2 DEF DefsTypes
<1>5. defsPast.unsure \subseteq defsPast'.unsure /\ defsPast'.unchecked = defsPast.unchecked /\ host' = host
  OBVIOUS
<1>6. a \notin defsPast'.unsure =>
        /\ \A o \in Workers \ {r} : ~(req[o].agent = {a} /\ Defs!Active(o))
        /\ IF q.step \notin {"none", "done"}
           THEN OnItsWay(q, store[a], host'[a], On(a)', identities, Defs!SkillsOf(a)')
           ELSE Synced(store[a], host'[a], On(a)', identities, Defs!SkillsOf(a)')
  BY <1>1, <1>3
<1>7. UNCHANGED <<store, identities, coming, restarts>>
  OBVIOUS
<1>8. \A s \in Skills : \A b \in skill'[s].owner : store[b].there
  BY <1>2
<1>9. \A b \in Agents \ {a} : /\ host'[b] = host[b] /\ On(b)' = On(b)
                              /\ b \notin defsPast'.unsure => Defs!SkillsOf(b)' = Defs!SkillsOf(b)
  BY <1>1, <1>5
<1> QED BY <1>4, <1>5, <1>6, <1>7, <1>8, <1>9, DefsGoesOn

(***************************************************************************)
(* Definitions: the steps that change no agent's row.                      *)
(***************************************************************************)
LEMMA CheckIdentitiesKeeps == ASSUME DefsIInv, NEW r \in Workers, Defs!CheckIdentities(r) PROVE DefsIInv'
<1>1. PICK a \in req[r].agent, step \in {"checked", "done"} :
        /\ Defs!Goes(r, step)
        /\ step = "checked" => req[r].want \subseteq identities /\ \A i \in req[r].want : Defs!Free(a, i)
  BY DEF Defs!CheckIdentities
<1>2. a \in Agents /\ req[r].agent = {a} /\ req[r] \in ReqType /\ Orderly(req[r], coming) /\ UpToDate(req[r], store)
  BY ActsFor
<1> DEFINE l == [req[r] EXCEPT !.step = step]
<1>3. /\ l \in ReqType /\ l.step = step /\ l.kind = req[r].kind /\ l.agent = {a} /\ l.want = req[r].want
      /\ l.copy = req[r].copy /\ l.late = req[r].late /\ l.had = req[r].had
  BY <1>1, <1>2, StepsTo DEF DefsSteps
<1>4. req' = [req EXCEPT ![r] = l]
  BY <1>1 DEF Defs!Goes
<1> HIDE DEF l
<1>5. req[r].kind = "identities" /\ req[r].step = "loaded" /\ identities \cap coming = {}
  BY DEF Defs!CheckIdentities, Defs!At, DefsIInv, DefsTypes
<1>6. Orderly(l, coming)
  BY <1>1, <1>2, <1>3, <1>5 DEF Orderly
<1>7. UpToDate(l, store)
  BY <1>1, <1>2, <1>3, <1>5 DEF UpToDate, Defs!Free
<1>8. OnItsWay(req[r], store[a], host[a], On(a), identities, Defs!SkillsOf(a)) =>
        IF l.step \notin {"none", "done"}
        THEN OnItsWay(l, store[a], host[a], On(a), identities, Defs!SkillsOf(a))
        ELSE Synced(store[a], host[a], On(a), identities, Defs!SkillsOf(a))
  BY <1>1, <1>3, <1>5 DEF OnItsWay, Defs!Reloading
<1>9. Defs!Active(r) /\ UNCHANGED <<store, identities, coming, skill, host, listeners, restarts, defsPast>>
  BY <1>5 DEF Defs!Active, Defs!CheckIdentities
<1> QED BY <1>2, <1>3, <1>4, <1>6, <1>7, <1>8, <1>9, DefsStepsOn

LEMMA ReadRowKeeps == ASSUME DefsIInv, NEW r \in Workers, Defs!ReadRow(r) PROVE DefsIInv'
<1>1. PICK a \in req[r].agent : store[a].there /\ req' = [req EXCEPT ![r].step = "read", ![r].copy = store[a]]
  BY DEF Defs!ReadRow
<1>2. a \in Agents /\ req[r].agent = {a} /\ req[r] \in ReqType /\ Orderly(req[r], coming)
  BY ActsFor
<1>3. store[a] \in Defs!Row /\ store[a].ids \cap coming = {}
  BY <1>2 DEF DefsIInv, DefsTypes, Defs!Kept
<1> DEFINE l == [req[r] EXCEPT !.step = "read", !.copy = store[a]]
<1>4. /\ l \in ReqType /\ l.step = "read" /\ l.kind = req[r].kind /\ l.agent = {a} /\ l.want = req[r].want
      /\ l.copy = store[a] /\ l.late = req[r].late /\ l.had = req[r].had
  BY <1>2, <1>3 DEF ReqType, DefsSteps
<1>5. req' = [req EXCEPT ![r] = l]
  BY <1>1, <1>2 DEF DefsIInv, DefsTypes
<1> HIDE DEF l
<1>6. req[r].kind \in Defs!Reloading \cup {"create"} /\ req[r].step = "hook"
  BY DEF Defs!ReadRow, Defs!At
<1>7. Orderly(l, coming)
  BY <1>2, <1>3, <1>4, <1>6 DEF Orderly, Defs!Reloading
<1>8. UpToDate(l, store)
  BY <1>4 DEF UpToDate
<1>9. OnItsWay(req[r], store[a], host[a], On(a), identities, Defs!SkillsOf(a)) =>
        OnItsWay(l, store[a], host[a], On(a), identities, Defs!SkillsOf(a))
  BY <1>4, <1>6 DEF OnItsWay, Agree, Defs!Reloading
<1>10. Defs!Active(r) /\ UNCHANGED <<store, identities, coming, skill, host, listeners, restarts, defsPast>>
  BY <1>6 DEF Defs!Active, Defs!ReadRow
<1> QED BY <1>2, <1>4, <1>5, <1>7, <1>8, <1>9, <1>10, DefsStepsOn

LEMMA SkillsTyped == ASSUME DefsTypes, NEW a PROVE Defs!SkillsOf(a) \in SkillCopies
BY DEF DefsTypes, Defs!SkillsOf, SkillCopies

LEMMA ReadSkillsKeeps == ASSUME DefsIInv, NEW r \in Workers, Defs!ReadSkills(r) PROVE DefsIInv'
<1>1. PICK a \in req[r].agent : req' = [req EXCEPT ![r].step = "apply", ![r].had = Defs!SkillsOf(a)]
  BY DEF Defs!ReadSkills
<1>2. a \in Agents /\ req[r].agent = {a} /\ req[r] \in ReqType /\ Orderly(req[r], coming)
  BY ActsFor
<1>3. Defs!SkillsOf(a) \in SkillCopies
  BY SkillsTyped DEF DefsIInv
<1> DEFINE had == Defs!SkillsOf(a)
           l == [req[r] EXCEPT !.step = "apply", !.had = had]
<1> HIDE DEF had
<1>4. /\ l \in ReqType /\ l.step = "apply" /\ l.kind = req[r].kind /\ l.agent = {a} /\ l.want = req[r].want
      /\ l.copy = req[r].copy /\ l.late = req[r].late /\ l.had = had
  BY <1>2, <1>3 DEF ReqType, DefsSteps, had
<1>5. req' = [req EXCEPT ![r] = l]
  BY <1>1, <1>2 DEF DefsIInv, DefsTypes, had
<1> HIDE DEF l
<1>6. req[r].step = "read"
  BY DEF Defs!ReadSkills
<1>7. Orderly(l, coming)
  BY <1>2, <1>4, <1>6 DEF Orderly
<1>8. UpToDate(l, store)
  BY <1>4 DEF UpToDate
<1>9. OnItsWay(req[r], store[a], host[a], On(a), identities, had) =>
        OnItsWay(l, store[a], host[a], On(a), identities, had)
  BY <1>4, <1>6 DEF OnItsWay
<1>10. Defs!Active(r) /\ UNCHANGED <<store, identities, coming, skill, host, listeners, restarts, defsPast>>
  BY <1>6 DEF Defs!Active, Defs!ReadSkills
<1> QED BY <1>2, <1>4, <1>5, <1>7, <1>8, <1>9, <1>10, DefsStepsOn DEF had

\* The host takes over something of the agent that a request is about.
LEMMA DefsTells ==
  ASSUME DefsIInv, NEW r \in Workers, NEW a \in Agents, NEW q \in ReqType, q.agent = {a},
         req' = [req EXCEPT ![r] = q], req[r].agent = {a}, Defs!Active(r),
         UNCHANGED <<store, identities, coming, skill, restarts, defsPast>>,
         NEW mine \in HostType, host' = [host EXCEPT ![a] = mine],
         listeners' \in SUBSET (Agents \X (Identities \ coming)), \A b \in Agents \ {a} : On(b)' = On(b),
         Orderly(q, coming), q.step \notin {"loaded", "checked"},
         OnItsWay(req[r], store[a], host[a], On(a), identities, Defs!SkillsOf(a)) =>
           IF q.step \notin {"none", "done"}
           THEN OnItsWay(q, store[a], mine, On(a)', identities, Defs!SkillsOf(a))
           ELSE Synced(store[a], mine, On(a)', identities, Defs!SkillsOf(a))
  PROVE  DefsIInv'
<1>1. \A b \in Agents : Defs!SkillsOf(b)' = Defs!SkillsOf(b)
  BY DEF Defs!SkillsOf
<1>2. DefsTypes /\ \A s \in Skills : \A b \in skill'[s].owner : store[b].there
  BY DEF DefsIInv, Defs!Kept
<1>3. ASSUME a \notin defsPast.unsure
      PROVE  /\ OnItsWay(req[r], store[a], host[a], On(a), identities, Defs!SkillsOf(a))
             /\ \A o \in Workers \ {r} : ~(req[o].agent = {a} /\ Defs!Active(o))
  BY <1>3, UnderWayAlone
<1>4. /\ host' \in [Agents -> HostType] /\ host'[a] = mine /\ \A b \in Agents \ {a} : host'[b] = host[b]
      /\ defsPast' \in [unsure : SUBSET Agents, unchecked : SUBSET Identities]
      /\ skill' \in [Skills -> [owner : {{}} \cup {{b} : b \in Agents}, text : Defs!Text]]
  BY <1>2 DEF DefsTypes
<1>5. defsPast.unsure \subseteq defsPast'.unsure /\ defsPast'.unchecked = defsPast.unchecked
  OBVIOUS
<1>6. a \notin defsPast'.unsure =>
        /\ \A o \in Workers \ {r} : ~(req[o].agent = {a} /\ Defs!Active(o))
        /\ IF q.step \notin {"none", "done"}
           THEN OnItsWay(q, store[a], host'[a], On(a)', identities, Defs!SkillsOf(a)')
           ELSE Synced(store[a], host'[a], On(a)', identities, Defs!SkillsOf(a)')
  BY <1>1, <1>3, <1>4
<1>7. UNCHANGED <<store, identities, coming, restarts>>
  OBVIOUS
<1>8. \A b \in Agents \ {a} : /\ host'[b] = host[b] /\ On(b)' = On(b)
                              /\ b \notin defsPast'.unsure => Defs!SkillsOf(b)' = Defs!SkillsOf(b)
  BY <1>1, <1>4
<1>9. UpToDate(q, store)
  BY DEF UpToDate
<1> QED BY <1>2, <1>4, <1>5, <1>6, <1>7, <1>8, <1>9, DefsGoesOn

LEMMA ReadFailsKeeps == ASSUME DefsIInv, NEW r \in Workers, Defs!ReadFails(r) PROVE DefsIInv'
<1>1. Defs!Active(r) /\ req[r] \in ReqType /\ Orderly(req[r], coming)
  BY DEF Defs!ReadFails, Defs!At, Defs!Active, DefsIInv, DefsTypes
<1>2. PICK a \in req[r].agent : a \in Agents /\ req[r].agent = {a}
  BY <1>1, ActsFor DEF Orderly, Defs!Active
<1> DEFINE l == [req[r] EXCEPT !.step = "done"]
<1>3. l \in ReqType /\ l.step = "done" /\ l.agent = {a} /\ l.kind = req[r].kind /\ l.want = req[r].want /\ l.copy = req[r].copy
  BY <1>1, <1>2, StepsTo DEF DefsSteps
<1>4. req' = [req EXCEPT ![r] = l]
  BY DEF Defs!ReadFails, Defs!Goes
<1> HIDE DEF l
<1>5. Orderly(l, coming) /\ UpToDate(l, store)
  BY <1>1, <1>3 DEF Orderly, UpToDate
<1>6. /\ UNCHANGED <<store, identities, coming, skill, host, listeners, restarts>>
      /\ defsPast' = [defsPast EXCEPT !.unsure = @ \cup {a}]
  BY <1>2 DEF Defs!ReadFails
<1>7. /\ defsPast' \in [unsure : SUBSET Agents, unchecked : SUBSET Identities] /\ a \in defsPast'.unsure
      /\ defsPast.unsure \subseteq defsPast'.unsure /\ defsPast'.unchecked = defsPast.unchecked
  BY <1>2, <1>6 DEF DefsIInv, DefsTypes
<1>8. \A b \in Agents \ {a} : /\ host'[b] = host[b] /\ On(b)' = On(b)
                              /\ b \notin defsPast'.unsure => Defs!SkillsOf(b)' = Defs!SkillsOf(b)
  BY <1>6 DEF On, Defs!SkillsOf
<1>9. /\ host' \in [Agents -> HostType] /\ listeners' \in SUBSET (Agents \X (Identities \ coming))
      /\ skill' \in [Skills -> [owner : {{}} \cup {{b} : b \in Agents}, text : Defs!Text]]
      /\ \A s \in Skills : \A b \in skill'[s].owner : store[b].there
  BY <1>6 DEF DefsIInv, DefsTypes, Defs!Kept
<1>10. UNCHANGED <<store, identities, coming, restarts>>
  BY <1>6
<1> QED BY <1>1, <1>2, <1>3, <1>4, <1>5, <1>7, <1>8, <1>9, <1>10, DefsGoesOn

LEMMA ReloadAgentKeeps == ASSUME DefsIInv, NEW r \in Workers, Defs!ReloadAgent(r) PROVE DefsIInv'
<1>1. PICK a \in req[r].agent :
        host' = IF host[a].there
                THEN [host EXCEPT ![a] = Defs!Refreshed(host[a], req[r].copy, req[r].had)] ELSE host
  BY DEF Defs!ReloadAgent
<1>2. a \in Agents /\ req[r].agent = {a} /\ req[r] \in ReqType /\ Orderly(req[r], coming)
  BY ActsFor
<1>3. host \in [Agents -> HostType] /\ listeners \in SUBSET (Agents \X (Identities \ coming))
  BY DEF DefsIInv, DefsTypes
<1> DEFINE mine == IF host[a].there THEN Defs!Refreshed(host[a], req[r].copy, req[r].had) ELSE host[a]
           l == [req[r] EXCEPT !.step = "done"]
<1>4. /\ mine \in HostType /\ mine.there = host[a].there
      /\ host[a].there => mine.text = req[r].copy.text /\ mine.skills = req[r].had
  <2>1. host[a] \in HostType /\ req[r].copy.text \in Defs!Text /\ req[r].had \in SkillCopies
    BY <1>2, <1>3 DEF ReqType, Defs!Row
  <2>2. CASE host[a].there
    BY <2>1, <2>2 DEF Defs!Refreshed, HostType
  <2>3. CASE ~host[a].there
    BY <2>1, <2>3
  <2> QED BY <2>2, <2>3
<1>5. l \in ReqType /\ l.step = "done" /\ l.agent = {a} /\ l.kind = req[r].kind /\ l.want = req[r].want /\ l.copy = req[r].copy
  BY <1>2, StepsTo DEF DefsSteps
<1>6. req' = [req EXCEPT ![r] = l] /\ host' = [host EXCEPT ![a] = mine]
  BY <1>1, <1>3 DEF Defs!ReloadAgent, Defs!Goes
<1> HIDE DEF l, mine
<1>7. req[r].kind \in Defs!Reloading /\ req[r].step = "apply"
  BY DEF Defs!ReloadAgent, Defs!At
<1>8. Orderly(l, coming)
  BY <1>2, <1>5 DEF Orderly
<1>9. Defs!Active(r) /\ UNCHANGED <<store, identities, coming, skill, restarts, defsPast>> /\ UNCHANGED listeners
  BY <1>7 DEF Defs!Active, Defs!ReloadAgent
<1>10. \A b : On(b)' = On(b)
  BY <1>9 DEF On
<1>11. OnItsWay(req[r], store[a], host[a], On(a), identities, Defs!SkillsOf(a)) =>
         Synced(store[a], mine, On(a)', identities, Defs!SkillsOf(a))
  BY <1>4, <1>7, <1>10 DEF OnItsWay, Synced
<1>12. UNCHANGED <<store, identities, coming, skill, restarts, defsPast>>
  BY <1>9
<1> QED BY <1>2, <1>3, <1>4, <1>5, <1>6, <1>8, <1>9, <1>10, <1>11, <1>12, DefsTells

LEMMA RegisterKeeps == ASSUME DefsIInv, NEW r \in Workers, Defs!Register(r) PROVE DefsIInv'
<1>1. PICK a \in req[r].agent : host' = [host EXCEPT ![a] = Defs!Copied(req[r].copy, req[r].had)]
  BY DEF Defs!Register
<1>2. a \in Agents /\ req[r].agent = {a} /\ req[r] \in ReqType /\ Orderly(req[r], coming)
  BY ActsFor
<1>3. host \in [Agents -> HostType] /\ listeners \in SUBSET (Agents \X (Identities \ coming))
  BY DEF DefsIInv, DefsTypes
<1> DEFINE mine == Defs!Copied(req[r].copy, req[r].had)
           l == [req[r] EXCEPT !.step = "start", !.want = req[r].copy.ids, !.copy = Defs!Nowhere]
<1>4. /\ mine \in HostType /\ mine.there
      /\ mine.text = req[r].copy.text /\ mine.skills = req[r].had
  BY <1>2, <1>3 DEF Defs!Copied, HostType, ReqType, Defs!Row
<1>5. /\ l \in ReqType /\ l.step = "start" /\ l.agent = {a} /\ l.kind = req[r].kind /\ l.want = req[r].copy.ids
      /\ l.copy.ids = {}
  BY <1>2 DEF ReqType, DefsSteps, Defs!Row, Defs!Nowhere, Defs!Text
<1>6. req' = [req EXCEPT ![r] = l] /\ host' = [host EXCEPT ![a] = mine]
  BY <1>1 DEF Defs!Register, DefsIInv, DefsTypes
<1> HIDE DEF l, mine
<1>7. req[r].kind = "create" /\ req[r].step = "apply"
  BY DEF Defs!Register, Defs!At
<1>8. Orderly(l, coming)
  BY <1>2, <1>5, <1>7 DEF Orderly
<1>9. Defs!Active(r) /\ UNCHANGED listeners
  BY <1>7 DEF Defs!Active, Defs!Register
<1>10. \A b : On(b)' = On(b)
  BY <1>9 DEF On
<1>11. OnItsWay(req[r], store[a], host[a], On(a), identities, Defs!SkillsOf(a)) =>
         OnItsWay(l, store[a], mine, On(a)', identities, Defs!SkillsOf(a))
  BY <1>4, <1>5, <1>7, <1>10 DEF OnItsWay, Agree, Defs!Reloading
<1>12. UNCHANGED <<store, identities, coming, skill, restarts, defsPast>>
  BY DEF Defs!Register
<1> QED BY <1>2, <1>3, <1>4, <1>5, <1>6, <1>8, <1>9, <1>10, <1>11, <1>12, DefsTells

LEMMA StopIdentityListenersKeeps ==
  ASSUME DefsIInv, NEW r \in Workers, Defs!StopIdentityListeners(r) PROVE DefsIInv'
<1>1. req[r].kind \in {"identities", "delete"} /\ req[r].step = "hook" /\ Defs!Active(r)
  BY DEF Defs!StopIdentityListeners, Defs!At, Defs!Active
<1>2. req[r] \in ReqType /\ Orderly(req[r], coming)
  BY DEF DefsIInv, DefsTypes
<1>3. PICK a \in req[r].agent : a \in Agents /\ req[r].agent = {a}
  BY <1>1, <1>2, ActsFor DEF Orderly
<1>4. host \in [Agents -> HostType] /\ listeners \in SUBSET (Agents \X (Identities \ coming))
  BY DEF DefsIInv, DefsTypes
<1> DEFINE to == IF req[r].kind = "delete" THEN "drop" ELSE "start"
           l == [req[r] EXCEPT !.step = to]
<1>5. /\ l \in ReqType /\ l.step = to /\ l.agent = {a} /\ l.kind = req[r].kind /\ l.want = req[r].want
      /\ l.copy = req[r].copy
  BY <1>2, <1>3, StepsTo DEF DefsSteps
<1>6. req' = [req EXCEPT ![r] = l] /\ listeners' = listeners \ ({a} \X (req[r].copy.ids \ req[r].want))
  BY <1>3 DEF Defs!StopIdentityListeners, Defs!Goes, Defs!Removed
<1> HIDE DEF l
<1>7. Orderly(l, coming)
  BY <1>1, <1>2, <1>5 DEF Orderly
<1>8. /\ \A b \in Agents \ {a} : On(b)' = On(b)
      /\ On(a)' = On(a) \ (req[r].copy.ids \ req[r].want)
  BY <1>6 DEF On
<1>9. OnItsWay(req[r], store[a], host[a], On(a), identities, Defs!SkillsOf(a)) =>
        OnItsWay(l, store[a], host[a], On(a)', identities, Defs!SkillsOf(a))
  <2>1. CASE req[r].kind = "identities"
    BY <1>1, <1>5, <1>8, <2>1 DEF OnItsWay, Agree
  <2>2. CASE req[r].kind = "delete"
    <3>1. req[r].want = {}
      BY <1>2, <2>2 DEF Orderly
    <3> QED BY <1>1, <1>5, <1>8, <2>2, <3>1 DEF OnItsWay, Agree
  <2> QED BY <1>1, <2>1, <2>2
<1>10. UNCHANGED <<store, identities, coming, skill, restarts, defsPast>> /\ host' = [host EXCEPT ![a] = host[a]]
  BY <1>4 DEF Defs!StopIdentityListeners
<1>11. UNCHANGED <<store, identities, coming, skill, restarts, defsPast>>
  BY <1>10
<1>12. host[a] \in HostType /\ listeners' \in SUBSET (Agents \X (Identities \ coming))
  BY <1>3, <1>4, <1>6
<1> QED BY <1>1, <1>3, <1>5, <1>6, <1>7, <1>8, <1>9, <1>10, <1>11, <1>12, DefsTells

LEMMA DeregisterKeeps == ASSUME DefsIInv, NEW r \in Workers, Defs!Deregister(r) PROVE DefsIInv'
<1>1. PICK a \in req[r].agent : host' = [host EXCEPT ![a] = Defs!Absent]
  BY DEF Defs!Deregister
<1>2. a \in Agents /\ req[r].agent = {a} /\ req[r] \in ReqType /\ Orderly(req[r], coming)
  BY ActsFor
<1>3. listeners \in SUBSET (Agents \X (Identities \ coming))
  BY DEF DefsIInv, DefsTypes
<1> DEFINE l == [req[r] EXCEPT !.step = "done"]
<1>4. Defs!Absent \in HostType /\ Defs!Absent.there = FALSE
  BY DEF Defs!Absent, HostType, Defs!Text, SkillCopies
<1>5. l \in ReqType /\ l.step = "done" /\ l.agent = {a} /\ l.kind = req[r].kind /\ l.want = req[r].want /\ l.copy = req[r].copy
  BY <1>2, StepsTo DEF DefsSteps
<1>6. req' = [req EXCEPT ![r] = l]
  BY DEF Defs!Deregister, Defs!Goes
<1> HIDE DEF l
<1>7. req[r].step = "drop"
  BY DEF Defs!Deregister
<1>8. Orderly(l, coming)
  BY <1>2, <1>5 DEF Orderly
<1>9. Defs!Active(r) /\ UNCHANGED listeners
  BY <1>7 DEF Defs!Active, Defs!Deregister
<1>10. \A b : On(b)' = On(b)
  BY <1>9 DEF On
<1>11. OnItsWay(req[r], store[a], host[a], On(a), identities, Defs!SkillsOf(a)) =>
         Synced(store[a], Defs!Absent, On(a)', identities, Defs!SkillsOf(a))
  <2> SUFFICES ASSUME OnItsWay(req[r], store[a], host[a], On(a), identities, Defs!SkillsOf(a))
               PROVE  Synced(store[a], Defs!Absent, On(a)', identities, Defs!SkillsOf(a))
    OBVIOUS
  <2>1. ~store[a].there /\ store[a].ids = {} /\ Agree(On(a), {}, identities)
    BY <1>7 DEF OnItsWay
  <2>2. store[a].there = FALSE
    BY <1>2, <2>1 DEF DefsIInv, DefsTypes, Defs!Row
  <2> QED BY <1>4, <1>10, <2>1, <2>2 DEF Synced
<1>12. UNCHANGED <<store, identities, coming, skill, restarts, defsPast>>
  BY DEF Defs!Deregister
<1> QED BY <1>1, <1>2, <1>3, <1>4, <1>5, <1>6, <1>8, <1>9, <1>10, <1>11, <1>12, DefsTells

LEMMA StartListenersKeeps == ASSUME DefsIInv, NEW r \in Workers, Defs!StartListeners(r) PROVE DefsIInv'
<1>1. PICK a \in req[r].agent :
        listeners' = IF host[a].there
                     THEN listeners \cup ({a} \X ((req[r].want \ req[r].copy.ids) \cap identities)) ELSE listeners
  BY DEF Defs!StartListeners, Defs!Added
<1>2. a \in Agents /\ req[r].agent = {a} /\ req[r] \in ReqType /\ Orderly(req[r], coming)
  BY ActsFor
<1>3. /\ host \in [Agents -> HostType] /\ listeners \in SUBSET (Agents \X (Identities \ coming))
      /\ identities \in SUBSET (Identities \ coming)
  BY DEF DefsIInv, DefsTypes
<1> DEFINE l == [req[r] EXCEPT !.step = "done"]
<1>4. host[a] \in HostType /\ host' = [host EXCEPT ![a] = host[a]]
  BY <1>2, <1>3 DEF Defs!StartListeners
<1>5. l \in ReqType /\ l.step = "done" /\ l.agent = {a} /\ l.kind = req[r].kind /\ l.want = req[r].want /\ l.copy = req[r].copy
  BY <1>2, StepsTo DEF DefsSteps
<1>6. req' = [req EXCEPT ![r] = l]
  BY DEF Defs!StartListeners, Defs!Goes
<1> HIDE DEF l
<1>7. req[r].step = "start" /\ Defs!Active(r)
  BY DEF Defs!StartListeners, Defs!Active
<1>8. Orderly(l, coming)
  BY <1>2, <1>5 DEF Orderly
<1>9. /\ \A b \in Agents \ {a} : On(b)' = On(b)
      /\ host[a].there => On(a)' = On(a) \cup ((req[r].want \ req[r].copy.ids) \cap identities)
  BY <1>1, <1>2, <1>3 DEF On
<1>10. OnItsWay(req[r], store[a], host[a], On(a), identities, Defs!SkillsOf(a)) =>
         Synced(store[a], host[a], On(a)', identities, Defs!SkillsOf(a))
  BY <1>7, <1>9 DEF OnItsWay, Synced, Agree
<1>11. UNCHANGED <<store, identities, coming, skill, restarts, defsPast>>
  BY DEF Defs!StartListeners
<1>12. listeners' \in SUBSET (Agents \X (Identities \ coming))
  BY <1>1, <1>2, <1>3
<1> QED BY <1>2, <1>4, <1>5, <1>6, <1>7, <1>8, <1>9, <1>10, <1>11, <1>12, DefsTells

\* A request is asked for: it loads what it is about.
LEMMA AskedAgentKeeps ==
  ASSUME DefsIInv, NEW r \in Workers, NEW a \in Agents, NEW q \in ReqType, Defs!Asked(r, q, a), req[r].step = "none",
         q.agent = {a}, q.step = "loaded", Orderly(q, coming), q.copy.there \/ q.kind \notin {"create", "patch", "rules", "identities", "delete"},
         q.kind \in {"patch", "rules", "identities", "delete"} => q.copy = store[a] /\ store[a].there,
         q.kind = "create" => ~store[a].there
  PROVE  DefsIInv'
<1>1. ~Defs!Active(r) /\ req' = [req EXCEPT ![r] = q]
  BY DEF Defs!Active, Defs!Asked
<1>2. UNCHANGED <<store, identities, coming, skill, host, listeners, restarts>>
  BY DEF Defs!Asked
<1>3. UNCHANGED <<store, identities, coming, restarts>>
  BY <1>2
<1>4. /\ host' \in [Agents -> HostType] /\ listeners' \in SUBSET (Agents \X (Identities \ coming))
      /\ skill' \in [Skills -> [owner : {{}} \cup {{b} : b \in Agents}, text : Defs!Text]]
      /\ \A s \in Skills : \A b \in skill'[s].owner : store[b].there
  BY <1>2 DEF DefsIInv, DefsTypes, Defs!Kept
<1>5. /\ defsPast' \in [unsure : SUBSET Agents, unchecked : SUBSET Identities]
      /\ defsPast.unsure \subseteq defsPast'.unsure /\ defsPast'.unchecked = defsPast.unchecked
  BY DEF Defs!Asked, DefsIInv, DefsTypes
<1>6. \A b \in Agents : host'[b] = host[b] /\ On(b)' = On(b) /\ Defs!SkillsOf(b)' = Defs!SkillsOf(b)
  BY <1>2 DEF On, Defs!SkillsOf
<1>7. UpToDate(q, store)
  BY DEF UpToDate
<1>8. ASSUME a \notin defsPast'.unsure
      PROVE  /\ \A o \in Workers \ {r} : ~(req[o].agent = {a} /\ Defs!Active(o))
             /\ OnItsWay(q, store[a], host[a], On(a), identities, Defs!SkillsOf(a))
  <2>1. a \notin defsPast.unsure /\ \A o \in Defs!Of(a) : ~Defs!Active(o)
    BY <1>8 DEF Defs!Asked, DefsIInv, DefsTypes
  <2>2. Synced(store[a], host[a], On(a), identities, Defs!SkillsOf(a))
    BY <2>1 DEF DefsIInv, Follows
  <2>3. OnItsWay(q, store[a], host[a], On(a), identities, Defs!SkillsOf(a))
    BY <2>2 DEF OnItsWay, Agree
  <2> QED BY <2>1, <2>3 DEF Defs!Of
<1>9. a \notin defsPast'.unsure =>
        /\ \A o \in Workers \ {r} : ~(req[o].agent = {a} /\ Defs!Active(o))
        /\ OnItsWay(q, store[a], host'[a], On(a)', identities, Defs!SkillsOf(a)')
  BY <1>6, <1>8
<1>10. \A b \in Agents \ {a} : /\ host'[b] = host[b] /\ On(b)' = On(b)
                               /\ b \notin defsPast'.unsure => Defs!SkillsOf(b)' = Defs!SkillsOf(b)
  BY <1>6
<1> QED BY <1>1, <1>3, <1>4, <1>5, <1>7, <1>9, <1>10, DefsGoesOn

LEMMA AskKeeps == ASSUME DefsIInv, NEW r \in Workers, Defs!Ask(r) PROVE DefsIInv'
<1>1. PICK a \in Agents :
        \/ \E ids \in SUBSET identities : Defs!CreateAgent(r, a, ids)
        \/ \E kind \in Kinds, want \in SUBSET Identities : Defs!ChangeAgent(r, a, kind, want)
        \/ Defs!RemoveAgent(r, a)
        \/ \E s \in Skills, kind \in {"newskill", "skill", "unskill"} : Defs!SkillAsked(r, kind, a, s)
  BY DEF Defs!Ask, Defs!CreateSkill, Defs!UpdateSkill, Defs!RemoveSkill
<1>2. /\ store[a] \in Defs!Row /\ store[a].ids \cap coming = {} /\ identities \in SUBSET Identities
      /\ identities \cap coming = {}
  BY DEF DefsIInv, DefsTypes, Defs!Kept
<1>3. Defs!Nowhere \in Defs!Row /\ Defs!Nowhere.ids = {}
  BY DEF Defs!Nowhere, Defs!Row, Defs!Text
<1>4. ASSUME NEW ids \in SUBSET identities, Defs!CreateAgent(r, a, ids) PROVE DefsIInv'
  <2> DEFINE made == [there |-> TRUE, text |-> r, rules |-> r, ids |-> ids]
             q == [Defs!Unasked EXCEPT !.kind = "create", !.step = "loaded", !.agent = {a}, !.want = ids, !.copy = made]
  <2>1. made \in Defs!Row /\ made.there /\ made.ids = ids
    BY <1>2 DEF Defs!Row, Defs!Text
  <2>2. Defs!Asked(r, q, a) /\ req[r].step = "none" /\ ~store[a].there /\ "create" \in Kinds
    BY <1>4 DEF Defs!CreateAgent
  <2> HIDE DEF made
  <2>3. q \in ReqType /\ q.step = "loaded" /\ q.kind = "create" /\ q.agent = {a} /\ q.copy = made
    BY <1>2, <2>1, <2>2 DEF ReqType, Defs!Unasked, DefsSteps, SkillCopies
  <2> HIDE DEF q
  <2>4. Orderly(q, coming)
    BY <1>2, <2>1, <2>2, <2>3 DEF Orderly
  <2> QED BY <2>1, <2>2, <2>3, <2>4, AskedAgentKeeps
<1>5. ASSUME NEW kind \in Kinds, NEW want \in SUBSET Identities, Defs!ChangeAgent(r, a, kind, want) PROVE DefsIInv'
  <2> DEFINE q == [Defs!Unasked EXCEPT !.kind = kind, !.step = "loaded", !.agent = {a}, !.want = want, !.copy = store[a]]
  <2>1. Defs!Asked(r, q, a) /\ req[r].step = "none" /\ store[a].there /\ kind \in {"patch", "rules", "identities"}
    BY <1>5 DEF Defs!ChangeAgent, Defs!Loaded
  <2>2. q \in ReqType /\ q.step = "loaded" /\ q.kind = kind /\ q.agent = {a} /\ q.copy = store[a]
    BY <1>2 DEF ReqType, Defs!Unasked, DefsSteps, SkillCopies
  <2> HIDE DEF q
  <2>3. Orderly(q, coming)
    BY <1>2, <2>1, <2>2 DEF Orderly
  <2> QED BY <2>1, <2>2, <2>3, AskedAgentKeeps
<1>6. ASSUME Defs!RemoveAgent(r, a) PROVE DefsIInv'
  <2> DEFINE q == [Defs!Unasked EXCEPT !.kind = "delete", !.step = "loaded", !.agent = {a}, !.copy = store[a]]
  <2>1. Defs!Asked(r, q, a) /\ req[r].step = "none" /\ store[a].there /\ "delete" \in Kinds
    BY <1>6 DEF Defs!RemoveAgent, Defs!Loaded
  <2>2. q \in ReqType /\ q.step = "loaded" /\ q.kind = "delete" /\ q.agent = {a} /\ q.copy = store[a] /\ q.want = {}
    BY <1>2, <2>1 DEF ReqType, Defs!Unasked, DefsSteps, SkillCopies
  <2> HIDE DEF q
  <2>3. Orderly(q, coming)
    BY <1>2, <2>1, <2>2 DEF Orderly
  <2> QED BY <2>1, <2>2, <2>3, AskedAgentKeeps
<1>7. ASSUME NEW s \in Skills, NEW kind \in {"newskill", "skill", "unskill"}, Defs!SkillAsked(r, kind, a, s) PROVE DefsIInv'
  <2> DEFINE q == [Defs!Unasked EXCEPT !.kind = kind, !.step = "loaded", !.agent = {a}, !.skill = {s}]
  <2>1. Defs!Asked(r, q, a) /\ req[r].step = "none" /\ kind \in Kinds
    BY <1>7 DEF Defs!SkillAsked
  <2>2. q \in ReqType /\ q.step = "loaded" /\ q.kind = kind /\ q.agent = {a} /\ q.copy = Defs!Nowhere
    BY <1>3, <2>1 DEF ReqType, Defs!Unasked, DefsSteps, SkillCopies
  <2> HIDE DEF q
  <2>3. Orderly(q, coming)
    BY <1>3, <2>1, <2>2 DEF Orderly
  <2> QED BY <2>1, <2>2, <2>3, AskedAgentKeeps
<1> QED BY <1>1, <1>4, <1>5, <1>6, <1>7

(***************************************************************************)
(* Definitions: the steps that change rows.                                *)
(***************************************************************************)
\* A request that is late is as orderly, and has nothing that is held to be as it is stored.
LEMMA LateStays ==
  ASSUME NEW q \in ReqType, NEW late \in BOOLEAN, NEW l, l = [q EXCEPT !.late = late]
  PROVE  /\ l \in ReqType /\ ButForLate(l, q) /\ l.late = late /\ l.step = q.step
         /\ \A to : Orderly(q, to) => Orderly(l, to)
         /\ \A rows : late \/ l.step \notin {"loaded", "checked"} => UpToDate(l, rows)
<1>1. /\ l.step = q.step /\ l.kind = q.kind /\ l.agent = q.agent /\ l.want = q.want /\ l.copy = q.copy /\ l.had = q.had
      /\ l.late = late /\ l \in ReqType
  BY DEF ReqType
<1> QED BY <1>1 DEF ButForLate, Orderly, UpToDate

LEMMA DefsSaves ==
  ASSUME DefsIInv, NEW r \in Workers, NEW a \in Agents, req[r].agent = {a}, Defs!Active(r),
         NEW step \in {"hook", "done"}, Defs!Overtakes(r, step),
         NEW l, l = [req[r] EXCEPT !.step = step], Orderly(l, coming),
         store' \in [Agents -> Defs!Row], identities' \subseteq identities,
         skill' \in [Skills -> [owner : {{}} \cup {{b} : b \in Agents}, text : Defs!Text]],
         UNCHANGED <<coming, host, listeners, restarts>>,
         defsPast' \in [unsure : SUBSET Agents, unchecked : SUBSET Identities], defsPast'.unsure = defsPast.unsure,
         \A b \in Agents : ~store'[b].there => store'[b].ids = {}, Defs!Kept', OneAgentEach',
         \A b \in Agents \ {a} : /\ store'[b].there = store[b].there /\ store'[b].text = store[b].text
                                 /\ Agree(store'[b].ids, store[b].ids, identities')
                                 /\ store[b].ids = {} => store'[b].ids = {}
                                 /\ Defs!SkillsOf(b)' = Defs!SkillsOf(b),
         OnItsWay(req[r], store[a], host[a], On(a), identities, Defs!SkillsOf(a)) =>
           IF step = "hook"
           THEN OnItsWay(l, store'[a], host[a], On(a), identities', Defs!SkillsOf(a)')
           ELSE Synced(store'[a], host[a], On(a), identities', Defs!SkillsOf(a)')
  PROVE  DefsIInv'
<1>1. req \in [Workers -> ReqType] /\ DefsTypes
  BY DEF DefsIInv, DefsTypes
<1>2. l \in ReqType /\ l.step = step /\ l.agent = {a}
  BY <1>1, StepsTo DEF DefsSteps
<1>3. req'[r] = l
  BY DEF Defs!Overtakes
<1>4. ASSUME NEW o \in Workers \ {r}
      PROVE  /\ req'[o] \in ReqType /\ ButForLate(req'[o], req[o]) /\ req'[o].step = req[o].step
             /\ Orderly(req'[o], coming) /\ UpToDate(req'[o], store')
  <2> DEFINE late == req[o].late \/ Defs!Writing(o)
  <2>1. req'[o] = [req[o] EXCEPT !.late = late] /\ req[o] \in ReqType
    BY <1>1 DEF Defs!Overtakes
  <2>2. late \in BOOLEAN /\ (late \/ req[o].step \notin {"loaded", "checked"})
    BY <2>1 DEF ReqType, Defs!Writing
  <2>3. Orderly(req[o], coming)
    BY DEF DefsIInv
  <2> HIDE DEF late
  <2> QED BY <2>1, <2>2, <2>3, LateStays
<1>5. DefsTypes'
  <2>1. req' \in [Workers -> ReqType]
    BY <1>2, <1>3, <1>4 DEF Defs!Overtakes
  <2> QED BY <1>1, <2>1 DEF DefsTypes
<1>6. \A o \in Workers : Orderly(req'[o], coming') /\ UpToDate(req'[o], store')
  <2>1. Orderly(req'[r], coming') /\ UpToDate(req'[r], store')
    BY <1>2, <1>3 DEF UpToDate
  <2> QED BY <1>4, <2>1
<1>7. \A b \in Agents : On(b)' = On(b)
  BY DEF On
<1>8. ASSUME NEW b \in Agents, b # a PROVE Follows(b)'
  <2>1. \A o \in Workers : req'[o].agent = {b} /\ Defs!Active(o)' => ButForLate(req'[o], req[o])
    <3>1. req'[r].agent # {b}
      BY <1>2, <1>3, <1>8
    <3> QED BY <1>4, <3>1
  <2>2. \A o \in Workers : req[o].agent = {b} /\ Defs!Active(o) => ButForLate(req'[o], req[o])
    BY <1>4, <1>8
  <2> QED BY <1>7, <1>8, <2>1, <2>2, Elsewhere
<1>9. Follows(a)'
  <2> SUFFICES ASSUME a \notin defsPast'.unsure PROVE Follows(a)'
    BY DEF Follows
  <2>1. /\ OnItsWay(req[r], store[a], host[a], On(a), identities, Defs!SkillsOf(a))
        /\ \A o \in Workers \ {r} : ~(req[o].agent = {a} /\ Defs!Active(o))
    BY UnderWayAlone
  <2>2. ASSUME NEW o \in Workers \ {r} PROVE ~(req'[o].agent = {a} /\ Defs!Active(o)')
    <3>1. req'[o].agent = req[o].agent
      BY <1>1, <1>4 DEF ButForLate, ReqType
    <3> QED BY <1>4, <2>1, <3>1 DEF Defs!Active
  <2>3. Defs!Active(r)' <=> step = "hook"
    BY <1>2, <1>3 DEF Defs!Active
  <2>4. IF step = "hook" THEN OnItsWay(req'[r], store'[a], host'[a], On(a)', identities', Defs!SkillsOf(a)')
                         ELSE Synced(store'[a], host'[a], On(a)', identities', Defs!SkillsOf(a)')
    BY <1>3, <1>7, <2>1
  <2> QED BY <1>2, <1>3, <2>2, <2>3, <2>4, StepOf
<1> QED BY <1>5, <1>6, <1>8, <1>9 DEF DefsIInv

LEMMA SaveAgentKeeps == ASSUME DefsIInv, NEW r \in Workers, Defs!SaveAgent(r) PROVE DefsIInv'
<1> DEFINE e == Defs!Edited(r)
           step == IF req[r].kind = "identities" /\ Defs!Added(r) \cup Defs!Removed(r) = {} THEN "done" ELSE "hook"
           new == IF req[r].kind = "create" \/ req[r].late THEN e.ids ELSE {}
<1>1. PICK a \in req[r].agent :
        IF e.ids \subseteq identities
        THEN /\ store' = [store EXCEPT ![a] = e] /\ Defs!Overtakes(r, step)
             /\ defsPast' = [defsPast EXCEPT !.unchecked = @ \cup new]
        ELSE Defs!Goes(r, "done") /\ UNCHANGED <<store, defsPast>>
  BY DEF Defs!SaveAgent
<1>2. a \in Agents /\ req[r].agent = {a} /\ req[r] \in ReqType /\ Orderly(req[r], coming) /\ UpToDate(req[r], store)
  BY ActsFor
<1>3. UNCHANGED <<identities, coming, skill, host, listeners, restarts>>
  BY DEF Defs!SaveAgent
<1>4. \/ req[r].kind \in {"create", "patch", "rules"} /\ req[r].step = "loaded"
      \/ req[r].kind = "identities" /\ req[r].step = "checked"
  BY DEF Defs!SaveAgent, Defs!At
<1>5. Defs!Active(r) /\ req[r].copy.there
  BY <1>2, <1>4 DEF Defs!Active, Orderly
<1>6. e \in Defs!Row /\ e.there
  BY <1>2, <1>4, <1>5 DEF Defs!Edited, Defs!Patched, Defs!WithRules, Defs!WithIdentities, ReqType, Defs!Row, Defs!Text
<1>7. /\ req[r].kind = "create" => e = req[r].copy
      /\ req[r].kind \in {"patch", "rules"} => e.ids = req[r].copy.ids
      /\ req[r].kind = "identities" => e.ids = req[r].want /\ e.text = req[r].copy.text
  BY <1>2, <1>4 DEF Defs!Edited, Defs!Patched, Defs!WithRules, Defs!WithIdentities, ReqType, Defs!Row
<1> DEFINE done == [req[r] EXCEPT !.step = "done"]
           l == [req[r] EXCEPT !.step = step]
<1>8. done \in ReqType /\ done.step = "done" /\ done.agent = {a} /\ done.kind = req[r].kind /\ done.want = req[r].want
      /\ done.copy = req[r].copy
  BY <1>2, StepsTo DEF DefsSteps
<1>9. /\ l \in ReqType /\ l.step = step /\ l.agent = {a} /\ l.kind = req[r].kind /\ l.want = req[r].want
      /\ l.copy = req[r].copy /\ step \in {"hook", "done"}
      /\ step = "done" => req[r].kind = "identities" /\ req[r].want = req[r].copy.ids
  <2>1. step \in {"hook", "done"}
    OBVIOUS
  <2>2. ASSUME step = "done" PROVE req[r].kind = "identities" /\ req[r].want = req[r].copy.ids
    <3>1. req[r].kind = "identities" /\ Defs!Added(r) \cup Defs!Removed(r) = {}
      BY <2>2
    <3> QED BY <3>1 DEF Defs!Added, Defs!Removed
  <2> HIDE DEF step
  <2> QED BY <1>2, <2>1, <2>2, StepsTo DEF DefsSteps
<1> HIDE DEF e, done, l, new, step
<1>10. CASE ~(e.ids \subseteq identities)
  <2>1. req' = [req EXCEPT ![r] = done] /\ UNCHANGED <<store, defsPast>>
    BY <1>1, <1>10 DEF Defs!Goes, done
  <2>2. Orderly(done, coming) /\ UpToDate(done, store)
    BY <1>2, <1>8 DEF Orderly, UpToDate
  <2>3. OnItsWay(req[r], store[a], host[a], On(a), identities, Defs!SkillsOf(a)) =>
          Synced(store[a], host[a], On(a), identities, Defs!SkillsOf(a))
    BY <1>4 DEF OnItsWay
  <2>4. UNCHANGED <<store, identities, coming, skill, host, listeners, restarts, defsPast>>
    BY <1>3, <2>1
  <2> QED BY <1>2, <1>5, <1>8, <2>1, <2>2, <2>3, <2>4, DefsStepsOn
<1>11. CASE e.ids \subseteq identities
  <2>1. /\ store' = [store EXCEPT ![a] = e] /\ Defs!Overtakes(r, step)
        /\ defsPast' = [defsPast EXCEPT !.unchecked = @ \cup new]
    BY <1>1, <1>11
  <2>2. /\ store \in [Agents -> Defs!Row] /\ identities \in SUBSET (Identities \ coming)
        /\ skill' \in [Skills -> [owner : {{}} \cup {{b} : b \in Agents}, text : Defs!Text]]
        /\ defsPast \in [unsure : SUBSET Agents, unchecked : SUBSET Identities]
    BY <1>3 DEF DefsIInv, DefsTypes
  <2>3. /\ store' \in [Agents -> Defs!Row] /\ store'[a] = e /\ \A b \in Agents \ {a} : store'[b] = store[b]
        /\ new \in SUBSET e.ids /\ e.ids \in SUBSET Identities
        /\ defsPast' \in [unsure : SUBSET Agents, unchecked : SUBSET Identities] /\ defsPast'.unsure = defsPast.unsure
        /\ defsPast'.unchecked = defsPast.unchecked \cup new
    BY <1>2, <1>6, <2>1, <2>2 DEF Defs!Row, new
  <2>4. Orderly(l, coming)
    BY <1>2, <1>4, <1>7, <1>9, <1>11, <2>2 DEF Orderly
  <2>5. \A b \in Agents : ~store'[b].there => store'[b].ids = {}
    BY <1>6, <2>3 DEF DefsIInv
  <2>6. Defs!Kept'
    <3>1. \A b \in Agents : store'[b].ids \subseteq identities /\ (store[b].there => store'[b].there)
      BY <1>6, <1>11, <2>3 DEF DefsIInv, Defs!Kept
    <3>2. \A s \in Skills : \A b \in skill[s].owner : b \in Agents
      BY DEF DefsIInv, DefsTypes
    <3> QED BY <1>3, <3>1, <3>2 DEF DefsIInv, Defs!Kept
  <2>7. OneAgentEach'
    <3> SUFFICES ASSUME NEW i \in identities \ defsPast'.unchecked, NEW b \in Agents, NEW c \in Agents,
                        i \in store'[b].ids, i \in store'[c].ids
                 PROVE  b = c
      BY <1>3 DEF OneAgentEach
    <3>1. i \in identities \ defsPast.unchecked /\ i \notin new
      BY <2>3
    <3>2. \A x, y \in Agents : i \in store[x].ids /\ i \in store[y].ids => x = y
      BY <3>1 DEF DefsIInv, OneAgentEach
    <3>3. i \in e.ids => i \in store[a].ids \/ \A x \in Agents : i \notin store[x].ids
      BY <1>2, <1>4, <1>7, <3>1 DEF UpToDate, new
    <3> QED BY <1>2, <2>3, <3>2, <3>3
  <2>8. \A b \in Agents : Defs!SkillsOf(b)' = Defs!SkillsOf(b)
    BY <1>3 DEF Defs!SkillsOf
  <2>9. \A b \in Agents \ {a} : /\ store'[b].there = store[b].there /\ store'[b].text = store[b].text
                                /\ Agree(store'[b].ids, store[b].ids, identities')
                                /\ store[b].ids = {} => store'[b].ids = {}
                                /\ Defs!SkillsOf(b)' = Defs!SkillsOf(b)
    BY <2>3, <2>8 DEF Agree
  <2>10. ASSUME OnItsWay(req[r], store[a], host[a], On(a), identities, Defs!SkillsOf(a))
         PROVE  IF step = "hook"
                THEN OnItsWay(l, e, host[a], On(a), identities, Defs!SkillsOf(a))
                ELSE Synced(e, host[a], On(a), identities, Defs!SkillsOf(a))
    <3>0. store[a] \in Defs!Row /\ (~store[a].there => store[a].ids = {})
      BY <1>2, <2>2 DEF DefsIInv
    <3>1. Synced(store[a], host[a], On(a), identities, Defs!SkillsOf(a))
      BY <1>4, <2>10 DEF OnItsWay
    <3>2. CASE req[r].kind = "create"
      <4>1. ~store[a].there /\ store[a].ids = {}
        BY <1>4, <2>10, <3>0, <3>2 DEF OnItsWay
      <4>2. step = "hook" /\ Agree(On(a), {}, identities)
        BY <1>9, <3>1, <3>2, <4>1 DEF Synced
      <4> QED BY <1>6, <1>9, <3>2, <4>2 DEF OnItsWay, Defs!Reloading
    <3>3. CASE req[r].kind \in {"patch", "rules"}
      <4>1. store[a].there /\ Agree(e.ids, store[a].ids, identities)
        BY <1>4, <1>7, <2>10, <3>3 DEF OnItsWay
      <4>2. e.there = store[a].there
        BY <1>6, <3>0, <4>1 DEF Defs!Row
      <4>3. step = "hook" /\ host[a].there = e.there /\ Agree(On(a), e.ids, identities)
        BY <1>9, <3>1, <3>3, <4>1, <4>2 DEF Synced, Agree
      <4> QED BY <1>9, <3>3, <4>3 DEF OnItsWay
    <3>4. CASE req[r].kind = "identities"
      <4>1. store[a].there /\ e.text = store[a].text /\ Agree(req[r].copy.ids, store[a].ids, identities)
        BY <1>4, <1>7, <2>10, <3>4 DEF OnItsWay
      <4>2. e.there = store[a].there
        BY <1>6, <3>0, <4>1 DEF Defs!Row
      <4>3. /\ host[a].there /\ host[a].there = e.there /\ host[a].text = e.text /\ host[a].skills = Defs!SkillsOf(a)
            /\ Agree(On(a), req[r].copy.ids, identities)
        BY <1>6, <3>1, <4>1, <4>2 DEF Synced, Agree
      <4>4. Agree(req[r].want, e.ids, identities)
        BY <1>7, <3>4 DEF Agree
      <4>5. CASE step = "hook"
        BY <1>6, <1>9, <3>4, <4>3, <4>4, <4>5 DEF OnItsWay, Defs!Reloading
      <4>6. CASE step = "done"
        <5>1. Agree(On(a), e.ids, identities)
          BY <1>7, <1>9, <3>4, <4>3, <4>6
        <5> QED BY <4>3, <4>6, <5>1 DEF Synced
      <4> QED BY <1>9, <4>5, <4>6
    <3> QED BY <1>4, <3>2, <3>3, <3>4
  <2>11. OnItsWay(req[r], store[a], host[a], On(a), identities, Defs!SkillsOf(a)) =>
           IF step = "hook"
           THEN OnItsWay(l, store'[a], host[a], On(a), identities', Defs!SkillsOf(a)')
           ELSE Synced(store'[a], host[a], On(a), identities', Defs!SkillsOf(a)')
    BY <1>2, <1>3, <2>3, <2>8, <2>10
  <2>12. UNCHANGED <<coming, host, listeners, restarts>>
    BY <1>3
  <2>13. identities' \subseteq identities
    BY <1>3
  <2>14. l = [req[r] EXCEPT !.step = step]
    BY DEF l
  <2>15. step \in {"hook", "done"}
    BY <1>9
  <2>16. Defs!Overtakes(r, step) /\ req[r].agent = {a} /\ a \in Agents /\ Defs!Active(r)
    BY <1>2, <1>5, <2>1
  <2>17. skill' \in [Skills -> [owner : {{}} \cup {{b} : b \in Agents}, text : Defs!Text]]
    BY <2>2
  <2>18. /\ store' \in [Agents -> Defs!Row] /\ defsPast'.unsure = defsPast.unsure
         /\ defsPast' \in [unsure : SUBSET Agents, unchecked : SUBSET Identities]
    BY <2>3
  <2> QED BY <2>4, <2>5, <2>6, <2>7, <2>9, <2>11, <2>12, <2>13, <2>14, <2>15, <2>16, <2>17, <2>18, DefsSaves
<1> QED BY <1>10, <1>11

LEMMA SameSkills ==
  ASSUME NEW b, \A s \in Skills : /\ b \in skill'[s].owner <=> b \in skill[s].owner
                                  /\ b \in skill[s].owner => skill'[s].text = skill[s].text
  PROVE  Defs!SkillsOf(b)' = Defs!SkillsOf(b)
BY DEF Defs!SkillsOf

LEMMA DeleteAgentKeeps == ASSUME DefsIInv, NEW r \in Workers, Defs!DeleteAgent(r) PROVE DefsIInv'
<1>1. PICK a \in req[r].agent :
        /\ store' = [Defs!Without(store[a].ids \cap Bots) EXCEPT ![a] = Defs!Nowhere]
        /\ identities' = identities \ (store[a].ids \cap Bots)
        /\ skill' = [s \in Skills |-> IF a \in skill[s].owner THEN Defs!NoSkill ELSE skill[s]]
  BY DEF Defs!DeleteAgent
<1>2. a \in Agents /\ req[r].agent = {a} /\ req[r] \in ReqType /\ Orderly(req[r], coming)
  BY ActsFor
<1>3. Defs!Overtakes(r, "hook") /\ req[r].kind = "delete" /\ req[r].step = "loaded" /\ Defs!Active(r)
  BY DEF Defs!DeleteAgent, Defs!At, Defs!Active
<1>4. UNCHANGED <<coming, host, listeners, restarts, defsPast>>
  BY DEF Defs!DeleteAgent
<1>5. /\ store \in [Agents -> Defs!Row] /\ identities \in SUBSET (Identities \ coming)
      /\ skill \in [Skills -> [owner : {{}} \cup {{b} : b \in Agents}, text : Defs!Text]]
      /\ defsPast \in [unsure : SUBSET Agents, unchecked : SUBSET Identities]
  BY DEF DefsIInv, DefsTypes
<1> DEFINE bots == store[a].ids \cap Bots
<1> HIDE DEF bots
<1>6. Defs!Nowhere \in Defs!Row /\ Defs!Nowhere.there = FALSE /\ Defs!Nowhere.ids = {}
  BY DEF Defs!Nowhere, Defs!Row, Defs!Text
<1>7. /\ store' \in [Agents -> Defs!Row] /\ store'[a] = Defs!Nowhere
      /\ \A b \in Agents \ {a} : /\ store'[b].there = store[b].there /\ store'[b].text = store[b].text
                                 /\ store'[b].ids = store[b].ids \ bots
  BY <1>1, <1>2, <1>5, <1>6 DEF Defs!Without, Defs!Row, bots
<1>8. /\ skill' \in [Skills -> [owner : {{}} \cup {{b} : b \in Agents}, text : Defs!Text]]
      /\ \A s \in Skills : skill'[s].owner = skill[s].owner \ {a} /\ (a \notin skill[s].owner => skill'[s] = skill[s])
  BY <1>1, <1>5 DEF Defs!NoSkill, Defs!Text
<1>9. identities' = identities \ bots
  BY <1>1 DEF bots
<1>10. \A b \in Agents : ~store'[b].there => store'[b].ids = {}
  BY <1>6, <1>7 DEF DefsIInv
<1>11. Defs!Kept'
  <2>1. \A b \in Agents : store'[b].ids \subseteq identities'
    BY <1>6, <1>7, <1>9 DEF DefsIInv, Defs!Kept
  <2>2. ASSUME NEW s \in Skills, NEW b \in skill'[s].owner PROVE store'[b].there
    BY <1>5, <1>7, <1>8 DEF DefsIInv, Defs!Kept
  <2> QED BY <2>1, <2>2 DEF Defs!Kept
<1>12. OneAgentEach'
  BY <1>4, <1>6, <1>7, <1>9 DEF DefsIInv, OneAgentEach
<1>13. ASSUME NEW b \in Agents \ {a} PROVE Defs!SkillsOf(b)' = Defs!SkillsOf(b)
  BY <1>5, <1>8, SameSkills
<1>14. \A b \in Agents \ {a} : /\ store'[b].there = store[b].there /\ store'[b].text = store[b].text
                               /\ Agree(store'[b].ids, store[b].ids, identities')
                               /\ store[b].ids = {} => store'[b].ids = {}
                               /\ Defs!SkillsOf(b)' = Defs!SkillsOf(b)
  BY <1>7, <1>9, <1>13 DEF Agree
<1> DEFINE l == [req[r] EXCEPT !.step = "hook"]
<1>15. l \in ReqType /\ l.step = "hook" /\ l.kind = req[r].kind /\ l.want = req[r].want /\ l.agent = {a} /\ l.copy = req[r].copy
  BY <1>2, StepsTo DEF DefsSteps
<1> HIDE DEF l
<1>16. Orderly(l, coming)
  BY <1>2, <1>3, <1>15 DEF Orderly
<1>17. ASSUME OnItsWay(req[r], store[a], host[a], On(a), identities, Defs!SkillsOf(a))
       PROVE  OnItsWay(l, store'[a], host[a], On(a), identities', Defs!SkillsOf(a)')
  <2>1. Agree(On(a), req[r].copy.ids, identities')
    BY <1>3, <1>9, <1>17 DEF OnItsWay, Synced, Agree
  <2> QED BY <1>3, <1>6, <1>7, <1>15, <2>1 DEF OnItsWay, Defs!Reloading
<1>18. defsPast' \in [unsure : SUBSET Agents, unchecked : SUBSET Identities] /\ defsPast'.unsure = defsPast.unsure
  BY <1>4, <1>5
<1>19. UNCHANGED <<coming, host, listeners, restarts>>
  BY <1>4
<1>20. l = [req[r] EXCEPT !.step = "hook"]
  BY DEF l
<1>21. store' \in [Agents -> Defs!Row] /\ identities' \subseteq identities
  BY <1>7, <1>9
<1>22. skill' \in [Skills -> [owner : {{}} \cup {{b} : b \in Agents}, text : Defs!Text]]
  BY <1>8
<1> QED BY <1>2, <1>3, <1>10, <1>11, <1>12, <1>14, <1>16, <1>17, <1>18, <1>19, <1>20, <1>21, <1>22, DefsSaves

\* A capability is saved or deleted: whoever lost one that was not its own to lose may not be told.
LEMMA DefsSkillMoves ==
  ASSUME DefsIInv, NEW r \in Workers, NEW a \in Agents, req[r].agent = {a}, Defs!Active(r),
         req[r].kind \in {"newskill", "skill", "unskill"}, req[r].step = "loaded", Defs!Goes(r, "hook"),
         NEW s \in req[r].skill, NEW given \in [owner : {{}} \cup {{b} : b \in Agents}, text : Defs!Text],
         skill' = [skill EXCEPT ![s] = given], given.owner \subseteq {a}, \A b \in given.owner : store[b].there,
         defsPast' = [defsPast EXCEPT !.unsure = @ \cup (skill[s].owner \ {a})],
         UNCHANGED <<store, identities, coming, host, listeners, restarts>>
  PROVE  DefsIInv'
<1>1. req[r] \in ReqType /\ Orderly(req[r], coming)
  BY ActsFor
<1>2. /\ s \in Skills /\ skill \in [Skills -> [owner : {{}} \cup {{b} : b \in Agents}, text : Defs!Text]]
      /\ defsPast \in [unsure : SUBSET Agents, unchecked : SUBSET Identities]
  BY <1>1 DEF DefsIInv, DefsTypes, ReqType
<1> DEFINE l == [req[r] EXCEPT !.step = "hook"]
<1>3. l \in ReqType /\ l.step = "hook" /\ l.kind = req[r].kind /\ l.want = req[r].want /\ l.agent = {a} /\ l.copy = req[r].copy
  BY <1>1, StepsTo DEF DefsSteps
<1>4. req' = [req EXCEPT ![r] = l]
  BY DEF Defs!Goes
<1> HIDE DEF l
<1>5. Orderly(l, coming) /\ UpToDate(l, store)
  BY <1>1, <1>3 DEF Orderly, UpToDate
<1>6. /\ skill' \in [Skills -> [owner : {{}} \cup {{b} : b \in Agents}, text : Defs!Text]]
      /\ skill'[s] = given /\ \A t \in Skills \ {s} : skill'[t] = skill[t]
  BY <1>2
<1>7. \A t \in Skills : \A b \in skill'[t].owner : store[b].there
  BY <1>6 DEF DefsIInv, Defs!Kept
<1>8. /\ defsPast' \in [unsure : SUBSET Agents, unchecked : SUBSET Identities]
      /\ defsPast.unsure \subseteq defsPast'.unsure /\ defsPast'.unchecked = defsPast.unchecked
      /\ skill[s].owner \ {a} \subseteq defsPast'.unsure
  BY <1>2
<1>9. \A b \in Agents : On(b)' = On(b) /\ host'[b] = host[b]
  BY DEF On
<1>10. ASSUME NEW b \in Agents \ {a}, b \notin defsPast'.unsure PROVE Defs!SkillsOf(b)' = Defs!SkillsOf(b)
  <2>1. b \notin given.owner /\ b \notin skill[s].owner
    BY <1>8, <1>10
  <2>2. \A t \in Skills : /\ b \in skill'[t].owner <=> b \in skill[t].owner
                          /\ b \in skill[t].owner => skill'[t].text = skill[t].text
    BY <1>6, <2>1
  <2> QED BY <2>2, SameSkills
<1>11. \A b \in Agents \ {a} : /\ host'[b] = host[b] /\ On(b)' = On(b)
                               /\ b \notin defsPast'.unsure => Defs!SkillsOf(b)' = Defs!SkillsOf(b)
  BY <1>9, <1>10
<1>12. ASSUME a \notin defsPast'.unsure
       PROVE  /\ \A o \in Workers \ {r} : ~(req[o].agent = {a} /\ Defs!Active(o))
              /\ OnItsWay(l, store[a], host'[a], On(a)', identities, Defs!SkillsOf(a)')
  <2>1. /\ OnItsWay(req[r], store[a], host[a], On(a), identities, Defs!SkillsOf(a))
        /\ \A o \in Workers \ {r} : ~(req[o].agent = {a} /\ Defs!Active(o))
    BY <1>8, <1>12, UnderWayAlone
  <2>2. Synced(store[a], host[a], On(a), identities, Defs!SkillsOf(a))
    BY <2>1 DEF OnItsWay
  <2>3. OnItsWay(l, store[a], host[a], On(a), identities, Defs!SkillsOf(a)')
    BY <1>3, <2>2 DEF OnItsWay, Synced
  <2> QED BY <1>9, <2>1, <2>3
<1>13. host' \in [Agents -> HostType] /\ listeners' \in SUBSET (Agents \X (Identities \ coming))
  BY DEF DefsIInv, DefsTypes
<1>14. UNCHANGED <<store, identities, coming, restarts>>
  OBVIOUS
<1>15. skill' \in [Skills -> [owner : {{}} \cup {{b} : b \in Agents}, text : Defs!Text]]
  BY <1>6
<1> QED BY <1>3, <1>4, <1>5, <1>7, <1>8, <1>11, <1>12, <1>13, <1>14, <1>15, DefsGoesOn

LEMMA SaveSkillKeeps == ASSUME DefsIInv, NEW r \in Workers, Defs!SaveSkill(r) PROVE DefsIInv'
<1>1. PICK a \in req[r].agent, s \in req[r].skill :
        IF store[a].there
        THEN /\ skill' = [skill EXCEPT ![s] = [owner |-> {a}, text |-> r]]
             /\ defsPast' = [defsPast EXCEPT !.unsure = @ \cup (skill[s].owner \ {a})]
             /\ Defs!Goes(r, "hook")
        ELSE Defs!Goes(r, "done") /\ UNCHANGED <<coming, skill, defsPast>>
  BY DEF Defs!SaveSkill
<1>2. a \in Agents /\ req[r].agent = {a} /\ req[r] \in ReqType /\ Orderly(req[r], coming)
  BY ActsFor
<1>3. UNCHANGED <<store, identities, coming, host, listeners, restarts>>
  BY DEF Defs!SaveSkill
<1>4. req[r].kind \in {"newskill", "skill"} /\ req[r].step = "loaded" /\ Defs!Active(r)
  BY DEF Defs!SaveSkill, Defs!At, Defs!Active
<1>5. CASE store[a].there
  <2> DEFINE given == [owner |-> {a}, text |-> r]
  <2>1. given \in [owner : {{}} \cup {{b} : b \in Agents}, text : Defs!Text] /\ given.owner = {a}
    BY <1>2 DEF Defs!Text
  <2>2. skill' = [skill EXCEPT ![s] = given]
    BY <1>1, <1>5
  <2> HIDE DEF given
  <2>3. defsPast' = [defsPast EXCEPT !.unsure = @ \cup (skill[s].owner \ {a})] /\ Defs!Goes(r, "hook")
    BY <1>1, <1>5
  <2> QED BY <1>2, <1>3, <1>4, <1>5, <2>1, <2>2, <2>3, DefsSkillMoves
<1>6. CASE ~store[a].there
  <2> DEFINE l == [req[r] EXCEPT !.step = "done"]
  <2>1. l \in ReqType /\ l.step = "done" /\ l.agent = {a} /\ l.kind = req[r].kind /\ l.want = req[r].want /\ l.copy = req[r].copy
    BY <1>2, StepsTo DEF DefsSteps
  <2>2. req' = [req EXCEPT ![r] = l]
    BY <1>1, <1>6 DEF Defs!Goes
  <2> HIDE DEF l
  <2>3. Orderly(l, coming) /\ UpToDate(l, store)
    BY <1>2, <2>1 DEF Orderly, UpToDate
  <2>4. OnItsWay(req[r], store[a], host[a], On(a), identities, Defs!SkillsOf(a)) =>
          Synced(store[a], host[a], On(a), identities, Defs!SkillsOf(a))
    BY <1>4 DEF OnItsWay
  <2>5. UNCHANGED <<store, identities, coming, skill, host, listeners, restarts, defsPast>>
    BY <1>1, <1>3, <1>6
  <2> QED BY <1>2, <1>4, <2>1, <2>2, <2>3, <2>4, <2>5, DefsStepsOn
<1> QED BY <1>5, <1>6

LEMMA DeleteSkillKeeps == ASSUME DefsIInv, NEW r \in Workers, Defs!DeleteSkill(r) PROVE DefsIInv'
<1>1. req[r].kind = "unskill" /\ req[r].step = "loaded" /\ Defs!Active(r) /\ Defs!Goes(r, "hook")
  BY DEF Defs!DeleteSkill, Defs!At, Defs!Active
<1>2. req[r] \in ReqType /\ Orderly(req[r], coming)
  BY DEF DefsIInv, DefsTypes
<1>3. PICK a \in req[r].agent : a \in Agents /\ req[r].agent = {a}
  BY <1>1, <1>2, ActsFor DEF Orderly
<1>4. PICK s \in req[r].skill : /\ skill' = [skill EXCEPT ![s] = Defs!NoSkill]
                                /\ defsPast' = [defsPast EXCEPT !.unsure = @ \cup (skill[s].owner \ {a})]
  BY <1>3 DEF Defs!DeleteSkill
<1>5. Defs!NoSkill \in [owner : {{}} \cup {{b} : b \in Agents}, text : Defs!Text] /\ Defs!NoSkill.owner = {}
  BY DEF Defs!NoSkill, Defs!Text
<1>6. UNCHANGED <<store, identities, coming, host, listeners, restarts>>
  BY DEF Defs!DeleteSkill
<1> QED BY <1>1, <1>3, <1>4, <1>5, <1>6, DefsSkillMoves

LEMMA DeleteIdentityKeeps == ASSUME DefsIInv, NEW i \in Identities, Defs!DeleteIdentity(i) PROVE DefsIInv'
<1>1. /\ identities' = identities \ {i} /\ store' = Defs!Without({i})
      /\ req' = [q \in Workers |-> [req[q] EXCEPT !.late = @ \/ Defs!Writing(q)]]
      /\ UNCHANGED <<coming, skill, host, listeners, restarts, defsPast>>
  BY DEF Defs!DeleteIdentity
<1>2. DefsTypes
  BY DEF DefsIInv
<1>3. ASSUME NEW q \in Workers
      PROVE  req'[q] \in ReqType /\ ButForLate(req'[q], req[q]) /\ Orderly(req'[q], coming) /\ UpToDate(req'[q], store')
  <2> DEFINE late == req[q].late \/ Defs!Writing(q)
  <2>1. req'[q] = [req[q] EXCEPT !.late = late] /\ req[q] \in ReqType
    BY <1>1, <1>2 DEF DefsTypes
  <2>2. late \in BOOLEAN /\ (late \/ req[q].step \notin {"loaded", "checked"})
    BY <2>1 DEF ReqType, Defs!Writing
  <2>3. Orderly(req[q], coming)
    BY DEF DefsIInv
  <2> HIDE DEF late
  <2> QED BY <2>1, <2>2, <2>3, LateStays
<1>4. /\ store' \in [Agents -> Defs!Row]
      /\ \A b \in Agents : /\ store'[b].there = store[b].there /\ store'[b].text = store[b].text
                           /\ store'[b].ids = store[b].ids \ {i}
  BY <1>1, <1>2 DEF DefsTypes, Defs!Without, Defs!Row
<1>5. DefsTypes'
  BY <1>1, <1>2, <1>3, <1>4 DEF DefsTypes
<1>6. (\A b \in Agents : ~store'[b].there => store'[b].ids = {}) /\ OneAgentEach'
  <2>1. \A b \in Agents : ~store'[b].there => store'[b].ids = {}
    BY <1>4 DEF DefsIInv
  <2>2. \A k \in identities' \ defsPast'.unchecked : k \in identities \ defsPast.unchecked
    BY <1>1
  <2>3. OneAgentEach'
    BY <1>4, <2>2 DEF DefsIInv, OneAgentEach
  <2> QED BY <2>1, <2>3
<1>7. Defs!Kept'
  <2>1. \A s \in Skills : \A b \in skill[s].owner : b \in Agents
    BY <1>2 DEF DefsTypes
  <2> QED BY <1>1, <1>4, <2>1 DEF DefsIInv, Defs!Kept
<1>8. ASSUME NEW b \in Agents PROVE Follows(b)'
  <2>1. Agree(store'[b].ids, store[b].ids, identities') /\ (store[b].ids = {} => store'[b].ids = {})
    BY <1>1, <1>4 DEF Agree
  <2>2. On(b)' = On(b) /\ Defs!SkillsOf(b)' = Defs!SkillsOf(b) /\ host'[b] = host[b]
    BY <1>1 DEF On, Defs!SkillsOf
  <2>3. identities' \subseteq identities /\ defsPast' = defsPast
    BY <1>1
  <2> QED BY <1>3, <1>4, <2>1, <2>2, <2>3, Elsewhere
<1> QED BY <1>1, <1>3, <1>5, <1>6, <1>7, <1>8 DEF DefsIInv

\* An identity nothing refers to yet changes nothing of what is known.
LEMMA MoreToAgreeOn ==
  ASSUME NEW q, NEW s, NEW mine, NEW on, NEW all, NEW had, NEW i, OnItsWay(q, s, mine, on, all, had),
         i \notin s.ids, i \notin on, i \notin q.copy.ids,
         q.step = "start" \/ (q.step = "hook" /\ q.kind = "identities") => i \notin q.want
  PROVE  OnItsWay(q, s, mine, on, all \cup {i}, had)
<1>1. \A X, Y : Agree(X, Y, all) /\ i \notin X /\ i \notin Y => Agree(X, Y, all \cup {i})
  BY DEF Agree
<1> QED BY <1>1 DEF OnItsWay, Synced

LEMMA CreateIdentityKeeps == ASSUME DefsIInv, NEW i \in Identities, Defs!CreateIdentity(i) PROVE DefsIInv'
<1>1. /\ i \in coming /\ identities' = identities \cup {i} /\ coming' = coming \ {i}
      /\ UNCHANGED <<store, skill, host, listeners, req, restarts, defsPast>>
  BY DEF Defs!CreateIdentity
<1>2. DefsTypes
  BY DEF DefsIInv
<1>3. DefsTypes'
  BY <1>1, <1>2 DEF DefsTypes
<1>4. \A b \in Agents : i \notin store[b].ids
  BY <1>1, <1>2 DEF DefsIInv, DefsTypes, Defs!Kept
<1>5. /\ \A b \in Agents : ~store'[b].there => store'[b].ids = {}
      /\ \A q \in Workers : Orderly(req'[q], coming') /\ UpToDate(req'[q], store')
  BY <1>1 DEF DefsIInv, Orderly
<1>6. Defs!Kept' /\ OneAgentEach'
  BY <1>1, <1>4 DEF DefsIInv, Defs!Kept, OneAgentEach
<1>7. ASSUME NEW b \in Agents, b \notin defsPast.unsure PROVE Follows(b)'
  <2>1. On(b)' = On(b) /\ Defs!SkillsOf(b)' = Defs!SkillsOf(b) /\ host'[b] = host[b] /\ i \notin On(b)
    BY <1>1, <1>2 DEF On, Defs!SkillsOf, DefsTypes
  <2>2. Follows(b)
    BY DEF DefsIInv
  <2>3. \A q : Defs!Active(q)' <=> Defs!Active(q)
    BY <1>1 DEF Defs!Active
  <2>4. Synced(store[b], host[b], On(b), identities, Defs!SkillsOf(b)) =>
          Synced(store'[b], host'[b], On(b)', identities', Defs!SkillsOf(b)')
    BY <1>1, <1>4, <2>1 DEF Synced, Agree
  <2>5. ASSUME NEW q \in Defs!Of(b), Defs!Active(q)
        PROVE  OnItsWay(req[q], store'[b], host'[b], On(b)', identities', Defs!SkillsOf(b)')
    <3>1. OnItsWay(req[q], store[b], host[b], On(b), identities, Defs!SkillsOf(b))
      BY <1>7, <2>2, <2>5 DEF Follows
    <3>2. Orderly(req[q], coming)
      BY DEF DefsIInv, Defs!Of
    <3>3. i \notin req[q].copy.ids
      BY <1>1, <3>2 DEF Orderly
    <3>4. req[q].step = "start" \/ (req[q].step = "hook" /\ req[q].kind = "identities") => i \notin req[q].want
      BY <1>1, <3>2 DEF Orderly
    <3>5. OnItsWay(req[q], store[b], host[b], On(b), identities \cup {i}, Defs!SkillsOf(b))
      BY <1>4, <2>1, <3>1, <3>3, <3>4, MoreToAgreeOn
    <3> QED BY <1>1, <2>1, <3>5
  <2>6. Defs!Of(b)' = Defs!Of(b) /\ req' = req
    BY <1>1 DEF Defs!Of
  <2> QED BY <1>7, <2>2, <2>3, <2>4, <2>5, <2>6 DEF Follows
<1>8. \A b \in Agents : Follows(b)'
  <2>1. defsPast' = defsPast
    BY <1>1
  <2> QED BY <1>7, <2>1 DEF Follows
<1> QED BY <1>3, <1>5, <1>6, <1>8 DEF DefsIInv

LEMMA RestartKeeps == ASSUME DefsIInv, Defs!Restart PROVE DefsIInv'
<1>1. /\ restarts < MaxRestarts /\ restarts' = restarts + 1
      /\ host' = [a \in Agents |-> IF store[a].there THEN Defs!Copied(store[a], Defs!SkillsOf(a)) ELSE Defs!Absent]
      /\ listeners' = {l \in Agents \X Identities : l[2] \in store[l[1]].ids}
      /\ req' = [r \in Workers |-> IF Defs!Active(r) THEN [Defs!Unasked EXCEPT !.step = "done"] ELSE req[r]]
      /\ defsPast' = [defsPast EXCEPT !.unsure = {}]
      /\ UNCHANGED <<store, identities, coming, skill>>
  BY DEF Defs!Restart, Defs!Boot
<1>2. DefsTypes /\ Defs!Kept
  BY DEF DefsIInv
<1> DEFINE ended == [Defs!Unasked EXCEPT !.step = "done"]
<1>3. ended \in ReqType /\ ended.step = "done" /\ ended.kind = "none" /\ ended.copy.ids = {}
  BY DEF Defs!Unasked, ReqType, DefsSteps, SkillCopies, Defs!Nowhere, Defs!Row, Defs!Text
<1> HIDE DEF ended
<1>4. \A q \in Workers : IF Defs!Active(q) THEN req'[q] = ended ELSE req'[q] = req[q]
  BY <1>1 DEF ended
<1>5. \A q \in Workers : req'[q] \in ReqType /\ req'[q].step \in {"none", "done"}
  BY <1>2, <1>3, <1>4 DEF DefsTypes, Defs!Active
<1>6. \A q \in Workers : Orderly(req'[q], coming) /\ UpToDate(req'[q], store)
  BY <1>3, <1>4, <1>5 DEF DefsIInv, Orderly, UpToDate
<1>7. \A a \in Agents : Defs!SkillsOf(a) \in SkillCopies
  BY <1>2, SkillsTyped
<1>8. host' \in [Agents -> HostType]
  <2>1. ASSUME NEW a \in Agents, NEW had \in SkillCopies PROVE Defs!Copied(store[a], had) \in HostType
    BY <1>2 DEF DefsTypes, Defs!Row, Defs!Copied, HostType
  <2>2. Defs!Absent \in HostType
    BY DEF Defs!Absent, HostType, Defs!Text, SkillCopies
  <2> QED BY <1>1, <1>7, <2>1, <2>2
<1>9. DefsTypes'
  <2>1. listeners' \in SUBSET (Agents \X (Identities \ coming))
    BY <1>1, <1>2 DEF DefsTypes, Defs!Kept
  <2>2. req' \in [Workers -> ReqType]
    BY <1>1, <1>5
  <2>3. restarts' \in 0 .. MaxRestarts
    BY <1>1, <1>2, DefsFacts DEF DefsTypes
  <2>4. defsPast' \in [unsure : SUBSET Agents, unchecked : SUBSET Identities]
    BY <1>1, <1>2 DEF DefsTypes
  <2> QED BY <1>1, <1>2, <1>8, <2>1, <2>2, <2>3, <2>4 DEF DefsTypes
<1>10. Defs!Kept' /\ OneAgentEach' /\ \A b \in Agents : ~store'[b].there => store'[b].ids = {}
  BY <1>1, <1>2 DEF DefsIInv, DefsTypes, Defs!Kept, OneAgentEach
<1>11. ASSUME NEW b \in Agents PROVE Synced(store'[b], host'[b], On(b)', identities', Defs!SkillsOf(b)')
  <2>1. On(b)' = store[b].ids
    BY <1>1, <1>2 DEF On, DefsTypes, Defs!Row
  <2>2. Defs!SkillsOf(b)' = Defs!SkillsOf(b) /\ store[b].there \in BOOLEAN
    BY <1>1, <1>2 DEF Defs!SkillsOf, DefsTypes, Defs!Row
  <2>3. /\ host'[b].there = store[b].there
        /\ store[b].there => host'[b].text = store[b].text /\ host'[b].skills = Defs!SkillsOf(b)
    BY <1>1, <2>2 DEF Defs!Copied, Defs!Absent
  <2> QED BY <1>1, <2>1, <2>2, <2>3 DEF Synced, Agree
<1>12. \A b \in Agents : Follows(b)'
  <2>1. \A q \in Workers : ~Defs!Active(q)'
    BY <1>5 DEF Defs!Active
  <2> QED BY <1>11, <2>1 DEF Follows, Defs!Of
<1> QED BY <1>1, <1>6, <1>9, <1>10, <1>12 DEF DefsIInv

LEMMA DefsInit == ASSUME Defs!Init PROVE DefsIInv
<1>1. \A a \in Agents : Stored[a] = {} \/ \E ids \in SUBSET Identities : Stored[a] = {ids} /\ UNION Stored[a] = ids
  BY DefsFacts
<1>2. UNION {UNION Stored[a] : a \in Agents} \in SUBSET Identities
  BY <1>1
<1>3. /\ store \in [Agents -> Defs!Row]
      /\ \A a \in Agents : ~store[a].there => store[a].ids = {}
      /\ \A a \in Agents : store[a].ids \subseteq UNION Stored[a]
  <2>1. ASSUME NEW a \in Agents
        PROVE  /\ store[a] \in Defs!Row /\ (~store[a].there => store[a].ids = {})
               /\ store[a].ids \subseteq UNION Stored[a]
    <3>1. UNION Stored[a] \in SUBSET Identities
      BY <1>1
    <3>2. store[a] = IF Stored[a] = {} THEN Defs!Nowhere ELSE [Defs!Nowhere EXCEPT !.there = TRUE, !.ids = UNION Stored[a]]
      BY DEF Defs!Init
    <3>3. CASE Stored[a] = {}
      BY <3>2, <3>3 DEF Defs!Nowhere, Defs!Row, Defs!Text
    <3>4. CASE Stored[a] # {}
      BY <3>1, <3>2, <3>4 DEF Defs!Nowhere, Defs!Row, Defs!Text
    <3> QED BY <3>3, <3>4
  <2>2. DOMAIN store = Agents /\ store = [a \in Agents |-> store[a]]
    BY DEF Defs!Init
  <2> QED BY <2>1, <2>2
<1>4. identities \in SUBSET Identities /\ coming = Identities \ identities
  BY <1>2 DEF Defs!Init
<1>5. Defs!Unasked \in ReqType /\ Defs!Unasked.step = "none" /\ Defs!Unasked.kind = "none" /\ Defs!Unasked.copy.ids = {}
  BY DEF Defs!Unasked, ReqType, DefsSteps, SkillCopies, Defs!Nowhere, Defs!Row, Defs!Text
<1>6. \A q \in Workers : req[q] = Defs!Unasked
  BY DEF Defs!Init
<1>7. \A a \in Agents : store[a].ids \subseteq identities
  BY <1>3 DEF Defs!Init
<1>8. \A s \in Skills : skill[s].owner = {}
  BY DEF Defs!Init, Defs!NoSkill
<1>9. \A a \in Agents : host[a] = IF store[a].there THEN Defs!Copied(store[a], {}) ELSE Defs!Absent
  BY DEF Defs!Init
<1>10. DefsTypes
  <2>1. skill \in [Skills -> [owner : {{}} \cup {{a} : a \in Agents}, text : Defs!Text]]
    BY DEF Defs!Init, Defs!NoSkill, Defs!Text
  <2>2. host \in [Agents -> HostType]
    <3>1. ASSUME NEW a \in Agents PROVE Defs!Copied(store[a], {}) \in HostType
      BY <1>3 DEF Defs!Row, Defs!Copied, HostType, SkillCopies
    <3>2. Defs!Absent \in HostType
      BY DEF Defs!Absent, HostType, Defs!Text, SkillCopies
    <3> QED BY <3>1, <3>2 DEF Defs!Init
  <2>3. req \in [Workers -> ReqType]
    BY <1>5 DEF Defs!Init
  <2>4. restarts \in 0 .. MaxRestarts
    <3>1. restarts = 0 /\ MaxRestarts \in Nat
      BY DefsFacts DEF Defs!Init
    <3> QED BY <3>1
  <2>5. defsPast \in [unsure : SUBSET Agents, unchecked : SUBSET Identities]
    BY <1>4 DEF Defs!Init
  <2>6. listeners \in SUBSET (Agents \X (Identities \ coming))
    BY <1>4, <1>7 DEF Defs!Init
  <2> QED BY <1>3, <1>4, <2>1, <2>2, <2>3, <2>4, <2>5, <2>6 DEF DefsTypes
<1>11. \A q \in Workers : Orderly(req[q], coming) /\ UpToDate(req[q], store)
  BY <1>5, <1>6 DEF Orderly, UpToDate
<1>12. Defs!Kept
  BY <1>7, <1>8 DEF Defs!Kept
<1>13. OneAgentEach
  BY DEF Defs!Init, OneAgentEach
<1>14. ASSUME NEW b \in Agents PROVE Synced(store[b], host[b], On(b), identities, Defs!SkillsOf(b))
  <2>1. On(b) = store[b].ids
    BY <1>4, <1>7 DEF Defs!Init, On
  <2>2. Defs!SkillsOf(b) = {} /\ store[b].there \in BOOLEAN
    BY <1>3, <1>8 DEF Defs!SkillsOf, Defs!Row
  <2>3. host[b].there = store[b].there /\ (store[b].there => host[b].text = store[b].text /\ host[b].skills = {})
    <3>1. CASE store[b].there
      <4>1. host[b] = Defs!Copied(store[b], {}) /\ store[b].there = TRUE
        BY <1>9, <2>2, <3>1
      <4>2. host[b].there = TRUE /\ host[b].text = store[b].text /\ host[b].skills = {}
        BY <4>1 DEF Defs!Copied
      <4> QED BY <4>1, <4>2
    <3>2. CASE ~store[b].there
      <4>1. host[b] = Defs!Absent /\ store[b].there = FALSE
        BY <1>9, <2>2, <3>2
      <4>2. host[b].there = FALSE
        BY <4>1 DEF Defs!Absent
      <4> QED BY <4>1, <4>2
    <3> QED BY <3>1, <3>2
  <2> QED BY <2>1, <2>2, <2>3 DEF Synced, Agree
<1>15. \A b \in Agents : Follows(b)
  <2>1. \A q \in Workers : ~Defs!Active(q)
    BY <1>5, <1>6 DEF Defs!Active
  <2> QED BY <1>14, <2>1 DEF Follows, Defs!Of
<1> QED BY <1>3, <1>10, <1>11, <1>12, <1>13, <1>15 DEF DefsIInv

LEMMA DefsStep == ASSUME DefsIInv, [Defs!Next]_(Defs!vars) PROVE DefsIInv'
<1>1. CASE UNCHANGED Defs!vars
  <2>1. UNCHANGED <<store, identities, coming, skill, host, listeners, req, restarts, defsPast>>
    BY <1>1 DEF Defs!vars
  <2>2. DefsTypes' /\ Defs!Kept' /\ OneAgentEach'
    BY <2>1 DEF DefsIInv, DefsTypes, Defs!Kept, OneAgentEach
  <2>3. ASSUME NEW a \in Agents PROVE Follows(a)'
    <3>1. \A q \in Workers : ButForLate(req'[q], req[q])
      BY <2>1 DEF DefsIInv, DefsTypes, ReqType, ButForLate
    <3>2. Agree(store'[a].ids, store[a].ids, identities')
      BY <2>1 DEF Agree
    <3>3. On(a)' = On(a) /\ Defs!SkillsOf(a)' = Defs!SkillsOf(a)
      BY <2>1 DEF On, Defs!SkillsOf
    <3> QED BY <2>1, <3>1, <3>2, <3>3, Elsewhere
  <2> QED BY <2>1, <2>2, <2>3 DEF DefsIInv
<1>2. ASSUME NEW r \in Workers, Defs!Ask(r) PROVE DefsIInv'
  BY <1>2, AskKeeps
<1>3. ASSUME NEW r \in Workers, Defs!Write(r) PROVE DefsIInv'
  BY <1>3, CheckIdentitiesKeeps, SaveAgentKeeps, DeleteAgentKeeps, SaveSkillKeeps, DeleteSkillKeeps DEF Defs!Write
<1>4. ASSUME NEW r \in Workers, Defs!Tell(r) PROVE DefsIInv'
  BY <1>4, ReadRowKeeps, ReadSkillsKeeps, ReadFailsKeeps, ReloadAgentKeeps, RegisterKeeps, StopIdentityListenersKeeps,
     DeregisterKeeps, StartListenersKeeps DEF Defs!Tell
<1>5. ASSUME NEW i \in Identities, Defs!CreateBotIdentity(i) \/ Defs!CreateOAuthIdentity(i) \/ Defs!DeleteIdentity(i)
      PROVE  DefsIInv'
  BY <1>5, CreateIdentityKeeps, DeleteIdentityKeeps DEF Defs!CreateBotIdentity, Defs!CreateOAuthIdentity
<1>6. CASE Defs!Restart
  BY <1>6, RestartKeeps
<1> QED BY <1>1, <1>2, <1>3, <1>4, <1>5, <1>6 DEF Defs!Next

DefsKept == part = "defs" => DefsIInv

LEMMA DefsInvariance == KeptSpec => []DefsKept
<1>1. KeptInit => DefsKept
  BY DefsInit DEF KeptInit, DefsKept
<1>2. DefsKept /\ [KeptNext]_keptVars => DefsKept'
  <2> SUFFICES ASSUME DefsKept, [KeptNext]_keptVars, part' = "defs" PROVE DefsIInv'
    BY DEF DefsKept
  <2>1. part' = part
    BY DEF KeptNext, keptVars
  <2>2. [Defs!Next]_(Defs!vars)
    BY <2>1 DEF KeptNext, keptVars, defsVars, Defs!vars
  <2> QED BY <2>1, <2>2, DefsStep DEF DefsKept
<1> QED BY <1>1, <1>2, PTL DEF KeptSpec

LEMMA AtMostOne == ASSUME NEW S, \A v, w \in S : v = w PROVE Defs!Cardinality(S) <= 1
<1>0. Defs!Cardinality(S) = Cardinality(S)
  BY DEF Defs!Cardinality, Cardinality
<1>1. CASE S = {}
  BY <1>0, <1>1, FS_EmptySet
<1>2. CASE S # {}
  <2>1. PICK w \in S : TRUE
    BY <1>2
  <2>2. S = {w}
    BY <2>1
  <2>3. Cardinality(S) = 1
    BY <2>2, FS_Singleton
  <2> QED BY <1>0, <2>3
<1> QED BY <1>1, <1>2

\* What is defined holds together: an identity is one agent's ("already claimed by a different agent",
\* setAgentIdentities), nothing stored refers to what is gone (DeleteAgent, deleteIdentity), and when all that was asked
\* about an agent is answered in turn the host runs what is stored (ReloadAgent, Register, Deregister and listeners).
THEOREM DefinitionsHold == KeptSpec => []DefinitionsInv
<1>1. DefsKept => DefinitionsInv
  <2> SUFFICES ASSUME DefsIInv PROVE Defs!DefinitionsInv
    BY DEF DefsKept, DefinitionsInv
  <2>1. Defs!TypeOK
    <3>1. \A r \in Workers : /\ req[r].copy \in Defs!Row /\ req[r].agent \subseteq Agents /\ req[r].want \subseteq Identities
                             /\ req[r].step \in DefsSteps
      BY DEF DefsIInv, DefsTypes, ReqType
    <3>2. skill \in [Skills -> [owner : SUBSET Agents, text : Defs!Text]]
      BY DEF DefsIInv, DefsTypes
    <3>3. host \in [Agents -> [there : BOOLEAN, text : Defs!Text, rules : Defs!Text, skills : SUBSET [id : Skills, text : Defs!Text]]]
      BY DEF DefsIInv, DefsTypes, HostType, SkillCopies
    <3>4. listeners \subseteq Agents \X Identities
      BY DEF DefsIInv, DefsTypes
    <3> QED BY <3>1, <3>2, <3>3, <3>4 DEF DefsIInv, DefsTypes, DefsSteps, Defs!TypeOK
  <2>2. Defs!OneAgentPerIdentity
    <3> SUFFICES ASSUME NEW i \in identities \ defsPast.unchecked
                 PROVE  Defs!Cardinality({a \in Agents : i \in store[a].ids}) <= 1
      BY DEF Defs!OneAgentPerIdentity
    <3>1. \A v, w \in {a \in Agents : i \in store[a].ids} : v = w
      BY DEF DefsIInv, OneAgentEach
    <3> QED BY <3>1, AtMostOne
  <2>3. Defs!HostFollows
    <3> SUFFICES ASSUME NEW a \in Agents \ defsPast.unsure, \A r \in Defs!Of(a) : ~Defs!Active(r)
                 PROVE  /\ host[a].there = store[a].there
                        /\ store[a].there => host[a].text = store[a].text /\ host[a].skills = Defs!SkillsOf(a)
                        /\ \A i \in identities : <<a, i>> \in listeners <=> i \in store[a].ids
      BY DEF Defs!HostFollows
    <3>1. Synced(store[a], host[a], On(a), identities, Defs!SkillsOf(a))
      BY DEF DefsIInv, Follows
    <3>2. \A i \in identities : i \in Identities
      BY DEF DefsIInv, DefsTypes
    <3> QED BY <3>1, <3>2 DEF Synced, Agree, On
  <2> QED BY <2>1, <2>2, <2>3 DEF DefsIInv, Defs!DefinitionsInv
<1> QED BY <1>1, DefsInvariance, PTL

\* What a request about an agent is up to is changed by its own steps.
LEMMA OwnSteps ==
  ASSUME DefsTypes, NEW r \in Workers, NEW o \in Workers \ {r}, Defs!Ask(o) \/ Defs!Write(o) \/ Defs!Tell(o)
  PROVE  req'[r].step = req[r].step
<1>1. req \in [Workers -> ReqType]
  BY DEF DefsTypes
<1>2. ASSUME NEW q, NEW a, Defs!Asked(o, q, a) PROVE req'[r].step = req[r].step
  BY <1>1, <1>2 DEF Defs!Asked
<1>3. ASSUME NEW step, Defs!Goes(o, step) PROVE req'[r].step = req[r].step
  BY <1>1, <1>3 DEF Defs!Goes
<1>4. ASSUME NEW step, Defs!Overtakes(o, step) PROVE req'[r].step = req[r].step
  BY <1>1, <1>4 DEF Defs!Overtakes, ReqType
<1>5. CASE Defs!Ask(o)
  BY <1>2, <1>5 DEF Defs!Ask, Defs!CreateAgent, Defs!ChangeAgent, Defs!RemoveAgent, Defs!CreateSkill, Defs!UpdateSkill,
                    Defs!RemoveSkill, Defs!SkillAsked
<1>6. CASE Defs!Write(o)
  BY <1>3, <1>4, <1>6 DEF Defs!Write, Defs!CheckIdentities, Defs!SaveAgent, Defs!DeleteAgent, Defs!SaveSkill, Defs!DeleteSkill
<1>7. CASE Defs!Tell(o)
  <2>1. ASSUME Defs!ReadRow(o) \/ Defs!ReadSkills(o) \/ Defs!Register(o) PROVE req'[r].step = req[r].step
    BY <1>1, <2>1 DEF Defs!ReadRow, Defs!ReadSkills, Defs!Register
  <2> QED BY <1>3, <1>7, <2>1 DEF Defs!Tell, Defs!ReadFails, Defs!ReloadAgent, Defs!StopIdentityListeners, Defs!Deregister,
                                  Defs!StartListeners
<1> QED BY <1>5, <1>6, <1>7

\* "Only fields present in the JSON body are updated" (patchAgent), and so it is with rules (setAgentRules) and identities
\* (setAgentIdentities): what a request saves of an agent leaves the rest as it is stored, if nothing was saved meanwhile.
THEOREM PartsStay == KeptSpec => SavesItsPart
<1>1. DefsKept /\ [KeptNext]_keptVars => [part = "defs" => Defs!SavesStep]_keptVars
  <2> SUFFICES ASSUME DefsKept, KeptNext, part = "defs" PROVE Defs!SavesStep
    OBVIOUS
  <2>1. DefsIInv /\ Defs!Next
    BY DEF DefsKept, KeptNext
  <2> SUFFICES ASSUME NEW r \in Workers, Defs!Writing(r), ~req[r].late, req'[r].step = "hook", NEW a \in req[r].agent,
                      req[r].kind \in {"patch", "rules", "identities"}
               PROVE  /\ req[r].kind \in {"patch", "identities"} => store'[a].rules = store[a].rules
                      /\ req[r].kind \in {"rules", "identities"} => store'[a].text = store[a].text
                      /\ req[r].kind \in {"patch", "rules"} => store'[a].ids = store[a].ids
    BY DEF Defs!SavesStep
  <2>2. a \in Agents /\ req[r].agent = {a} /\ req[r] \in ReqType /\ UpToDate(req[r], store)
    BY <2>1, ActsFor
  <2>3. req[r].step \in {"loaded", "checked"} /\ DefsTypes
    BY <2>1 DEF Defs!Writing, DefsIInv
  <2>4. req'[r].step # req[r].step
    BY <2>3
  <2>5. Defs!SaveAgent(r)
    <3>1. ~Defs!Restart
      BY <2>2, <2>3, <2>4 DEF Defs!Restart, Defs!Unasked
    <3>2. ASSUME NEW i \in Identities, Defs!CreateBotIdentity(i) \/ Defs!CreateOAuthIdentity(i) \/ Defs!DeleteIdentity(i)
          PROVE  FALSE
      <4>1. req' = req \/ req' = [q \in Workers |-> [req[q] EXCEPT !.late = @ \/ Defs!Writing(q)]]
        BY <3>2 DEF Defs!CreateBotIdentity, Defs!CreateOAuthIdentity, Defs!CreateIdentity, Defs!DeleteIdentity
      <4> QED BY <2>2, <2>4, <4>1 DEF ReqType
    <3>3. Defs!Ask(r) \/ Defs!Write(r) \/ Defs!Tell(r)
      BY <2>1, <2>3, <2>4, <3>1, <3>2, OwnSteps DEF Defs!Next
    <3>4. ~Defs!Ask(r)
      BY <2>3 DEF Defs!Ask, Defs!CreateAgent, Defs!ChangeAgent, Defs!RemoveAgent, Defs!CreateSkill, Defs!UpdateSkill,
                  Defs!RemoveSkill, Defs!SkillAsked
    <3>5. ~Defs!Tell(r)
      BY <2>3 DEF Defs!Tell, Defs!ReadRow, Defs!ReadSkills, Defs!ReadFails, Defs!ReloadAgent, Defs!Register,
                  Defs!StopIdentityListeners, Defs!Deregister, Defs!StartListeners, Defs!At
    <3>6. ~Defs!CheckIdentities(r)
      BY <2>3 DEF DefsTypes, ReqType, Defs!CheckIdentities, Defs!Goes
    <3>7. ~Defs!DeleteAgent(r) /\ ~Defs!SaveSkill(r) /\ ~Defs!DeleteSkill(r)
      BY DEF Defs!DeleteAgent, Defs!SaveSkill, Defs!DeleteSkill, Defs!At
    <3> QED BY <3>3, <3>4, <3>5, <3>6, <3>7 DEF Defs!Write
  <2>6. req[r].copy = store[a] /\ store \in [Agents -> Defs!Row]
    BY <2>2, <2>3 DEF UpToDate, DefsTypes
  <2>7. store' = [store EXCEPT ![a] = Defs!Edited(r)]
    <3>1. req' # [req EXCEPT ![r].step = "done"]
      BY <2>3 DEF DefsTypes, ReqType
    <3> QED BY <2>2, <2>5, <3>1 DEF Defs!SaveAgent, Defs!Goes
  <2>8. store'[a] = Defs!Edited(r)
    BY <2>2, <2>6, <2>7
  <2> QED BY <2>2, <2>6, <2>8 DEF Defs!Edited, Defs!Patched, Defs!WithRules, Defs!WithIdentities, Defs!Row
<1> QED BY <1>1, DefsInvariance, PTL DEF KeptSpec, SavesItsPart
=============================================================================

--------------------------- MODULE FairLeaseProofs ---------------------------
(***************************************************************************)
(* Proofs about FairLease, for any number of jobs, people, agents and       *)
(* workers, any limits, lease and longest transaction: LeaseFair keeps both *)
(* limits, if workers renew only leases in force (Late = {}).               *)
(*                                                                         *)
(* Why it does: the advisory lock lets one call at a time choose and        *)
(* update, so what a call chose still fits when it updates.  Between the    *)
(* two statements leases only end or run out; and what the choice counts as *)
(* running is all that can be in force, since its NOW() is not later than   *)
(* the clock.                                                               *)
(***************************************************************************)
EXTENDS FairLease, FiniteSetTheorems, WellFoundedInduction, TLAPS

-----------------------------------------------------------------------------
(* The inductive invariant. *)

InForce(j) == row[j].status = "running" /\ row[j].left > 0
Group(i, G) == {j \in Jobs : G[j] = G[i]}

(* Who has chosen, or may choose, has the lock. *)
Exclusive == \A w \in Workers : tx[w].step \in {"locked", "chosen"} => lock = w

(* A group's jobs under leases in force are within its limit, *)
Room(G, max) ==
  \A i \in Jobs : Cardinality({j \in Group(i, G) : InForce(j)}) <= max

(* and stay within it if what a call chose is leased as well. *)
ChosenRoom(G, max) ==
  \A w \in Workers : tx[w].step = "chosen" =>
    \A i \in Jobs : Cardinality({j \in Group(i, G) : InForce(j) \/ j \in tx[w].pick}) <= max

IInv ==
  /\ TypeOK /\ Exclusive
  /\ Room(PersonOf, PerPerson) /\ ChosenRoom(PersonOf, PerPerson)
  /\ PerAgent # 0 => Room(AgentOf, PerAgent) /\ ChosenRoom(AgentOf, PerAgent)

-----------------------------------------------------------------------------
(* Sets of jobs. *)

LEMMA JobsFinite == ASSUME NEW S \in SUBSET Jobs PROVE IsFiniteSet(S) /\ Cardinality(S) \in Nat
<1>1. IsFiniteSet(Jobs)
  BY FairConstants, FS_Interval DEF Jobs
<1> QED BY <1>1, FS_Subset, FS_CardinalityType

LEMMA Fewer ==
  ASSUME NEW S \in SUBSET Jobs, NEW T \in SUBSET S
  PROVE  Cardinality(T) <= Cardinality(S)
BY JobsFinite, FS_Subset

LEMMA LastJob ==
  ASSUME NEW S \in SUBSET Jobs, S # {}
  PROVE  \E j \in S : \A i \in S : i <= j
<1> DEFINE U == {N - j : j \in S}
<1>1. U \subseteq Nat /\ U # {}
  <2>1. ASSUME NEW j \in S PROVE N - j \in Nat
    <3>1. j \in 1..N /\ N \in Nat
      BY FairConstants DEF Jobs
    <3> QED BY <3>1
  <2>2. PICK j \in S : TRUE
    OBVIOUS
  <2> QED BY <2>1, <2>2
<1>2. PICK u \in U : \A v \in U : <<v, u>> \notin OpToRel(<, Nat)
  BY <1>1, NatLessThanWellFounded, WFMin
<1>3. PICK j \in S : u = N - j
  BY <1>2
<1>4. ASSUME NEW i \in S PROVE i <= j
  <2>1. <<N - i, N - j>> \notin OpToRel(<, Nat) /\ N - i \in Nat /\ N - j \in Nat
    BY <1>1, <1>2, <1>3
  <2>2. ~(N - i < N - j)
    BY <2>1 DEF OpToRel
  <2> QED BY <2>2, FairConstants DEF Jobs
<1> QED BY <1>4

-----------------------------------------------------------------------------
(* What one call chooses. *)

(* ROW_NUMBER and busy: the last one chosen of a group has room, so they all *)
(* have, beside everything of the group that is in force.                    *)
LEMMA ChoiceFits ==
  ASSUME TypeOK, NEW G, NEW max \in Nat, Room(G, max), NEW s \in Nat,
         NEW P \in SUBSET Candidates(s), \A j \in P : HasRoom(j, s, G, max),
         NEW i \in Jobs
  PROVE  Cardinality({j \in Group(i, G) : InForce(j) \/ j \in P}) <= max
<1> DEFINE Mine_ == {j \in Group(i, G) : j \in P}
           Both  == {j \in Group(i, G) : InForce(j) \/ j \in P}
<1>1. CASE Mine_ = {}
  <2>1. Both = {j \in Group(i, G) : InForce(j)}
    BY <1>1
  <2> QED BY <2>1 DEF Room
<1>2. CASE Mine_ # {}
  <2>1. Mine_ \in SUBSET Jobs
    BY DEF Group
  <2>2. PICK m \in Mine_ : \A k \in Mine_ : k <= m
    BY <1>2, <2>1, LastJob
  <2> DEFINE A == {k \in Candidates(s) : G[k] = G[m] /\ k <= m}
             B == {k \in Jobs : G[k] = G[m] /\ Unexpired(k, s)}
  <2>3. A \in SUBSET Jobs /\ B \in SUBSET Jobs
    BY DEF Candidates
  <2>4. Cardinality(A) + Cardinality(B) <= max
    BY <2>2 DEF HasRoom, Place, Busy
  <2>5. Both \subseteq A \cup B
    <3> SUFFICES ASSUME NEW j \in Both PROVE j \in A \cup B
      OBVIOUS
    <3>1. G[j] = G[m] /\ j \in Jobs
      BY <2>2 DEF Group
    <3>2. CASE j \in P
      BY <2>2, <3>1, <3>2
    <3>3. CASE InForce(j)
      <4>1. row[j].left + s > 0
        BY <3>1, <3>3 DEF InForce, TypeOK
      <4> QED BY <3>1, <3>3, <4>1 DEF InForce, Unexpired
    <3> QED BY <3>2, <3>3
  <2>6. Cardinality(A \cup B) <= Cardinality(A) + Cardinality(B)
    <3>1. A \cap B \in SUBSET Jobs
      BY <2>3
    <3>2. Cardinality(A \cup B) = Cardinality(A) + Cardinality(B) - Cardinality(A \cap B)
      BY <2>3, JobsFinite, FS_Union
    <3> HIDE DEF A, B
    <3> QED BY <2>3, <3>1, <3>2, JobsFinite
  <2>7. A \cup B \in SUBSET Jobs /\ Both \in SUBSET Jobs
    BY <2>3 DEF Group
  <2>8. Cardinality(Both) <= Cardinality(A \cup B)
    BY <2>5, <2>7, Fewer
  <2> HIDE DEF A, B, Both
  <2>9. /\ Cardinality(A) \in Nat /\ Cardinality(B) \in Nat
        /\ Cardinality(A \cup B) \in Nat /\ Cardinality(Both) \in Nat
    BY <2>3, <2>7, JobsFinite
  <2>10. Cardinality(Both) <= max
    BY <2>4, <2>6, <2>8, <2>9
  <2> QED BY <2>10 DEF Both
<1> QED BY <1>1, <1>2

-----------------------------------------------------------------------------
(* Leases that end or run out leave room. *)

Shrinks ==
  /\ \A j \in Jobs : InForce(j)' => InForce(j)
  /\ \A w \in Workers : tx'[w].step = "chosen" => tx[w].step = "chosen" /\ tx'[w].pick = tx[w].pick

LEMMA ShrinksKeepsRoom ==
  ASSUME Shrinks, NEW G, NEW max \in Nat, Room(G, max), ChosenRoom(G, max)
  PROVE  Room(G, max)' /\ ChosenRoom(G, max)'
<1>1. ASSUME NEW i \in Jobs
      PROVE  Cardinality({j \in Group(i, G) : InForce(j)'}) <= max
  <2> DEFINE S == {j \in Group(i, G) : InForce(j)}
             T == {j \in Group(i, G) : InForce(j)'}
  <2>1. S \in SUBSET Jobs /\ T \in SUBSET S
    BY DEF Shrinks, Group
  <2>2. Cardinality(S) <= max
    BY DEF Room
  <2> HIDE DEF S, T
  <2>3. Cardinality(T) <= max
    BY <2>1, <2>2, Fewer, JobsFinite
  <2> QED BY <2>3 DEF T
<1>2. ASSUME NEW w \in Workers, tx'[w].step = "chosen", NEW i \in Jobs
      PROVE  Cardinality({j \in Group(i, G) : InForce(j)' \/ j \in tx'[w].pick}) <= max
  <2> DEFINE S == {j \in Group(i, G) : InForce(j) \/ j \in tx[w].pick}
             T == {j \in Group(i, G) : InForce(j)' \/ j \in tx'[w].pick}
  <2>1. S \in SUBSET Jobs /\ T \in SUBSET S
    BY <1>2 DEF Shrinks, Group
  <2>2. Cardinality(S) <= max
    BY <1>2 DEF Shrinks, ChosenRoom
  <2> HIDE DEF S, T
  <2>3. Cardinality(T) <= max
    BY <2>1, <2>2, Fewer, JobsFinite
  <2> QED BY <2>3 DEF T
<1> QED BY <1>1, <1>2 DEF Room, ChosenRoom, Group

(* Every step but a choice and an update. *)
LEMMA Keeps ==
  ASSUME IInv, Shrinks
  PROVE  /\ Room(PersonOf, PerPerson)' /\ ChosenRoom(PersonOf, PerPerson)'
         /\ PerAgent # 0 => Room(AgentOf, PerAgent)' /\ ChosenRoom(AgentOf, PerAgent)'
BY FairConstants, ShrinksKeepsRoom DEF IInv

LEMMA ChooseKeepsRoom ==
  ASSUME TypeOK, NEW w \in Workers, Choose(w), NEW G, NEW max \in Nat,
         Room(G, max), ChosenRoom(G, max), \A j \in Pick(tx[w].since) : HasRoom(j, tx[w].since, G, max)
  PROVE  Room(G, max)' /\ ChosenRoom(G, max)'
<1>1. row' = row /\ \A j \in Jobs : InForce(j)' <=> InForce(j)
  BY DEF Choose, InForce
<1>2. Room(G, max)'
  BY <1>1 DEF Room, Group
<1>3. ASSUME NEW v \in Workers, tx'[v].step = "chosen", NEW i \in Jobs
      PROVE  Cardinality({j \in Group(i, G) : InForce(j)' \/ j \in tx'[v].pick}) <= max
  <2>1. {j \in Group(i, G) : InForce(j)' \/ j \in tx'[v].pick}
          = {j \in Group(i, G) : InForce(j) \/ j \in tx'[v].pick}
    BY <1>1 DEF Group
  <2>2. CASE v = w
    <3>1. tx'[w].pick = Pick(tx[w].since) /\ tx[w].since \in Nat
      BY FairConstants DEF Choose, TypeOK
    <3>2. Pick(tx[w].since) \in SUBSET Candidates(tx[w].since)
      BY DEF Pick
    <3> QED BY <2>1, <2>2, <3>1, <3>2, ChoiceFits
  <2>3. CASE v # w
    <3>1. tx'[v] = tx[v]
      BY <2>3 DEF Choose, TypeOK
    <3> QED BY <1>3, <2>1, <3>1 DEF ChosenRoom
  <2> QED BY <2>2, <2>3
<1> QED BY <1>2, <1>3 DEF ChosenRoom, Group

LEMMA UpdateKeepsRoom ==
  ASSUME TypeOK, Exclusive, NEW w \in Workers, Update(w), NEW G, NEW max \in Nat, ChosenRoom(G, max)
  PROVE  Room(G, max)' /\ ChosenRoom(G, max)'
<1>1. ASSUME NEW j \in Jobs, InForce(j)' PROVE InForce(j) \/ j \in tx[w].pick
  BY <1>1 DEF Update, InForce
<1>2. ASSUME NEW i \in Jobs
      PROVE  Cardinality({j \in Group(i, G) : InForce(j)'}) <= max
  <2> DEFINE S == {j \in Group(i, G) : InForce(j) \/ j \in tx[w].pick}
             T == {j \in Group(i, G) : InForce(j)'}
  <2>1. S \in SUBSET Jobs /\ T \in SUBSET S
    BY <1>1 DEF Group
  <2>2. Cardinality(S) <= max
    BY DEF Update, ChosenRoom
  <2> HIDE DEF S, T
  <2>3. Cardinality(T) <= max
    BY <2>1, <2>2, Fewer, JobsFinite
  <2> QED BY <2>3 DEF T
<1>3. \A v \in Workers : tx'[v].step # "chosen"
  BY DEF Update, NoTx, Exclusive, TypeOK
<1> QED BY <1>2, <1>3 DEF Room, ChosenRoom, Group

-----------------------------------------------------------------------------
(* Types, and the lock. *)

Row == [status : Status, by : Workers \cup {NoWorker}, left : -MaxWait..Hold]
Tx  == [step : {"idle", "begun", "locked", "chosen"}, since : 0..MaxWait, pick : SUBSET Jobs]

LEMMA InitTypes == Init => TypeOK
BY FairConstants DEF Init, TypeOK, NoTx, Status

LEMMA RowWrites ==
  /\ \A st \in Status, w \in Workers \cup {NoWorker}, n \in -MaxWait..Hold :
       [status |-> st, by |-> w, left |-> n] \in Row
  /\ 0 \in -MaxWait..Hold /\ Hold \in -MaxWait..Hold
  /\ \A n \in 0..MaxWait : Hold - n \in 1..Hold
  /\ NoTx \in Tx
BY FairConstants DEF Row, Tx, NoTx

LEMMA NextTypes == TypeOK /\ [Next]_vars => TypeOK'
<1> SUFFICES ASSUME TypeOK, [Next]_vars PROVE TypeOK'
  OBVIOUS
<1>0. /\ row \in [Jobs -> Row] /\ tx \in [Workers -> Tx]
      /\ lock \in Workers \cup {NoWorker} /\ backs \in 0..MaxBacks
  BY DEF TypeOK, Row, Tx
<1>a. row' \in [Jobs -> Row] /\ tx' \in [Workers -> Tx] /\ lock' \in Workers \cup {NoWorker}
      /\ backs' \in 0..MaxBacks => TypeOK'
  BY DEF TypeOK, Row, Tx
<1>1. ASSUME NEW j \in Jobs, Enqueue(j) PROVE TypeOK'
  <2>1. row' \in [Jobs -> Row]
    BY <1>0, <1>1 DEF Enqueue, Row, Status
  <2> QED BY <1>0, <1>1, <1>a, <2>1 DEF Enqueue
<1>2. ASSUME NEW w \in Workers, Begin(w) \/ Lock(w) PROVE TypeOK'
  <2>1. tx' \in [Workers -> Tx]
    BY <1>0, <1>2 DEF Begin, Lock, Tx
  <2> QED BY <1>0, <1>2, <1>a, <2>1 DEF Begin, Lock
<1>3. ASSUME NEW w \in Workers, Choose(w) PROVE TypeOK'
  <2>1. Pick(tx[w].since) \in SUBSET Jobs
    BY DEF Pick, Candidates
  <2>2. [tx[w] EXCEPT !.step = "chosen", !.pick = Pick(tx[w].since)] \in Tx
    BY <1>0, <2>1 DEF Tx
  <2>3. tx' = [tx EXCEPT ![w] = [tx[w] EXCEPT !.step = "chosen", !.pick = Pick(tx[w].since)]]
    BY <1>3 DEF Choose
  <2>4. tx' \in [Workers -> Tx]
    BY <1>0, <2>2, <2>3
  <2> QED BY <1>0, <1>3, <1>a, <2>4 DEF Choose
<1>4. ASSUME NEW w \in Workers, Update(w) PROVE TypeOK'
  <2>1. ASSUME NEW j \in Jobs PROVE row'[j] \in Row
    <3>1. Hold - tx[w].since \in -MaxWait..Hold
      BY <1>0, RowWrites, FairConstants DEF Tx
    <3> QED BY <1>0, <1>4, <3>1, RowWrites DEF Update, Status
  <2>2. row' \in [Jobs -> Row]
    BY <1>4, <2>1 DEF Update
  <2>3. tx' \in [Workers -> Tx]
    BY <1>0, <1>4, RowWrites DEF Update
  <2> QED BY <1>0, <1>4, <1>a, <2>2, <2>3 DEF Update
<1>5. ASSUME NEW w \in Workers, Rollback(w) PROVE TypeOK'
  <2>1. tx' \in [Workers -> Tx]
    BY <1>0, <1>5, RowWrites DEF Rollback
  <2> QED BY <1>0, <1>5, <1>a, <2>1 DEF Rollback
<1>6. ASSUME NEW w \in Workers, NEW j \in Jobs, Done(w, j) PROVE TypeOK'
  <2>1. row' \in [Jobs -> Row]
    BY <1>0, <1>6, RowWrites DEF Done, Status
  <2> QED BY <1>0, <1>6, <1>a, <2>1 DEF Done
<1>7. ASSUME NEW w \in Workers, NEW j \in Jobs, Release(w, j) PROVE TypeOK'
  <2>1. row' \in [Jobs -> Row]
    BY <1>0, <1>7, RowWrites DEF Release, Status
  <2>2. backs' \in 0..MaxBacks
    BY <1>0, <1>7, FairConstants DEF Release
  <2> QED BY <1>0, <1>7, <1>a, <2>1, <2>2 DEF Release
<1>8. ASSUME NEW w \in Workers, NEW j \in Jobs, Extend(w, j) PROVE TypeOK'
  <2>1. row' \in [Jobs -> Row]
    BY <1>0, <1>8, RowWrites DEF Extend, Row
  <2> QED BY <1>0, <1>8, <1>a, <2>1 DEF Extend
<1>9. CASE DropLiveJobs
  <2>1. row' \in [Jobs -> Row]
    BY <1>0, <1>9, RowWrites DEF DropLiveJobs, Status
  <2> QED BY <1>0, <1>9, <1>a, <2>1 DEF DropLiveJobs
<1>10. CASE Tick
  <2>1. ASSUME NEW j \in Jobs PROVE row'[j] \in Row
    <3>1. row'[j] = [row[j] EXCEPT !.left = IF row[j].status = "running" /\ row[j].left > -MaxWait
                                            THEN row[j].left - 1 ELSE row[j].left]
      BY <1>10 DEF Tick
    <3>2. \A n \in -MaxWait..Hold : (IF row[j].status = "running" /\ n > -MaxWait THEN n - 1 ELSE n)
                                     \in -MaxWait..Hold
      BY FairConstants
    <3>3. row[j].left \in -MaxWait..Hold
      BY <1>0 DEF Row
    <3>4. ASSUME NEW n \in -MaxWait..Hold PROVE [row[j] EXCEPT !.left = n] \in Row
      BY <1>0 DEF Row
    <3> QED BY <3>1, <3>2, <3>3, <3>4
  <2>2. ASSUME NEW w \in Workers PROVE tx'[w] \in Tx
    <3>1. tx'[w] = [tx[w] EXCEPT !.since = IF tx[w].step = "idle" THEN 0 ELSE tx[w].since + 1]
      BY <1>10 DEF Tick
    <3>2. (IF tx[w].step = "idle" THEN 0 ELSE tx[w].since + 1) \in 0..MaxWait
      BY <1>0, <1>10, FairConstants DEF Tick, Tx
    <3>3. ASSUME NEW n \in 0..MaxWait PROVE [tx[w] EXCEPT !.since = n] \in Tx
      BY <1>0 DEF Tx
    <3> QED BY <3>1, <3>2, <3>3
  <2>3. row' \in [Jobs -> Row] /\ tx' \in [Workers -> Tx]
    BY <1>10, <2>1, <2>2 DEF Tick
  <2> QED BY <1>0, <1>10, <1>a, <2>3 DEF Tick
<1>11. CASE UNCHANGED vars
  BY <1>11 DEF vars, TypeOK
<1> QED BY <1>1, <1>2, <1>3, <1>4, <1>5, <1>6, <1>7, <1>8, <1>9, <1>10, <1>11 DEF Next

LEMMA NextExclusive == TypeOK /\ Exclusive /\ [Next]_vars => Exclusive'
<1> SUFFICES ASSUME TypeOK, Exclusive, [Next]_vars PROVE Exclusive'
  OBVIOUS
<1>1. ASSUME lock' = lock, \A w \in Workers : tx'[w].step = tx[w].step PROVE Exclusive'
  BY <1>1 DEF Exclusive
<1>2. ASSUME NEW w \in Workers, Begin(w) PROVE Exclusive'
  BY <1>2 DEF Begin, Exclusive, TypeOK
<1>3. ASSUME NEW w \in Workers, Lock(w) PROVE Exclusive'
  <2>1. \A v \in Workers : tx[v].step \notin {"locked", "chosen"}
    BY <1>3, FairConstants DEF Lock, Exclusive
  <2> QED BY <1>3, <2>1 DEF Lock, Exclusive, TypeOK
<1>4. ASSUME NEW w \in Workers, Choose(w) PROVE Exclusive'
  BY <1>4 DEF Choose, Exclusive, TypeOK
<1>5. ASSUME NEW w \in Workers, Update(w) PROVE Exclusive'
  BY <1>5 DEF Update, Exclusive, TypeOK, NoTx
<1>6. ASSUME NEW w \in Workers, Rollback(w) PROVE Exclusive'
  BY <1>6 DEF Rollback, Exclusive, TypeOK, NoTx
<1>7. CASE Tick
  <2>1. ASSUME NEW w \in Workers PROVE tx'[w].step = tx[w].step
    <3>1. tx'[w] = [tx[w] EXCEPT !.since = IF tx[w].step = "idle" THEN 0 ELSE tx[w].since + 1]
      BY <1>7 DEF Tick
    <3>2. tx[w] \in [step : {"idle", "begun", "locked", "chosen"}, since : 0..MaxWait, pick : SUBSET Jobs]
      BY DEF TypeOK
    <3> QED BY <3>1, <3>2
  <2> QED BY <1>1, <1>7, <2>1 DEF Tick
<1> QED
  BY <1>1, <1>2, <1>3, <1>4, <1>5, <1>6, <1>7
  DEF Next, vars, Enqueue, Done, Release, Extend, DropLiveJobs

-----------------------------------------------------------------------------
(* The steps, and the theorems. *)

LEMMA InitIInv == Init => IInv
<1> SUFFICES ASSUME Init PROVE IInv
  OBVIOUS
<1>1. ASSUME NEW G, NEW max \in Nat PROVE Room(G, max) /\ ChosenRoom(G, max)
  <2>1. ASSUME NEW i \in Jobs PROVE Cardinality({j \in Group(i, G) : InForce(j)}) <= max
    <3>1. {j \in Group(i, G) : InForce(j)} = {}
      BY DEF Init, InForce, Group
    <3> QED BY <3>1, FS_EmptySet
  <2> QED BY <2>1 DEF Init, NoTx, Room, ChosenRoom
<1>2. Exclusive
  BY DEF Init, NoTx, Exclusive
<1> QED BY <1>1, <1>2, InitTypes, FairConstants DEF IInv

LEMMA NextIInv == Late = {} /\ IInv /\ [Next]_vars => IInv'
<1> SUFFICES ASSUME Late = {}, IInv, [Next]_vars PROVE IInv'
  OBVIOUS
<1>1. TypeOK /\ TypeOK' /\ Exclusive /\ Exclusive'
  BY NextTypes, NextExclusive DEF IInv
<1> DEFINE Rooms == /\ Room(PersonOf, PerPerson) /\ ChosenRoom(PersonOf, PerPerson)
                    /\ PerAgent # 0 => Room(AgentOf, PerAgent) /\ ChosenRoom(AgentOf, PerAgent)
<1>2. ASSUME Shrinks PROVE Rooms'
  BY <1>2, Keeps
<1>3. ASSUME NEW j \in Jobs, Enqueue(j) PROVE Shrinks
  BY <1>1, <1>3 DEF Enqueue, Shrinks, InForce, TypeOK
<1>4. ASSUME NEW w \in Workers, Begin(w) \/ Lock(w) \/ Rollback(w) PROVE Shrinks
  BY <1>1, <1>4 DEF Begin, Lock, Rollback, NoTx, Shrinks, InForce, TypeOK
<1>5. ASSUME NEW w \in Workers, Choose(w) PROVE Rooms'
  <2>1. \A j \in Pick(tx[w].since) :
          /\ HasRoom(j, tx[w].since, PersonOf, PerPerson)
          /\ PerAgent # 0 => HasRoom(j, tx[w].since, AgentOf, PerAgent)
    BY DEF Pick
  <2>2. Room(PersonOf, PerPerson)' /\ ChosenRoom(PersonOf, PerPerson)'
    BY <1>1, <1>5, <2>1, ChooseKeepsRoom, FairConstants DEF IInv
  <2>3. PerAgent # 0 => Room(AgentOf, PerAgent)' /\ ChosenRoom(AgentOf, PerAgent)'
    BY <1>1, <1>5, <2>1, ChooseKeepsRoom, FairConstants DEF IInv
  <2> QED BY <2>2, <2>3
<1>6. ASSUME NEW w \in Workers, Update(w) PROVE Rooms'
  BY <1>1, <1>6, UpdateKeepsRoom, FairConstants DEF IInv
<1>7. ASSUME NEW w \in Workers, NEW j \in Jobs, Done(w, j) \/ Release(w, j) PROVE Shrinks
  <2>1. /\ tx' = tx
        /\ \/ row' = [row EXCEPT ![j] = [status |-> "done", by |-> NoWorker, left |-> 0]]
           \/ row' = [row EXCEPT ![j] = [status |-> "new", by |-> NoWorker, left |-> 0]]
    BY <1>7 DEF Done, Release
  <2>2. \A i \in Jobs : InForce(i)' => InForce(i)
    BY <1>1, <2>1 DEF InForce, TypeOK
  <2> QED BY <2>1, <2>2 DEF Shrinks
<1>8. ASSUME NEW w \in Workers, NEW j \in Jobs, Extend(w, j) PROVE Shrinks
  <2>1. InForce(j)
    BY <1>8 DEF Extend, Mine, InForce
  <2> QED BY <1>1, <1>8, <2>1 DEF Extend, Shrinks, InForce, TypeOK
<1>9. CASE DropLiveJobs
  <2>1. Shrinks
    BY <1>1, <1>9 DEF DropLiveJobs, Shrinks, InForce, TypeOK
  <2> QED BY <1>1, <1>2, <2>1 DEF IInv
<1>10. CASE Tick
  <2>1. ASSUME NEW j \in Jobs, InForce(j)' PROVE InForce(j)
    <3>1. row'[j] = [row[j] EXCEPT !.left = IF row[j].status = "running" /\ row[j].left > -MaxWait
                                            THEN row[j].left - 1 ELSE row[j].left]
      BY <1>10 DEF Tick
    <3>2. row[j] \in Row
      BY <1>1 DEF TypeOK, Row
    <3> QED BY <2>1, <3>1, <3>2 DEF InForce, Row
  <2>2. ASSUME NEW w \in Workers PROVE tx'[w].step = tx[w].step /\ tx'[w].pick = tx[w].pick
    <3>1. tx'[w] = [tx[w] EXCEPT !.since = IF tx[w].step = "idle" THEN 0 ELSE tx[w].since + 1]
      BY <1>10 DEF Tick
    <3>2. tx[w] \in Tx
      BY <1>1 DEF TypeOK, Tx
    <3> QED BY <3>1, <3>2 DEF Tx
  <2>3. Shrinks
    BY <2>1, <2>2 DEF Shrinks
  <2> QED BY <1>1, <1>2, <2>3 DEF IInv
<1>11. CASE UNCHANGED vars
  <2>1. Shrinks
    BY <1>11 DEF vars, Shrinks, InForce
  <2> QED BY <1>1, <1>2, <2>1 DEF IInv
<1> HIDE DEF Rooms
<1>12. Rooms' => IInv'
  BY <1>1 DEF IInv, Rooms
<1> QED BY <1>2, <1>3, <1>4, <1>5, <1>6, <1>7, <1>8, <1>9, <1>10, <1>11, <1>12 DEF Next

LEMMA RoomIsWithin ==
  ASSUME NEW G, NEW max, Room(G, max), NEW i \in Jobs
  PROVE  Running(G[i], G) <= max
<1>1. {j \in Jobs : G[j] = G[i] /\ row[j].status = "running" /\ row[j].left > 0}
        = {j \in Group(i, G) : InForce(j)}
  BY DEF Group, InForce
<1> QED BY <1>1 DEF Running, Room

(* Rows, transactions and the lock keep their types, whatever workers do late. *)
THEOREM FairLeaseTypes == Spec => []TypeOK
<1>1. Init => TypeOK
  BY InitTypes
<1>2. TypeOK /\ [Next]_vars => TypeOK'
  BY NextTypes
<1> QED BY <1>1, <1>2, PTL DEF Spec

(* No two calls of LeaseFair are between their lock and their commit at the  *)
(* same time (pg_advisory_xact_lock), whatever workers do late.              *)
THEOREM OneCallAtATime ==
  Spec => [](\A v, w \in Workers : tx[v].step \in {"locked", "chosen"} /\ tx[w].step \in {"locked", "chosen"}
                                   => v = w)
<1>1. Init => TypeOK /\ Exclusive
  BY InitTypes DEF Init, NoTx, Exclusive
<1>2. TypeOK /\ Exclusive /\ [Next]_vars => TypeOK' /\ Exclusive'
  BY NextTypes, NextExclusive
<1>3. Exclusive => \A v, w \in Workers :
        tx[v].step \in {"locked", "chosen"} /\ tx[w].step \in {"locked", "chosen"} => v = w
  BY DEF Exclusive
<1> QED BY <1>1, <1>2, <1>3, PTL DEF Spec

(* However many workers lease at once, wait for one another, time out or lose *)
(* their connection, no person and no agent has more jobs running under      *)
(* leases in force than their limits, as long as only leases in force are    *)
(* renewed (LeaseFair).                                                      *)
THEOREM LimitsHold ==
  ASSUME Late = {}
  PROVE  Spec => []WithinLimits
<1>1. Init => IInv
  BY InitIInv
<1>2. IInv /\ [Next]_vars => IInv'
  BY NextIInv
<1>3. IInv => WithinLimits
  BY RoomIsWithin DEF IInv, WithinLimits, PersonWithinLimit, AgentWithinLimit
<1> QED BY <1>1, <1>2, <1>3, PTL DEF Spec
=============================================================================

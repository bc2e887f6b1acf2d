------------------------------- MODULE JobLife -------------------------------
(***************************************************************************)
(* What the job store promises of its jobs (domain.JobStore), without       *)
(* clocks, attempts and SQL: a lease is a lock that may end by itself.      *)
(*                                                                         *)
(* A job waits, is held by one worker, or is settled, and what is settled   *)
(* stays so.  A job is given to a worker, or given up on, only when no      *)
(* worker's lease on it is in force; a worker's report counts only while    *)
(* the job is still its own.                                                *)
(***************************************************************************)
CONSTANTS Jobs, Workers, NoWorker

VARIABLES
  state,    \* [Jobs -> {"absent", "waiting", "held", "settled"}]
  holder,   \* [Jobs -> Workers \cup {NoWorker}]: whom the job was given to last
  busy,     \* [Workers -> SUBSET Jobs]: what a worker is carrying out
  live      \* [Workers -> SUBSET Jobs]: where its lease is in force

vars == <<state, holder, busy, live>>

Init ==
  /\ state  = [j \in Jobs |-> "absent"]
  /\ holder = [j \in Jobs |-> NoWorker]
  /\ busy   = [w \in Workers |-> {}]
  /\ live   = [w \in Workers |-> {}]

Free(j) == \A v \in Workers : j \notin live[v]

(* The jobs of S become s, in the hands of w. *)
Move(S, s, w) ==
  /\ state'  = [j \in Jobs |-> IF j \in S THEN s ELSE state[j]]
  /\ holder' = [j \in Jobs |-> IF j \in S THEN w ELSE holder[j]]

Add(j) ==
  /\ state[j] = "absent"
  /\ \E s \in {"waiting", "settled"} : Move({j}, s, NoWorker)
  /\ UNCHANGED <<busy, live>>

Take(w, S) ==
  /\ \A j \in S : state[j] \in {"waiting", "held"} /\ Free(j)
  /\ Move(S, "held", w)
  /\ \/ /\ busy' = [busy EXCEPT ![w] = @ \cup S]
        /\ live' = [live EXCEPT ![w] = @ \cup S]
     \/ UNCHANGED <<busy, live>>                     \* it never learns of it

GiveUp(S) ==
  /\ \A j \in S : state[j] = "held" /\ Free(j)
  /\ Move(S, "settled", NoWorker)
  /\ UNCHANGED <<busy, live>>

Renew(w, j) ==
  /\ j \in busy[w]
  /\ state[j] = "held" /\ holder[j] = w
  /\ live' = [live EXCEPT ![w] = @ \cup {j}]
  /\ UNCHANGED <<state, holder, busy>>

(* w is through with j. *)
PutAside(w, j) ==
  /\ j \in busy[w]
  /\ busy' = [busy EXCEPT ![w] = @ \ {j}]
  /\ live' = [live EXCEPT ![w] = @ \ {j}]

Report(w, j) ==
  /\ PutAside(w, j)
  /\ \/ /\ state[j] = "held" /\ holder[j] = w
        /\ \E s \in {"waiting", "settled"} : Move({j}, s, NoWorker)
     \/ UNCHANGED <<state, holder>>

Stop(w) ==
  /\ busy' = [busy EXCEPT ![w] = {}]
  /\ live' = [live EXCEPT ![w] = {}]
  /\ UNCHANGED <<state, holder>>

Lapse ==
  /\ live' \in [Workers -> SUBSET Jobs]
  /\ \A w \in Workers : live'[w] \subseteq live[w]
  /\ UNCHANGED <<state, holder, busy>>

DropAll ==
  /\ Move({j \in Jobs : state[j] \in {"waiting", "held"}}, "settled", NoWorker)
  /\ UNCHANGED <<busy, live>>

Forget(S) ==
  /\ \A j \in S : state[j] = "settled"
  /\ Move(S, "absent", NoWorker)
  /\ UNCHANGED <<busy, live>>

Next ==
  \/ \E j \in Jobs : Add(j)
  \/ \E S \in SUBSET Jobs : GiveUp(S) \/ Forget(S)
  \/ \E w \in Workers :
       \/ \E S \in SUBSET Jobs : Take(w, S)
       \/ \E j \in Jobs : Renew(w, j) \/ Report(w, j)
       \/ Stop(w)
  \/ Lapse
  \/ DropAll

Spec == Init /\ [][Next]_vars
=============================================================================

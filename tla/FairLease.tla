------------------------------ MODULE FairLease ------------------------------
(***************************************************************************)
(* LeaseFair (postgres/jobs.go): leasing jobs so that no person, and no     *)
(* agent, has more than so many of them running at once.                    *)
(*                                                                         *)
(* One call is a transaction in several steps, and other statements run     *)
(* between them: NOW() is read when the transaction begins; then it waits   *)
(* for the advisory lock 'job-lease'; then its one statement chooses rows   *)
(* from a snapshot, and updates them as they are by then.  Under READ       *)
(* COMMITTED a row that changed in between is updated all the same: only    *)
(* p.id = pick.id is looked at again.                                       *)
(*                                                                         *)
(* Jobs are numbered in the order of run_at, id.  Attempts, retries and     *)
(* markInterrupted are the business of JobQueue; here every job has         *)
(* attempts left and is due from the start.                                 *)
(***************************************************************************)
EXTENDS Integers, FiniteSets

CONSTANTS
  N,              \* jobs are 1..N
  PersonOf,       \* [1..N -> people]
  AgentOf,        \* [1..N -> agents]
  PerPerson,      \* most jobs of one person running at once
  PerAgent,       \* most jobs of one agent running at once; 0: no limit
  Workers, NoWorker,
  Limit,          \* most rows one call takes
  Hold,           \* length of a lease, in ticks
  Late,           \* what workers do, of {"extend", "done"}, after a lease ran out
  MaxWait,        \* bound of the model: ticks a transaction may last
  MaxBacks        \* bound of the model: jobs handed back (Release)

Jobs == 1..N

ASSUME FairConstants ==
  /\ N \in Nat \ {0}
  /\ PerPerson \in Nat \ {0} /\ PerAgent \in Nat
  /\ Limit \in Nat \ {0} /\ Hold \in Nat \ {0} /\ MaxWait \in Nat
  /\ MaxWait < Hold
  /\ NoWorker \notin Workers
  /\ Late \subseteq {"extend", "done"}
  /\ MaxBacks \in Nat

VARIABLES
  row,    \* [Jobs -> [status, by, left]]; left: ticks until locked_until
  tx,     \* [Workers -> [step, since, pick]]: the call each worker is making
  lock,   \* who holds the advisory lock 'job-lease'
  backs   \* jobs handed back so far

vars == <<row, tx, lock, backs>>

Status == {"none", "new", "running", "done", "dropped"}
NoTx   == [step |-> "idle", since |-> 0, pick |-> {}]

TypeOK ==
  /\ row \in [Jobs -> [status : Status, by : Workers \cup {NoWorker}, left : -MaxWait..Hold]]
  /\ tx \in [Workers -> [step : {"idle", "begun", "locked", "chosen"},
                         since : 0..MaxWait, pick : SUBSET Jobs]]
  /\ lock \in Workers \cup {NoWorker}
  /\ backs \in 0..MaxBacks

Init ==
  /\ row  = [j \in Jobs |-> [status |-> "none", by |-> NoWorker, left |-> 0]]
  /\ tx   = [w \in Workers |-> NoTx]
  /\ lock = NoWorker
  /\ backs = 0

Enqueue(j) ==
  /\ row[j].status = "none"
  /\ row' = [row EXCEPT ![j].status = "new"]
  /\ UNCHANGED <<tx, lock, backs>>

-----------------------------------------------------------------------------
(* What the statement of LeaseFair reads; s is how long ago NOW() was taken. *)

Unexpired(j, s) == row[j].status = "running" /\ row[j].left + s > 0
Candidates(s)   == {j \in Jobs : \/ row[j].status = "new"
                                 \/ row[j].status = "running" /\ ~Unexpired(j, s)}

(* A job's place among the candidates of a group (ROW_NUMBER), and how many *)
(* of the group are running (busy).                                         *)
Place(j, C, GroupOf) == Cardinality({i \in C : GroupOf[i] = GroupOf[j] /\ i <= j})
Busy(j, s, GroupOf)  == Cardinality({i \in Jobs : GroupOf[i] = GroupOf[j] /\ Unexpired(i, s)})

(* A mistake: the jobs that run already are not counted. *)
HasRoomUncounted(j, s, GroupOf, max) == Place(j, Candidates(s), GroupOf) <= max
(* A mistake: a group at one less than its limit is full. *)
HasRoomStrict(j, s, GroupOf, max) ==
  Place(j, Candidates(s), GroupOf) + Busy(j, s, GroupOf) < max
HasRoom(j, s, GroupOf, max) ==
  Place(j, Candidates(s), GroupOf) + Busy(j, s, GroupOf) <= max

Pick(s) ==
  LET ok == {j \in Candidates(s) : /\ HasRoom(j, s, PersonOf, PerPerson)
                                   /\ PerAgent = 0 \/ HasRoom(j, s, AgentOf, PerAgent)}
  IN  {j \in ok : Cardinality({i \in ok : i <= j}) <= Limit}

-----------------------------------------------------------------------------
(* The steps of one call. *)

Begin(w) ==
  /\ tx[w].step = "idle"
  /\ tx' = [tx EXCEPT ![w].step = "begun"]
  /\ UNCHANGED <<row, lock, backs>>

Lock(w) ==
  /\ tx[w].step = "begun"
  /\ lock = NoWorker
  /\ lock' = w
  /\ tx' = [tx EXCEPT ![w].step = "locked"]
  /\ UNCHANGED <<row, backs>>

Choose(w) ==
  /\ tx[w].step = "locked"
  /\ tx' = [tx EXCEPT ![w].step = "chosen", ![w].pick = Pick(tx[w].since)]
  /\ UNCHANGED <<row, lock, backs>>

(* The update of the chosen rows, whatever became of them, and the commit.  *)
Update(w) ==
  /\ tx[w].step = "chosen"
  /\ row' = [j \in Jobs |->
               IF j \in tx[w].pick /\ row[j].status # "none"
               THEN [status |-> "running", by |-> w, left |-> Hold - tx[w].since]
               ELSE row[j]]
  /\ tx' = [tx EXCEPT ![w] = NoTx]
  /\ lock' = NoWorker
  /\ UNCHANGED backs

(* The connection breaks, or scanJobs fails: the transaction is rolled back. *)
Rollback(w) ==
  /\ tx[w].step # "idle"
  /\ tx' = [tx EXCEPT ![w] = NoTx]
  /\ lock' = IF lock = w THEN NoWorker ELSE lock
  /\ UNCHANGED <<row, backs>>

-----------------------------------------------------------------------------
(* The other statements, each atomic. *)

Mine(w, j) == row[j].by = w /\ row[j].status = "running"

Done(w, j) ==
  /\ Mine(w, j)
  /\ row[j].left > 0 \/ "done" \in Late
  /\ row' = [row EXCEPT ![j] = [status |-> "done", by |-> NoWorker, left |-> 0]]
  /\ UNCHANGED <<tx, lock, backs>>

Release(w, j) ==
  /\ Mine(w, j)
  /\ row' = [row EXCEPT ![j] = [status |-> "new", by |-> NoWorker, left |-> 0]]
  /\ backs < MaxBacks
  /\ backs' = backs + 1
  /\ UNCHANGED <<tx, lock>>

Extend(w, j) ==
  /\ Mine(w, j)
  /\ row[j].left > 0 \/ "extend" \in Late
  /\ row' = [row EXCEPT ![j].left = Hold]
  /\ UNCHANGED <<tx, lock, backs>>

DropLiveJobs ==
  /\ \E j \in Jobs : row[j].status \in {"new", "running"}
  /\ row' = [j \in Jobs |-> IF row[j].status \in {"new", "running"}
                            THEN [status |-> "dropped", by |-> NoWorker, left |-> 0]
                            ELSE row[j]]
  /\ UNCHANGED <<tx, lock, backs>>

Tick ==
  /\ \A w \in Workers : tx[w].step # "idle" => tx[w].since < MaxWait     \* bound
  /\ row' = [j \in Jobs |-> [row[j] EXCEPT
               !.left = IF row[j].status = "running" /\ @ > -MaxWait THEN @ - 1 ELSE @]]
  /\ tx' = [w \in Workers |-> [tx[w] EXCEPT
               !.since = IF tx[w].step = "idle" THEN 0 ELSE @ + 1]]
  /\ UNCHANGED <<lock, backs>>

Next ==
  \/ \E j \in Jobs : Enqueue(j)
  \/ \E w \in Workers :
       \/ Begin(w) \/ Lock(w) \/ Choose(w) \/ Update(w) \/ Rollback(w)
       \/ \E j \in Jobs : Done(w, j) \/ Release(w, j) \/ Extend(w, j)
  \/ DropLiveJobs
  \/ Tick

Spec == Init /\ [][Next]_vars

(* Workers keep leasing, their transactions usually commit, and they finish  *)
(* what they run.                                                            *)
Fairness ==
  /\ WF_vars(\E w \in Workers : Begin(w))
  /\ SF_vars(\E w \in Workers : Lock(w))
  /\ SF_vars(\E w \in Workers : Choose(w))
  /\ SF_vars(\E w \in Workers : Update(w))
  /\ \A j \in Jobs : SF_vars(\E w \in Workers : Done(w, j))

FairSpec == Spec /\ Fairness

-----------------------------------------------------------------------------
(* Properties. *)

Running(g, GroupOf) ==
  Cardinality({j \in Jobs : GroupOf[j] = g /\ row[j].status = "running" /\ row[j].left > 0})

(* However many workers lease at once, wait for one another or time out, no  *)
(* person has more than PerPerson jobs running under leases in force         *)
(* (LeaseFair; workers renew only leases in force).                          *)
PersonWithinLimit == \A j \in Jobs : Running(PersonOf[j], PersonOf) <= PerPerson

(* The same for one agent and PerAgent. *)
AgentWithinLimit ==
  PerAgent # 0 => \A j \in Jobs : Running(AgentOf[j], AgentOf) <= PerAgent

(* A waiting job is taken in the end, as often as it is handed back, although *)
(* others of its person and its agent are ahead of it and may fill the limits *)
(* meanwhile.                                                                *)
NobodyStarves == \A j \in Jobs : []<>(row[j].status # "new")

(* However many workers call LeaseFair at once, both limits hold, on rows that *)
(* keep their types.                                                         *)
WithinLimits == TypeOK /\ PersonWithinLimit /\ AgentWithinLimit
-----------------------------------------------------------------------------
(* Said of the code, and not kept by it (README, "Disagreements"). *)

(* Switching the pipeline off "leaves nothing behind that a later start      *)
(* would run late" (DropLiveJobs): a dropped job is not handed out.          *)
DroppedStays ==
  [][\A j \in Jobs : row[j].status = "dropped" => row'[j].status = "dropped"]_vars
=============================================================================

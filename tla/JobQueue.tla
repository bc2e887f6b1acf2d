------------------------------ MODULE JobQueue ------------------------------
(***************************************************************************)
(* The job queue of the events pipeline: the table pipeline_jobs and the   *)
(* statements of postgres/jobs.go that several workers run against it at   *)
(* once.  A job is leased for a while; its worker reports how it went, or  *)
(* dies, and then the lease runs out and the job is handed out again until *)
(* it has been started as often as it may.                                 *)
(*                                                                         *)
(* Every SQL statement is one atomic step.  Lease and TakeInterrupted run  *)
(* TWO statements, each in a transaction of its own: markInterrupted, and  *)
(* then the statement that takes rows.  They are two steps here, and time  *)
(* may pass between them unless Prompt.                                    *)
(*                                                                         *)
(* A member of Jobs is a pair (alert, repeat key), which is unique in the  *)
(* table.  Time is relative: a row keeps how many ticks its lease and its  *)
(* run_at are away, so the model needs no clock and no bound on time.      *)
(* Which due rows come first (ORDER BY run_at, id) is left open.           *)
(*                                                                         *)
(* The workers live in another repository; what they do is modelled from   *)
(* the contract of domain.JobStore (domain/pipeline.go).                   *)
(***************************************************************************)
EXTENDS Integers, FiniteSets

CONSTANTS
  Jobs,           \* pairs (alert, repeat key)
  Workers,        \* worker names
  NoWorker,       \* locked_by = ''
  MaxAttempts,    \* [Jobs -> 1..6], column max_attempts
  Shadow,         \* jobs that are recorded and never run
  Hold,           \* length of a lease, in ticks
  Retry,          \* how far Fail and Defer push run_at, in ticks
  Keep,           \* retention of done, dropped and shadow jobs
  KeepProblems,   \* retention of failed and interrupted jobs
  Limit,          \* the most rows one lease takes
  Prompt,         \* TRUE: no tick between the two statements of a lease
  (* Bounds of the model, not of the code: *)
  MaxFaults,      \* crashes and lost replies
  MaxBacks,       \* jobs handed back uncounted (Defer, Release)
  Overrun         \* leases of one row beyond MaxAttempts

ASSUME ConstantsOK ==
  /\ NoWorker \notin Workers
  /\ MaxAttempts \in [Jobs -> Nat \ {0}]
  /\ Shadow \subseteq Jobs
  /\ Hold \in Nat \ {0}
  /\ Retry \in Nat
  /\ Keep \in Nat
  /\ KeepProblems \in Nat
  /\ Hold <= Keep /\ Hold <= KeepProblems    \* retention outlasts a lease
  /\ Limit \in Nat \ {0}
  /\ Prompt \in BOOLEAN
  /\ MaxFaults \in Nat
  /\ MaxBacks \in Nat
  /\ Overrun \in Nat

VARIABLES
  row,      \* [Jobs -> Row]: the table
  pc,       \* [Workers -> {"idle", "lease", "tell"}]: which second statement is next
  run,      \* [Workers -> [Jobs -> Run]]: what each worker is carrying out
  starts,   \* [Jobs -> Nat]: history, how often the row's job was really started
  faults,   \* crashes and lost replies so far
  backs     \* uncounted hand-backs so far

vars == <<row, pc, run, starts, faults, backs>>

Settled == {"done", "dropped", "failed", "interrupted", "shadow"}
Live    == {"new", "running"}
Status  == {"none"} \cup Live \cup Settled     \* "none": there is no such row

(* The oldest age the retention can tell apart. *)
AgeCap == IF Keep > KeepProblems THEN Keep + 1 ELSE KeepProblems + 1

Row == [status   : Status,
        attempts : Nat,
        by       : Workers \cup {NoWorker},   \* locked_by
        left     : 0..Hold,                   \* until locked_until
        dueIn    : 0..Retry,                  \* until run_at
        age      : 0..AgeCap,                 \* since finished_at (created_at)
        told     : BOOLEAN]                   \* told_at IS NOT NULL

Run == [phase : {"no", "held", "started"},
        left  : 0..Hold]                      \* of the lease, as its worker knows

NoRow == [status |-> "none", attempts |-> 0, by |-> NoWorker, left |-> 0,
          dueIn |-> 0, age |-> 0, told |-> FALSE]
NoRun == [phase |-> "no", left |-> 0]

Init ==
  /\ row    = [j \in Jobs |-> NoRow]
  /\ pc     = [w \in Workers |-> "idle"]
  /\ run    = [w \in Workers |-> [j \in Jobs |-> NoRun]]
  /\ starts = [j \in Jobs |-> 0]
  /\ faults = 0
  /\ backs  = 0

-----------------------------------------------------------------------------
(* Storing a job. *)

(* Enqueue: ON CONFLICT (alert_id, repeat_key) DO NOTHING. *)
Enqueue(j) ==
  /\ row[j].status = "none"
  /\ row' = [row EXCEPT ![j] = [NoRow EXCEPT
               !.status = IF j \in Shadow THEN "shadow" ELSE "new"]]
  /\ starts' = [starts EXCEPT ![j] = 0]
  /\ UNCHANGED <<pc, run, faults, backs>>

-----------------------------------------------------------------------------
(* Taking jobs. *)

(* A mistake: the lease's end is not looked at. *)
LapsedAnyTime(j) == row[j].status = "running"
Lapsed(j) == row[j].status = "running" /\ row[j].left = 0
Due(j)    == (row[j].status = "new" /\ row[j].dueIn = 0) \/ Lapsed(j)

(* A lease that ran out after its last allowed attempt. *)
Exhausted(j) == Lapsed(j) /\ row[j].attempts >= MaxAttempts[j]

SettledRow(r, s) == [r EXCEPT !.status = s, !.by = NoWorker, !.left = 0, !.age = 0]

(* markInterrupted, the first statement of Lease and of TakeInterrupted. *)
MarkInterrupted(w, next) ==
  /\ pc[w] = "idle"
  /\ pc' = [pc EXCEPT ![w] = next]
  /\ row' = [j \in Jobs |-> IF Exhausted(j) THEN SettledRow(row[j], "interrupted")
                                            ELSE row[j]]
  /\ UNCHANGED <<run, starts, faults, backs>>

LeasedRow(r, w) == [r EXCEPT !.status = "running", !.attempts = @ + 1,
                             !.by = w, !.left = Hold]

(* The rows a lease takes: as many as are due, up to Limit.  A row skipped  *)
(* because another statement has it locked counts as not due: that          *)
(* statement went first.  Overrun bounds how often one row may be leased    *)
(* beyond its attempts; the code has no such bound.                         *)
Takeable == {j \in Jobs : Due(j) /\ row[j].attempts < MaxAttempts[j] + Overrun}

Batch(S) ==
  /\ S \subseteq Takeable
  /\ Cardinality(S) <= Limit
  /\ Cardinality(S) = Limit \/ S = Takeable

(* The second statement of Lease.  It has no guard on attempts. *)
Take(w, S) ==
  /\ pc[w] = "lease"
  /\ Batch(S)
  /\ pc' = [pc EXCEPT ![w] = "idle"]
  /\ row' = [j \in Jobs |-> IF j \in S THEN LeasedRow(row[j], w) ELSE row[j]]

Lease(w, S) ==
  /\ Take(w, S)
  /\ run' = [run EXCEPT ![w] = [j \in Jobs |->
               IF j \in S THEN [phase |-> "held", left |-> Hold] ELSE run[w][j]]]
  /\ UNCHANGED <<starts, faults, backs>>

(* The rows are leased but the worker never learns it: the connection broke, *)
(* its context ended, or scanJobs met facts it cannot read.                  *)
LeaseLost(w, S) ==
  /\ faults < MaxFaults
  /\ S # {}
  /\ Take(w, S)
  /\ faults' = faults + 1
  /\ UNCHANGED <<run, starts, backs>>

(* The second statement of TakeInterrupted: told_at is set as the jobs are   *)
(* handed over, before anybody is told.                                      *)
Untold == {j \in Jobs : row[j].status = "interrupted" /\ ~row[j].told}

TakeInterrupted(w) ==
  /\ pc[w] = "tell"
  /\ pc' = [pc EXCEPT ![w] = "idle"]
  /\ \E S \in SUBSET Untold :
       /\ Cardinality(S) <= Limit
       /\ Cardinality(S) = Limit \/ S = Untold
       /\ row' = [j \in Jobs |-> IF j \in S THEN [row[j] EXCEPT !.told = TRUE] ELSE row[j]]
  /\ UNCHANGED <<run, starts, faults, backs>>

-----------------------------------------------------------------------------
(* Reporting on a leased job.  Each call applies only where                *)
(* id = $1 AND locked_by = $2 AND status = 'running'.                      *)

(* A mistake: whose lease it is is not looked at. *)
MineAnyone(w, j) == row[j].status = "running"
Mine(w, j) == row[j].by = w /\ row[j].status = "running"

(* A call about j: it changes the row to r if the lease is still w's, and   *)
(* the worker is through with the job either way.                           *)
Report(w, j, r) ==
  /\ row' = IF Mine(w, j) THEN [row EXCEPT ![j] = r] ELSE row
  /\ run' = [run EXCEPT ![w][j] = NoRun]
  /\ UNCHANGED <<pc, starts, faults>>

(* The worker begins the job, while it knows its lease to be good. *)
Start(w, j) ==
  /\ run[w][j].phase = "held"
  /\ run[w][j].left > 0
  /\ run' = [run EXCEPT ![w][j].phase = "started"]
  /\ starts' = [starts EXCEPT ![j] = @ + 1]
  /\ UNCHANGED <<row, pc, faults, backs>>

Extend(w, j) ==
  /\ run[w][j].phase # "no"
  /\ row' = IF Mine(w, j) THEN [row EXCEPT ![j].left = Hold] ELSE row
  /\ run' = [run EXCEPT ![w][j] =
               IF Mine(w, j) THEN [@ EXCEPT !.left = Hold] ELSE NoRun]
  /\ UNCHANGED <<pc, starts, faults, backs>>

(* Done, Drop and FailFinal: all are finish with another status. *)
Finish(w, j, s) ==
  /\ run[w][j].phase = "started"
  /\ Report(w, j, SettledRow(row[j], s))
  /\ UNCHANGED backs

(* A mistake: the limit on attempts is forgotten. *)
FailedRowAgain(r, max) ==
  [r EXCEPT !.status = "new", !.by = NoWorker, !.left = 0, !.dueIn = Retry]

(* Fail: tried again later, or failed once it was started as often as it may. *)
FailedRow(r, max) ==
  IF r.attempts >= max
  THEN SettledRow(r, "failed")
  ELSE [r EXCEPT !.status = "new", !.by = NoWorker, !.left = 0, !.dueIn = Retry]

Fail(w, j) ==
  /\ run[w][j].phase = "started"
  /\ Report(w, j, FailedRow(row[j], MaxAttempts[j]))
  /\ UNCHANGED backs

(* Back to new, the attempt not counted. *)
BackRow(r, due) ==
  [r EXCEPT !.status = "new", !.by = NoWorker, !.left = 0, !.dueIn = due,
            !.attempts = IF @ > 0 THEN @ - 1 ELSE 0]

(* Defer sets run_at; Release leaves it, and a leased job's is in the past. *)
Defer(w, j) ==
  /\ run[w][j].phase = "held"
  /\ backs < MaxBacks
  /\ backs' = backs + 1
  /\ Report(w, j, BackRow(row[j], Retry))

Release(w, j) ==
  /\ run[w][j].phase = "held"
  /\ backs < MaxBacks
  /\ backs' = backs + 1
  /\ Report(w, j, BackRow(row[j], 0))

(* A job whose lease ran out before it was begun is put aside. *)
Abandon(w, j) ==
  /\ run[w][j].phase = "held"
  /\ run[w][j].left = 0
  /\ run' = [run EXCEPT ![w][j] = NoRun]
  /\ UNCHANGED <<row, pc, starts, faults, backs>>

-----------------------------------------------------------------------------
(* Retention, switching off, failures and time. *)

OldJobs ==
  {j \in Jobs : \/ row[j].status \in {"done", "dropped", "shadow"} /\ row[j].age > Keep
                \/ row[j].status \in {"failed", "interrupted"} /\ row[j].age > KeepProblems}

PurgeJobs ==
  /\ OldJobs # {}
  /\ row' = [j \in Jobs |-> IF j \in OldJobs THEN NoRow ELSE row[j]]
  /\ UNCHANGED <<pc, run, starts, faults, backs>>

(* A mistake: whatever has not been purged is dropped. *)
DropAllJobs ==
  /\ \E j \in Jobs : row[j].status # "none"
  /\ row' = [j \in Jobs |-> IF row[j].status # "none"
                            THEN SettledRow(row[j], "dropped") ELSE row[j]]
  /\ UNCHANGED <<pc, run, starts, faults, backs>>

DropLiveJobs ==
  /\ \E j \in Jobs : row[j].status \in Live
  /\ row' = [j \in Jobs |-> IF row[j].status \in Live
                            THEN SettledRow(row[j], "dropped") ELSE row[j]]
  /\ UNCHANGED <<pc, run, starts, faults, backs>>

(* A worker stops where it is; one of the same name starts afresh. *)
Crash(w) ==
  /\ faults < MaxFaults
  /\ faults' = faults + 1
  /\ pc' = [pc EXCEPT ![w] = "idle"]
  /\ run' = [run EXCEPT ![w] = [j \in Jobs |-> NoRun]]
  /\ UNCHANGED <<row, starts, backs>>

Less(n) == IF n > 0 THEN n - 1 ELSE 0

Tick ==
  /\ Prompt => \A w \in Workers : pc[w] = "idle"
  /\ row' = [j \in Jobs |-> [row[j] EXCEPT
               !.left = Less(@), !.dueIn = Less(@),
               !.age = IF row[j].status \in Settled /\ @ < AgeCap THEN @ + 1 ELSE @]]
  /\ run' = [w \in Workers |-> [j \in Jobs |-> [run[w][j] EXCEPT !.left = Less(@)]]]
  /\ UNCHANGED <<pc, starts, faults, backs>>

-----------------------------------------------------------------------------

Next ==
  \/ \E j \in Jobs : Enqueue(j)
  \/ \E w \in Workers :
       \/ \E next \in {"lease", "tell"} : MarkInterrupted(w, next)
       \/ \E S \in SUBSET Jobs : Lease(w, S) \/ LeaseLost(w, S)
       \/ TakeInterrupted(w)
       \/ Crash(w)
       \/ \E j \in Jobs :
            \/ Start(w, j)
            \/ Extend(w, j)
            \/ \E s \in {"done", "dropped", "failed"} : Finish(w, j, s)
            \/ Fail(w, j)
            \/ Defer(w, j)
            \/ Release(w, j)
            \/ Abandon(w, j)
  \/ PurgeJobs
  \/ DropLiveJobs
  \/ Tick

Spec == Init /\ [][Next]_vars

(* Time passes; workers keep polling and get to the end of what they began; *)
(* ORDER BY run_at brings every due row to the front of a lease in the end. *)
(* Nothing obliges a worker to extend, defer, release or crash, nor anyone  *)
(* to enqueue, purge or drop.                                               *)
Fairness ==
  /\ WF_vars(Tick)
  /\ \A next \in {"lease", "tell"} : SF_vars(\E w \in Workers : MarkInterrupted(w, next))
  /\ \A w \in Workers : WF_vars(TakeInterrupted(w) \/ \E S \in SUBSET Jobs : Lease(w, S))
  /\ \A j \in Jobs :
       /\ SF_vars(\E w \in Workers, S \in SUBSET Jobs : j \in S /\ Lease(w, S))
       /\ SF_vars(\E w \in Workers : Start(w, j))
       /\ \A w \in Workers :
            WF_vars(\/ Abandon(w, j)
                    \/ Fail(w, j)
                    \/ \E s \in {"done", "dropped", "failed"} : Finish(w, j, s))

FairSpec == Spec /\ Fairness

-----------------------------------------------------------------------------
(* Properties. *)

TypeOK ==
  /\ row    \in [Jobs -> Row]
  /\ pc     \in [Workers -> {"idle", "lease", "tell"}]
  /\ run    \in [Workers -> [Jobs -> Run]]
  /\ starts \in [Jobs -> Nat]
  /\ faults \in Nat
  /\ backs  \in Nat

(* "Only its holder may finish it": while a worker's lease on a job has not  *)
(* run out, no other worker has such a lease on it, whatever was extended,   *)
(* handed back, dropped or purged in between (Lease, Extend, finish).        *)
OneLiveLease ==
  \A j \in Jobs : \A v, w \in Workers :
    run[v][j].left > 0 /\ run[w][j].left > 0 => v = w

(* Every real start was counted in the row's attempts, also when attempts    *)
(* were given back by Defer and Release or a reply was lost: the limit on    *)
(* attempts is a limit on starts (LeasedRow, BackRow).                       *)
StartsCounted ==
  \A j \in Jobs : row[j].status # "none" => starts[j] <= row[j].attempts

(* A job is given up on as interrupted only after its last allowed attempt,  *)
(* and never under the hands of a worker whose lease still runs              *)
(* (markInterrupted).                                                        *)
InterruptedIsOver ==
  \A j \in Jobs : row[j].status = "interrupted" =>
    /\ row[j].attempts >= MaxAttempts[j]
    /\ \A w \in Workers : run[w][j].left = 0

(* What the table and its workers hold of a job agree: one lease in force,   *)
(* every start counted, and given up on only when all of them are over       *)
(* (Lease, Extend, Defer, Release, markInterrupted).                         *)
QueueInv == TypeOK /\ OneLiveLease /\ StartsCounted /\ InterruptedIsOver

(* What was settled is never handed out, reported on or dropped again; the   *)
(* row is only ever deleted (Lease, finish, Fail, DropLiveJobs, purge).      *)
SettledStays ==
  [][\A j \in Jobs : row[j].status \in Settled =>
       row'[j].status \in {row[j].status, "none"}]_vars

(* "A job that may change something sets 1: it is never run a second time"   *)
(* (domain/pipeline.go), and in general no job is started more often than    *)
(* its MaxAttempts.  It holds if no time passes between the two statements   *)
(* of a lease (Prompt), and the code does not see to that.                   *)
StartsWithinMax == \A j \in Jobs : starts[j] <= MaxAttempts[j]

(* Every job that waits is settled in the end, through failures, retries and *)
(* crashes (Lease hands lapsed rows out again, Fail stops at MaxAttempts),   *)
(* and one that was interrupted is handed over to be told about, unless its  *)
(* retention ends first (TakeInterrupted).                                   *)
EventuallySettled ==
  \A j \in Jobs : []<>(row[j].status \notin Live /\ (row[j].status = "interrupted" => row[j].told))
-----------------------------------------------------------------------------
(* Refinement: the leases of the table implement the locks of JobLife. *)

LifeState(s) == CASE s = "none"    -> "absent"
                  [] s = "new"     -> "waiting"
                  [] s = "running" -> "held"
                  [] OTHER         -> "settled"

Life == INSTANCE JobLife WITH
  state  <- [j \in Jobs |-> LifeState(row[j].status)],
  holder <- [j \in Jobs |-> row[j].by],
  busy   <- [w \in Workers |-> {j \in Jobs : run[w][j].phase # "no"}],
  live   <- [w \in Workers |-> {j \in Jobs : run[w][j].left > 0}]

(* Whatever is leased, lapsed, extended, reported late, dropped or purged,   *)
(* each job lives as JobLife says: no lease in force is ever overridden, and *)
(* no report counts but the present holder's.                                *)
ImplementsJobLife == Life!Spec
=============================================================================

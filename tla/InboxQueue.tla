------------------------------ MODULE InboxQueue ------------------------------
(***************************************************************************)
(* The events inbox: the table events_inbox (postgres/inbox.go,             *)
(* inbox_queue.go) that occurrences are stored in as they arrive, and that  *)
(* routing workers lease rows from.                                        *)
(*                                                                         *)
(* Every SQL statement is one atomic step.  Lease runs two: the first gives *)
(* up on rows whose last lease ran out, the second takes what is due.  Time *)
(* is relative, as in JobQueue: a row keeps how far its moments are away.   *)
(*                                                                         *)
(* A member of Deliveries is a pair (source, delivery id), unique in the    *)
(* table.  The workers live in another repository; what they do is modelled *)
(* from the contract of domain.InboxQueue (domain/pipeline.go).             *)
(***************************************************************************)
EXTENDS Integers, FiniteSets

CONSTANTS
  Deliveries,
  Workers, NoWorker,
  MaxAttempts,    \* domain.MaxAttempts, one number for every row
  Hold,           \* length of a lease, in ticks
  Retry,          \* how far Fail puts the next attempt off, in ticks
  Keep,           \* retention of what was dealt with, in ticks
  (* Bounds of the model, not of the code: *)
  MaxFaults,      \* crashes and lost replies
  Overrun         \* leases of one row beyond MaxAttempts

ASSUME InboxConstants ==
  /\ NoWorker \notin Workers
  /\ MaxAttempts \in Nat \ {0} /\ Hold \in Nat \ {0}
  /\ Retry \in Nat /\ Keep \in Nat
  /\ MaxFaults \in Nat /\ Overrun \in Nat

VARIABLES
  row,      \* [Deliveries -> Row]: the table
  pc,       \* [Workers -> {"idle", "lease"}]: whether the second statement is next
  hold,     \* [Workers -> [Deliveries -> 0..Hold or -1]]: ticks left of the lease on
            \* a row the worker is routing, as it knows; -1: it is not routing it
  faults    \* crashes and lost replies so far

inboxVars == <<row, pc, hold, faults>>

Settled == {"done", "dropped", "failed"}
Status  == {"none", "new", "routing"} \cup Settled

Row == [status   : Status,
        attempts : 0..(MaxAttempts + Overrun),
        by       : Workers \cup {NoWorker},   \* locked_by
        left     : 0..Hold,                   \* until locked_until
        dueIn    : 0..Retry,                  \* until next_attempt_at
        age      : 0..(Keep + 1)]             \* since received_at

NoRow == [status |-> "none", attempts |-> 0, by |-> NoWorker, left |-> 0,
          dueIn |-> 0, age |-> 0]
NotRouting == -1

InboxTypeOK ==
  /\ row \in [Deliveries -> Row]
  /\ pc \in [Workers -> {"idle", "lease"}]
  /\ hold \in [Workers -> [Deliveries -> NotRouting..Hold]]
  /\ faults \in 0..MaxFaults

InboxInit ==
  /\ row = [d \in Deliveries |-> NoRow]
  /\ pc = [w \in Workers |-> "idle"]
  /\ hold = [w \in Workers |-> [d \in Deliveries |-> NotRouting]]
  /\ faults = 0

-----------------------------------------------------------------------------
(* The store. *)

(* Insert: ON CONFLICT (source, delivery_id) DO NOTHING; a delivery stored   *)
(* before is left as it was.                                                 *)
Insert(d) ==
  /\ row' = IF row[d].status = "none" THEN [row EXCEPT ![d] = [NoRow EXCEPT !.status = "new"]]
                                      ELSE row
  /\ UNCHANGED <<pc, hold, faults>>

Lapsed(d) == row[d].status = "routing" /\ row[d].left = 0
Spent(d)  == Lapsed(d) /\ row[d].attempts >= MaxAttempts
Due(d)    == (row[d].status = "new" /\ row[d].dueIn = 0) \/ Lapsed(d)

(* Overrun bounds how often one row is leased beyond its attempts; the code  *)
(* has no such bound.                                                        *)
Takeable(d) == Due(d) /\ row[d].attempts < MaxAttempts + Overrun

SettledRow(r, s) == [r EXCEPT !.status = s, !.by = NoWorker, !.left = 0]

(* The first statement of Lease. *)
GiveUp(w) ==
  LET S == {d \in Deliveries : Spent(d)} IN
  /\ pc[w] = "idle"
  /\ pc' = [pc EXCEPT ![w] = "lease"]
  /\ row' = [d \in Deliveries |-> IF d \in S THEN SettledRow(row[d], "failed") ELSE row[d]]
  /\ UNCHANGED <<hold, faults>>

LeasedRow(r, w) == [r EXCEPT !.status = "routing", !.attempts = @ + 1, !.by = w, !.left = Hold]

(* The second statement of Lease: any due row, one at a time.  It has no     *)
(* guard on attempts.                                                        *)
Take(w, d) ==
  /\ pc[w] = "lease"
  /\ Takeable(d)
  /\ pc' = [pc EXCEPT ![w] = "idle"]
  /\ row' = [row EXCEPT ![d] = LeasedRow(@, w)]

Lease(w, d) ==
  /\ Take(w, d)
  /\ hold' = [hold EXCEPT ![w][d] = Hold]
  /\ UNCHANGED faults

(* The row is leased but its worker never learns it: the connection broke or *)
(* the row's facts cannot be read.                                           *)
LeaseLost(w, d) ==
  /\ faults < MaxFaults     \* bound
  /\ Take(w, d)
  /\ faults' = faults + 1
  /\ UNCHANGED hold

LeaseNothing(w) ==
  /\ pc[w] = "lease"
  /\ \A d \in Deliveries : ~Takeable(d)
  /\ pc' = [pc EXCEPT ![w] = "idle"]
  /\ UNCHANGED <<row, hold, faults>>

(* A mistake: only the status is looked at. *)
MineAnyone(w, d) == row[d].status = "routing"
Mine(w, d) == row[d].by = w /\ row[d].status = "routing"

(* A worker's report on a row it was routing; it applies while the lease is *)
(* its own, and the worker is through with the row either way.              *)
Report(w, d, r) ==
  /\ hold[w][d] # NotRouting
  /\ hold' = [hold EXCEPT ![w][d] = NotRouting]
  /\ row' = IF Mine(w, d) THEN [row EXCEPT ![d] = r] ELSE row
  /\ UNCHANGED <<pc, faults>>

Done(w, d) == Report(w, d, SettledRow(row[d], "done"))
Drop(w, d) == Report(w, d, SettledRow(row[d], "dropped"))

(* A mistake: it is tried again for ever. *)
FailForever(w, d) ==
  Report(w, d, [SettledRow(row[d], "new") EXCEPT !.dueIn = Retry])
Fail(w, d) ==
  IF row[d].attempts >= MaxAttempts
  THEN Report(w, d, SettledRow(row[d], "failed"))
  ELSE Report(w, d, [SettledRow(row[d], "new") EXCEPT !.dueIn = Retry])

(* PurgeInbox. *)
Old == {d \in Deliveries : row[d].status \in Settled /\ row[d].age > Keep}
PurgeInbox ==
  /\ Old # {}
  /\ row' = [d \in Deliveries |-> IF d \in Old THEN NoRow ELSE row[d]]
  /\ UNCHANGED <<pc, hold, faults>>

-----------------------------------------------------------------------------
(* Workers stop, and time passes. *)

Crash(w) ==
  /\ faults < MaxFaults     \* bound
  /\ faults' = faults + 1
  /\ pc' = [pc EXCEPT ![w] = "idle"]
  /\ hold' = [hold EXCEPT ![w] = [d \in Deliveries |-> NotRouting]]
  /\ UNCHANGED row

Less(n) == IF n > 0 THEN n - 1 ELSE n
More(n) == IF n <= Keep THEN n + 1 ELSE n

Tick ==
  /\ row' = [d \in Deliveries |-> IF row[d].status = "none" THEN NoRow ELSE
               [row[d] EXCEPT !.left = Less(@), !.dueIn = Less(@), !.age = More(@)]]
  /\ hold' = [w \in Workers |-> [d \in Deliveries |-> Less(hold[w][d])]]
  /\ UNCHANGED <<pc, faults>>

InboxNext ==
  \/ \E d \in Deliveries : Insert(d)
  \/ \E w \in Workers :
       \/ GiveUp(w) \/ LeaseNothing(w) \/ Crash(w)
       \/ \E d \in Deliveries :
            \/ Lease(w, d) \/ LeaseLost(w, d)
            \/ Done(w, d) \/ Drop(w, d) \/ Fail(w, d)
  \/ PurgeInbox
  \/ Tick

InboxSpec == InboxInit /\ [][InboxNext]_inboxVars

-----------------------------------------------------------------------------
(* Properties. *)

(* A row is given up on only after its last allowed attempt (the first       *)
(* statement of Lease, and Fail).                                            *)
GivenUpLate ==
  \A d \in Deliveries : row[d].status = "failed" => row[d].attempts >= MaxAttempts

LifeState(s) == CASE s = "none"    -> "absent"
                  [] s = "new"     -> "waiting"
                  [] s = "routing" -> "held"
                  [] OTHER         -> "settled"

Life == INSTANCE JobLife WITH
  Jobs   <- Deliveries,
  state  <- [d \in Deliveries |-> LifeState(row[d].status)],
  holder <- [d \in Deliveries |-> row[d].by],
  busy   <- [w \in Workers |-> {d \in Deliveries : hold[w][d] # NotRouting}],
  live   <- [w \in Workers |-> {d \in Deliveries : hold[w][d] > 0}]

(* The inbox keeps the same lease rules as the jobs: they "never get the     *)
(* same row", and only the holder's report applies (domain.InboxQueue).      *)
ImplementsJobLife == Life!Spec
=============================================================================

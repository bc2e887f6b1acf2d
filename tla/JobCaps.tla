------------------------------- MODULE JobCaps -------------------------------
(***************************************************************************)
(* EnqueueCapped (postgres/jobs.go): storing a job unless the alert has one *)
(* for this occurrence already, or a cap on the jobs made in a window is    *)
(* full.                                                                   *)
(*                                                                         *)
(* One call is a transaction of several statements: it locks its alert,     *)
(* then its person with its agent, looks for a duplicate, counts for each   *)
(* cap, and stores.  NOW(), hence created_at, is the time it began, so rows *)
(* may be stored in another order than that of their created_at.            *)
(*                                                                         *)
(* A request is one alert and one occurrence; the same request may be made  *)
(* by several workers at once (an event routed again).                      *)
(***************************************************************************)
EXTENDS Integers, Sequences, FiniteSets

CONSTANTS
  Requests,
  AlertOf,        \* [Requests -> alerts]
  PersonAgentOf,  \* [Requests -> pairs of a person and an agent]
  Shadow,         \* requests whose job is only recorded (Job.Shadow)
  Plain,          \* requests that may be stored by Enqueue, which asks no cap
  Caps,           \* sequence of [scope, max, window]
  Workers, NoWorker,
  Outcomes,       \* the statuses a new job may move to
  MaxNow,         \* bound of the model: the clock
  MaxAborts       \* bound of the model: calls cut short

Scopes == {"alert", "personAgent"}

ASSUME CapsConstants ==
  /\ IsFiniteSet(Requests)
  /\ Shadow \subseteq Requests /\ Plain \subseteq Requests
  /\ NoWorker \notin Workers
  /\ MaxNow \in Nat /\ MaxAborts \in Nat
  /\ Outcomes \subseteq {"running", "done", "dropped", "interrupted", "failed"}
  /\ Caps \in Seq([scope : Scopes, max : Nat, window : Nat \ {0}])

(* What a request's job is counted with, and locked by, in each scope.      *)
Group(r, scope) == IF scope = "alert" THEN AlertOf[r] ELSE PersonAgentOf[r]
Groups(scope)   == {Group(r, scope) : r \in Requests}

VARIABLES
  now,
  row,      \* [Requests -> [status, created, capped]]
  call,     \* [Workers -> [step, req, began, at]]: the call each worker is making
  lock,     \* [scope -> [group -> who holds the advisory lock]]
  answered, \* requests whose caller was told an outcome, and is not asked for again
  aborts    \* calls cut short so far

vars == <<now, row, call, lock, answered, aborts>>

Statuses == {"new", "running", "done", "dropped", "failed", "interrupted", "shadow"}
NoRow    == [status |-> "none", created |-> 0, capped |-> FALSE]
NoCall   == [step |-> "idle", req |-> {}, began |-> 0, at |-> 1]

TypeOK ==
  /\ now \in 0..MaxNow
  /\ row \in [Requests -> [status : Statuses \cup {"none"}, created : 0..MaxNow,
                           capped : BOOLEAN]]
  /\ \A r \in Requests : row[r].status # "none" => (r \in Shadow <=> row[r].status = "shadow")
  /\ call \in [Workers -> [step : {"idle", "alert", "personAgent", "dup", "count", "store"},
                           req : SUBSET Requests, began : 0..MaxNow, at : 1..Len(Caps) + 1]]
  /\ DOMAIN lock = Scopes
  /\ \A s \in Scopes : lock[s] \in [Groups(s) -> Workers \cup {NoWorker}]
  /\ answered \subseteq Requests
  /\ aborts \in 0..MaxAborts

Init ==
  /\ now = 0
  /\ row = [r \in Requests |-> NoRow]
  /\ call = [w \in Workers |-> NoCall]
  /\ lock = [s \in Scopes |-> [g \in Groups(s) |-> NoWorker]]
  /\ answered = {}
  /\ aborts = 0

-----------------------------------------------------------------------------
(* Helpers. *)

Req(w) == CHOOSE r \in call[w].req : TRUE

(* The lock a call takes next: its first two steps are named for them.      *)
NextLock(w) == call[w].step

Unlocked(w) ==
  [s \in Scopes |-> [g \in Groups(s) |-> IF lock[s][g] = w THEN NoWorker ELSE lock[s][g]]]

End(w) == call' = [call EXCEPT ![w] = NoCall] /\ lock' = Unlocked(w)

StartStatus(r)     == IF r \in Shadow THEN "shadow" ELSE "new"

(* The statuses a request's job is counted against.                         *)
Counted(r) == IF r \in Shadow THEN {"shadow"} ELSE {"new", "running", "done", "interrupted"}

(* A mistake: rows of calls that began later are not counted. *)
InWindowUpTo(i, began, c) == row[i].created > began - c.window /\ row[i].created < began
InWindow(i, began, c)     == row[i].created > began - c.window

Counts(r, began, c) ==
  Cardinality({i \in Requests : /\ Group(i, c.scope) = Group(r, c.scope)
                                /\ row[i].status \in Counted(r)
                                /\ InWindow(i, began, c)})

-----------------------------------------------------------------------------
(* EnqueueCapped, a statement at a time. *)

Begin(w, r) ==
  /\ call[w].step = "idle"
  /\ r \notin answered
  /\ call' = [call EXCEPT ![w] = [step |-> "alert", req |-> {r}, began |-> now, at |-> 1]]
  /\ UNCHANGED <<now, row, lock, answered, aborts>>

(* pg_advisory_xact_lock for each key, in the order of the sorted keys.     *)
Lock(w) ==
  LET t == NextLock(w)
      g == Group(Req(w), t) IN
  /\ call[w].step \in Scopes
  /\ lock[t][g] = NoWorker
  /\ lock' = [lock EXCEPT ![t][g] = w]
  /\ call' = [call EXCEPT ![w].step = IF @ = "alert" THEN "personAgent" ELSE "dup"]
  /\ UNCHANGED <<now, row, answered, aborts>>

FindDuplicate(w) ==
  LET r == Req(w) IN
  /\ call[w].step = "dup"
  /\ IF row[r].status # "none"
     THEN answered' = answered \cup {r} /\ End(w)
     ELSE call' = [call EXCEPT ![w].step = "count"] /\ UNCHANGED <<lock, answered>>
  /\ UNCHANGED <<now, row, aborts>>

CountCap(w) ==
  LET r == Req(w)
      i == call[w].at IN
  /\ call[w].step = "count"
  /\ IF i > Len(Caps)
     THEN call' = [call EXCEPT ![w].step = "store"] /\ UNCHANGED <<lock, answered>>
     ELSE IF Counts(r, call[w].began, Caps[i]) >= Caps[i].max
     THEN answered' = answered \cup {r} /\ End(w)
     ELSE call' = [call EXCEPT ![w].at = i + 1] /\ UNCHANGED <<lock, answered>>
  /\ UNCHANGED <<now, row, aborts>>

(* The INSERT and the commit; a row stored by Enqueue in the meantime makes *)
(* the INSERT fail, and the caller is told of an error.  So is one whose    *)
(* commit was not confirmed.                                                *)
Store(w) ==
  LET r == Req(w) IN
  /\ call[w].step = "store"
  /\ IF row[r].status = "none"
     THEN /\ row' = [row EXCEPT ![r] = [status |-> StartStatus(r), created |-> call[w].began,
                                        capped |-> TRUE]]
          /\ \/ answered' = answered \cup {r}
             \/ UNCHANGED answered
     ELSE UNCHANGED <<row, answered>>
  /\ End(w)
  /\ UNCHANGED <<now, aborts>>

(* Any statement fails, the caller gives up, or the worker dies.            *)
Abort(w) ==
  /\ call[w].step # "idle"
  /\ aborts < MaxAborts     \* bound
  /\ aborts' = aborts + 1
  /\ End(w)
  /\ UNCHANGED <<now, row, answered>>

-----------------------------------------------------------------------------
(* What else happens to the table. *)

Enqueue(r) ==
  /\ r \in Plain
  /\ row[r].status = "none"
  /\ row' = [row EXCEPT ![r] = [status |-> StartStatus(r), created |-> now, capped |-> FALSE]]
  /\ UNCHANGED <<now, call, lock, answered, aborts>>

(* Workers lease and settle jobs (see JobQueue).                            *)
Move(r) ==
  /\ row[r].status \in {"new", "running"}
  /\ \E s \in Outcomes : row' = [row EXCEPT ![r].status = s]
  /\ UNCHANGED <<now, call, lock, answered, aborts>>

Tick ==
  /\ now < MaxNow     \* bound
  /\ now' = now + 1
  /\ UNCHANGED <<row, call, lock, answered, aborts>>

Next ==
  \/ \E w \in Workers :
       \/ \E r \in Requests : Begin(w, r)
       \/ Lock(w) \/ FindDuplicate(w) \/ CountCap(w) \/ Store(w) \/ Abort(w)
  \/ \E r \in Requests : Enqueue(r) \/ Move(r)
  \/ Tick

Spec == Init /\ [][Next]_vars

-----------------------------------------------------------------------------
(* Properties. *)

(* Real jobs, made within a cap, that did not turn out to be dropped or     *)
(* failed; shadow jobs among themselves.                                    *)
Kept(shadow) == {r \in Requests : /\ row[r].status \notin {"none", "dropped", "failed"}
                                  /\ row[r].capped
                                  /\ (row[r].status = "shadow") = shadow}
Within(c) ==
  \A shadow \in BOOLEAN :
    LET kept == Kept(shadow)
        From(r) == {s \in kept : /\ Group(s, c.scope) = Group(r, c.scope)
                                 /\ row[s].created - row[r].created \in 0..(c.window - 1)}
    IN  \A r \in kept : Cardinality(From(r)) <= c.max

(* "Busy workers cannot together go over a cap" (JobStore.EnqueueCapped): in *)
(* no stretch of time as long as the window were more jobs made for one     *)
(* alert than its cap, wherever the stretch begins and in whatever order    *)
(* the rows came in.                                                        *)
AlertWithinCap == \A i \in DOMAIN Caps : Caps[i].scope = "alert" => Within(Caps[i])

(* The same for one person with one agent, whose jobs come from alerts that *)
(* do not share a lock.                                                     *)
PersonAgentWithinCap == \A i \in DOMAIN Caps : Caps[i].scope = "personAgent" => Within(Caps[i])

(* Calls "take turns" (EnqueueCapped, on its locks): no two wait for one    *)
(* another.                                                                 *)
WaitsFor(w, v) ==
  /\ call[w].step \in Scopes
  /\ lock[NextLock(w)][Group(Req(w), NextLock(w))] = v
NoCircle == \A w, v \in Workers : w # v => ~(WaitsFor(w, v) /\ WaitsFor(v, w))

(* However many workers call EnqueueCapped at once, every cap holds, on rows  *)
(* that keep their types (a shadow request's job is a shadow), and no two of *)
(* them wait for each other.                                                 *)
WithinCaps == TypeOK /\ AlertWithinCap /\ PersonAgentWithinCap /\ NoCircle
=============================================================================

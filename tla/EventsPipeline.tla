---------------------------- MODULE EventsPipeline ----------------------------
(***************************************************************************)
(* An event from its source to the jobs of the alerts it concerns: the HTTP *)
(* front (runtime/ingest.go, ratelimit.go), the inbox (InboxQueue), and the *)
(* router, which leases inbox rows and enqueues one job per alert.          *)
(*                                                                         *)
(* A handler is several steps, and other handlers and workers run between   *)
(* them; the server may stop, and an answer may be lost, at each.  Two      *)
(* deliveries may be of one occurrence (one repeat key).                    *)
(*                                                                         *)
(* The router lives in another repository: it is modelled from the contract *)
(* of domain/pipeline.go.  It tries every alert of an occurrence and        *)
(* reports Done when all were enqueued, Drop when there is none, and Fail   *)
(* when enqueueing failed.                                                  *)
(***************************************************************************)
EXTENDS InboxQueue

CONSTANTS
  Handlers,       \* requests the server may be handling at once
  KindOf,         \* [Deliveries -> {"event", "ping", "unreadable", "forged"}]
  KeyOf,          \* [Deliveries -> repeat keys]
  AlertSets,      \* the sets of alerts an occurrence may concern
  ClientOf,       \* [Deliveries -> clients]
  MaxFailures,    \* failuresBeforeThrottle
  Window,         \* failureWindow, in ticks
  MaxSends        \* bound of the model: how often a delivery is sent that is not forged

Keys    == {KeyOf[d] : d \in Deliveries}
Alerts  == UNION AlertSets
Clients == {ClientOf[d] : d \in Deliveries}

ASSUME PipelineConstants ==
  /\ IsFiniteSet(Handlers)
  /\ KindOf \in [Deliveries -> {"event", "ping", "unreadable", "forged"}]
  /\ MaxFailures \in Nat \ {0} /\ Window \in Nat /\ MaxSends \in Nat

VARIABLES
  req,      \* [Handlers -> [step, of]]: the delivery each handler is at, and how far
  failed,   \* [Clients -> [count, since]]: failureLimiter.seen
  sends,    \* [Deliveries -> Nat]: how often it was sent, if not forged
  acked,    \* deliveries whose sender saw 200
  purged,   \* history: deliveries deleted from the inbox
  alertsOf, \* [repeat keys -> sets of alerts]: whom each occurrence concerns, fixed
  routed,   \* [Workers -> [Deliveries -> alerts enqueued, of the row being routed]]
  jobs,     \* pairs (alert, repeat key) in pipeline_jobs
  made      \* history: [alert -> [key -> how often a job was stored]]

frontVars == <<req, failed, sends, acked, purged>>
routeVars == <<alertsOf, routed, jobs, made>>
Beside == <<frontVars, routeVars>>
vars == <<inboxVars, frontVars, routeVars>>

Codes == {"200", "400", "401", "429", "503"}
NoReq == [step |-> "idle", of |-> {}]
NoFailures == [count |-> 0, since |-> 0]

TypeOK ==
  /\ InboxTypeOK
  /\ req \in [Handlers -> [step : {"idle", "received", "checked", "decoded"} \cup Codes,
                           of : SUBSET Deliveries]]
  /\ failed \in [Clients -> [count : 0..(MaxFailures + Cardinality(Handlers)), since : 0..(Window + 1)]]
  /\ sends \in [Deliveries -> 0..MaxSends]
  /\ acked \subseteq Deliveries /\ purged \subseteq Deliveries
  /\ alertsOf \in [Keys -> AlertSets]
  /\ routed \in [Workers -> [Deliveries -> SUBSET Alerts]]
  /\ jobs \subseteq Alerts \X Keys
  /\ made \in [Alerts -> [Keys -> Nat]]

Init ==
  /\ InboxInit
  /\ req = [h \in Handlers |-> NoReq]
  /\ failed = [c \in Clients |-> NoFailures]
  /\ sends = [d \in Deliveries |-> 0]
  /\ acked = {} /\ purged = {}
  /\ alertsOf \in [Keys -> AlertSets]
  /\ routed = [w \in Workers |-> [d \in Deliveries |-> {}]]
  /\ jobs = {}
  /\ made = [a \in Alerts |-> [k \in Keys |-> 0]]

-----------------------------------------------------------------------------
(* The limiter on clients whose deliveries fail the signature check.  A     *)
(* count of 0 stands for a client that is not in the map.                   *)

Expired(c) == failed[c].since > Window
Blocked(c) == failed[c].count >= MaxFailures /\ ~Expired(c)

(* blocked() also forgets a client whose window has passed.                 *)
Forget(c) == IF Expired(c) THEN [failed EXCEPT ![c] = NoFailures] ELSE failed

(* fail().                                                                  *)
CountFailure(c) ==
  IF failed[c].count = 0 \/ Expired(c)
  THEN [failed EXCEPT ![c] = [count |-> 1, since |-> 0]]
  ELSE [failed EXCEPT ![c].count = @ + 1]

-----------------------------------------------------------------------------
(* ingest, a step at a time. *)

Answer(h, code) == req' = [req EXCEPT ![h].step = code]

(* A delivery is sent, again when it was not acknowledged, or when somebody  *)
(* at the source asks for it; a throttled client is answered at once.        *)
Receive(h, d) ==
  LET c == ClientOf[d] IN
  /\ req[h].step = "idle"
  /\ KindOf[d] = "forged" \/ sends[d] < MaxSends     \* bound
  /\ sends' = [sends EXCEPT ![d] = IF KindOf[d] = "forged" THEN @ ELSE @ + 1]
  /\ failed' = Forget(c)
  /\ req' = [req EXCEPT ![h] = [step |-> IF Blocked(c) THEN "429" ELSE "received", of |-> {d}]]
  /\ UNCHANGED <<inboxVars, acked, purged, routeVars>>

(* The body, Resolve and Verify: the body may be too large or cut off, the   *)
(* resolver may fail; what no connection's secret signs is refused, counted. *)
Check(h, d) ==
  /\ req[h] = [step |-> "received", of |-> {d}]
  /\ \/ \E code \in {"400", "503"} : Answer(h, code) /\ UNCHANGED failed
     \/ /\ KindOf[d] = "forged"
        /\ Answer(h, "401")
        /\ failed' = CountFailure(ClientOf[d])
     \/ /\ KindOf[d] # "forged"
        /\ Answer(h, "checked")
        /\ UNCHANGED failed
  /\ UNCHANGED <<inboxVars, sends, acked, purged, routeVars>>

(* Decode: what cannot be read, or is no event, is acknowledged.             *)
Decode(h, d) ==
  /\ req[h] = [step |-> "checked", of |-> {d}]
  /\ Answer(h, IF KindOf[d] \in {"ping", "unreadable"} THEN "200" ELSE "decoded")
  /\ UNCHANGED <<inboxVars, failed, sends, acked, purged, routeVars>>

(* inbox.Insert.  It may fail; when only its confirmation fails, the row is  *)
(* stored all the same.                                                      *)
Store(h, d) ==
  /\ req[h] = [step |-> "decoded", of |-> {d}]
  /\ \/ Insert(d) /\ Answer(h, "200")
     \/ Insert(d) /\ Answer(h, "503")
     \/ UNCHANGED inboxVars /\ Answer(h, "503")
  /\ UNCHANGED <<failed, sends, acked, purged, routeVars>>

(* The answer reaches the sender, or is lost.                                *)
Respond(h, d) ==
  /\ req[h].step \in Codes /\ req[h].of = {d}
  /\ req' = [req EXCEPT ![h] = NoReq]
  /\ \/ acked' = IF req[h].step = "200" THEN acked \cup {d} ELSE acked
     \/ UNCHANGED acked
  /\ UNCHANGED <<inboxVars, failed, sends, purged, routeVars>>

(* The server stops: what it was handling is gone, and so is the limiter.    *)
Restart ==
  /\ faults < MaxFaults     \* bound
  /\ faults' = faults + 1
  /\ req' = [h \in Handlers |-> NoReq]
  /\ failed' = [c \in Clients |-> NoFailures]
  /\ UNCHANGED <<row, pc, hold, sends, acked, purged, routeVars>>

-----------------------------------------------------------------------------
(* The router. *)

(* A mistake: an occurrence has one job, whichever alert it is for. *)
EnqueueOnce(a, k) ==
  IF \E b \in Alerts : <<b, k>> \in jobs
  THEN UNCHANGED <<jobs, made>>
  ELSE jobs' = jobs \cup {<<a, k>>} /\ made' = [made EXCEPT ![a][k] = @ + 1]
(* jobStore.Enqueue: ON CONFLICT (alert_id, repeat_key) DO NOTHING.          *)
Enqueue(a, k) ==
  IF <<a, k>> \in jobs
  THEN UNCHANGED <<jobs, made>>
  ELSE /\ jobs' = jobs \cup {<<a, k>>}
       /\ made' = [made EXCEPT ![a][k] = @ + 1]

(* One alert of a row that w holds, or believes it holds.                    *)
Route(w, d, a) ==
  /\ hold[w][d] # NotRouting
  /\ a \in alertsOf[KeyOf[d]] \ routed[w][d]
  /\ Enqueue(a, KeyOf[d])
  /\ routed' = [routed EXCEPT ![w][d] = @ \cup {a}]
  /\ UNCHANGED <<inboxVars, frontVars, alertsOf>>

Through(w, d) ==
  /\ routed' = [routed EXCEPT ![w][d] = {}]
  /\ UNCHANGED <<frontVars, alertsOf, jobs, made>>

RouteDone(w, d) ==
  /\ alertsOf[KeyOf[d]] # {} /\ routed[w][d] = alertsOf[KeyOf[d]]
  /\ Done(w, d)
  /\ Through(w, d)

RouteDrop(w, d) ==
  /\ alertsOf[KeyOf[d]] = {}
  /\ Drop(w, d)
  /\ Through(w, d)

RouteFail(w, d) ==
  /\ routed[w][d] # alertsOf[KeyOf[d]]
  /\ Fail(w, d)
  /\ Through(w, d)

-----------------------------------------------------------------------------
(* The inbox's other steps. *)

Purge ==
  /\ PurgeInbox
  /\ purged' = purged \cup Old
  /\ UNCHANGED <<req, failed, sends, acked, routeVars>>

Die(w) ==
  /\ Crash(w)
  /\ routed' = [routed EXCEPT ![w] = [d \in Deliveries |-> {}]]
  /\ UNCHANGED <<frontVars, alertsOf, jobs, made>>

Leasing(w) ==
  /\ \/ GiveUp(w) \/ LeaseNothing(w)
     \/ \E d \in Deliveries : Lease(w, d) \/ LeaseLost(w, d)
  /\ UNCHANGED Beside

TimePasses ==
  /\ Tick
  /\ failed' = [c \in Clients |-> [failed[c] EXCEPT
                  !.since = IF failed[c].count > 0 /\ ~Expired(c) THEN @ + 1 ELSE @]]
  /\ UNCHANGED <<req, sends, acked, purged, routeVars>>

Next ==
  \/ \E h \in Handlers, d \in Deliveries :
       Receive(h, d) \/ Check(h, d) \/ Decode(h, d) \/ Store(h, d) \/ Respond(h, d)
  \/ Restart
  \/ \E w \in Workers :
       \/ Leasing(w) \/ Die(w)
       \/ \E d \in Deliveries :
            \/ \E a \in Alerts : Route(w, d, a)
            \/ RouteDone(w, d) \/ RouteDrop(w, d) \/ RouteFail(w, d)
  \/ Purge
  \/ TimePasses

Spec == Init /\ [][Next]_vars

(* Time passes, the workers lease and route as InboxQueue's do, and every    *)
(* request gets to its end.  Nobody has to send anything.                    *)
Fairness ==
  /\ WF_vars(TimePasses)
  /\ \A h \in Handlers :
       WF_vars(\E d \in Deliveries : Check(h, d) \/ Decode(h, d) \/ Store(h, d) \/ Respond(h, d))
  /\ SF_vars(\E w \in Workers : GiveUp(w) /\ UNCHANGED Beside)
  /\ \A w \in Workers : WF_vars(pc[w] = "lease" /\ Leasing(w))
  /\ \A d \in Deliveries :
       /\ SF_vars(\E w \in Workers : Lease(w, d) /\ UNCHANGED Beside)
       /\ \A w \in Workers :
            WF_vars(\/ \E a \in Alerts : Route(w, d, a)
                    \/ RouteDone(w, d) \/ RouteDrop(w, d) \/ RouteFail(w, d))

FairSpec == Spec /\ Fairness

-----------------------------------------------------------------------------
(* Properties. *)

(* "Acknowledging what we did not keep is how events get lost" (ingest): an  *)
(* event whose sender saw 200 is in the inbox, until it was dealt with and   *)
(* its retention is over.                                                    *)
AcknowledgedIsKept ==
  \A d \in acked : KindOf[d] = "event" => row[d].status # "none" \/ d \in purged

(* Only what a connection's secret signs, and can be read, has effects: what *)
(* is forged never reaches the inbox or a job (ingest, on Verify).           *)
OnlyEventsAct ==
  /\ \A d \in Deliveries : row[d].status # "none" => KindOf[d] = "event"
  /\ \A j \in jobs : \E d \in Deliveries : KindOf[d] = "event" /\ KeyOf[d] = j[2] /\ sends[d] > 0

(* A row is done only when every alert of its occurrence has its job,        *)
(* although its worker may have died half way, lost the row to another, or   *)
(* reported late (domain.InboxQueue, Job).                                   *)
DoneIsRouted ==
  \A d \in Deliveries :
    row[d].status = "done" => \A a \in alertsOf[KeyOf[d]] : <<a, KeyOf[d]>> \in jobs

(* "There is at most one per alert and repeat key, so a retry of the router  *)
(* cannot do anything twice" (domain.Job): not when a delivery is sent       *)
(* again, also after the inbox forgot it, nor when two workers route it.     *)
NothingTwice == \A a \in Alerts, k \in Keys : made[a][k] <= 1

(* What was acknowledged is acted on in the end, or given up on after as     *)
(* many attempts as are allowed.                                             *)
ActedOn ==
  []<>(\A d \in acked :
         KindOf[d] = "event" =>
           \/ row[d].status = "failed" \/ d \in purged
           \/ \A a \in alertsOf[KeyOf[d]] : <<a, KeyOf[d]>> \in jobs)

(* "It refuses everything from that client until the window has passed"      *)
(* (failureLimiter), and not longer: whatever a client goes on sending, it   *)
(* is let in again.                                                          *)
LetInAgain == \A c \in Clients : []<>~Blocked(c)

(* What the inbox and the jobs hold is of events only, in rows that keep      *)
(* their types; nothing acknowledged is lost or given up on early, and what  *)
(* is done was routed, once (ingest, Lease, Fail).                           *)
PipelineInv ==
  TypeOK /\ OnlyEventsAct /\ GivenUpLate /\ AcknowledgedIsKept /\ DoneIsRouted /\ NothingTwice

(* What comes in gets on: an event is acted on, and a client let in again    *)
(* (Requeue and retries; failureLimiter).                                    *)
GetsOn == ActedOn /\ LetInAgain
=============================================================================

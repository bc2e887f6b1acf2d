------------------------------- MODULE Listeners -------------------------------
(***************************************************************************)
(* How an agent's messages reach it (runtime/listen.go): one goroutine for  *)
(* each chat app account (identity) it listens on, one inbox they feed, one *)
(* worker that takes messages off the inbox and hands them to their         *)
(* conversations' lines (ConversationLine).                                 *)
(*                                                                         *)
(* ListenAndServe starts them when the server starts; accounts are attached *)
(* (StartListenerForAgent) and taken away (StopIdentityListeners) while it  *)
(* runs, each from a request's goroutine; cancelling its context stops it.  *)
(* agentInboxes and listenerCancels are sync.Maps: each call on them is a   *)
(* step, and the steps of different callers interleave.                     *)
(***************************************************************************)
EXTENDS Integers, Sequences, FiniteSets, SequencesExt

CONSTANTS
  Identities,     \* the chat app accounts
  Boots,          \* sets of them that may be attached before the server starts
  Room,           \* the inbox's room (64 in the code)
  MaxListeners,   \* bound of the model: listeners ever started
  MaxMessages,    \* bound of the model: messages ever received
  Early,          \* whether an account is attached while ListenAndServe starts
  Hasty,          \* whether one is attached or taken away before the last change is through
  MayStop         \* whether the server is stopped

ListenersConstants ==
  /\ IsFiniteSet(Identities) /\ Boots \subseteq SUBSET Identities
  /\ {Room, MaxListeners, MaxMessages} \subseteq Nat \ {0}
  /\ \A B \in Boots : Cardinality(B) <= MaxListeners
  /\ {Early, Hasty, MayStop} \subseteq BOOLEAN

VARIABLES
  boot,       \* how far ListenAndServe is
  stopping,   \* its context is cancelled
  cut,        \* CancelTurns was called
  wanted,     \* the accounts that are attached, as whoever attaches them knows it
  attached,   \* hosted.Agent.IdentityIDs: nothing is ever taken off it
  stored,     \* agentInboxes: the agent's inbox, or None
  inboxes,    \* sequence of [msgs, worker]: the inboxes made so far
  listeners,  \* sequence of [id, inbox, step, msg, cancelled]
  cancels,    \* listenerCancels: [Identities -> a listener, or None]
  starts,     \* StartListenerForAgent calls under way: set of [id, inbox]
  received,   \* messages a chat app handed to a listener: 1..received
  handled     \* those handed to their conversations' lines

vars == <<boot, stopping, cut, wanted, attached, stored, inboxes, listeners, cancels, starts,
          received, handled>>

None    == 0
Running == {"listening", "handing", "waiting", "leaving"}

TypeOK ==
  /\ boot \in {"off", "begun", "stored", "started", "nobody", "serving"}
  /\ stopping \in BOOLEAN /\ cut \in BOOLEAN
  /\ wanted \subseteq attached /\ attached \subseteq Identities
  /\ stored \in 0..Len(inboxes)
  /\ \A i \in DOMAIN inboxes :
       /\ inboxes[i].msgs \in BoundedSeq(1..received, Room)
       /\ inboxes[i].worker \in {"none", "on", "draining", "gone"}
  /\ \A l \in DOMAIN listeners : listeners[l] \in
       [id : Identities, inbox : DOMAIN inboxes, step : Running \cup {"gone"},
        msg : 0..received, cancelled : BOOLEAN]
  /\ Len(listeners) <= MaxListeners
  /\ cancels \in [Identities -> 0..Len(listeners)]
  /\ starts \subseteq [id : Identities, inbox : 0..Len(inboxes)]
  /\ received \in 0..MaxMessages /\ handled \subseteq 1..received

Init ==
  /\ boot = "off" /\ stopping = FALSE /\ cut = FALSE
  /\ wanted \in Boots /\ attached = wanted
  /\ stored = None /\ inboxes = <<>> /\ listeners = <<>>
  /\ cancels = [i \in Identities |-> None]
  /\ starts = {}
  /\ received = 0 /\ handled = {}

Inbox(worker) == [msgs |-> <<>>, worker |-> worker]
Listener(id, inbox) ==
  [id |-> id, inbox |-> inbox, step |-> "listening", msg |-> None, cancelled |-> FALSE]

-----------------------------------------------------------------------------
(* ListenAndServe. *)

Begin ==
  /\ boot = "off"
  /\ boot' = "begun"
  /\ UNCHANGED <<stopping, cut, wanted, attached, stored, inboxes, listeners, cancels, starts, received, handled>>

StoreInbox ==
  /\ boot = "begun"
  /\ boot' = "stored"
  /\ inboxes' = Append(inboxes, Inbox("none"))
  /\ stored' = Len(inboxes) + 1
  /\ UNCHANGED <<stopping, cut, wanted, attached, listeners, cancels, starts, received, handled>>

(* startListeners: one listener for each of the accounts attached by now, on *)
(* the inbox ListenAndServe made.                                            *)
Made == CHOOSE i \in DOMAIN inboxes : inboxes[i].worker = "none"

StartListeners ==
  LET ids == SetToSeq(attached) IN
  /\ boot = "stored"
  /\ listeners' = listeners \o [k \in DOMAIN ids |-> Listener(ids[k], Made)]
  /\ cancels' = [i \in Identities |->
       IF i \in attached THEN Len(listeners) + CHOOSE k \in DOMAIN ids : ids[k] = i ELSE cancels[i]]
  /\ boot' = IF attached = {} THEN "nobody" ELSE "started"
  /\ UNCHANGED <<stopping, cut, wanted, attached, stored, inboxes, starts, received, handled>>

(* A mistake: the inbox stays, though no worker takes from it. *)
DeleteNothing ==
  /\ boot = "nobody"
  /\ boot' = "serving"
  /\ UNCHANGED <<stopping, cut, wanted, attached, stored, inboxes, listeners, cancels, starts, received, handled>>
(* "No chat app yet, so nothing reads this inbox": it is deleted again.      *)
DeleteInbox ==
  /\ boot = "nobody"
  /\ boot' = "serving"
  /\ stored' = None
  /\ UNCHANGED <<stopping, cut, wanted, attached, inboxes, listeners, cancels, starts, received, handled>>

StartWorker ==
  /\ boot = "started"
  /\ boot' = "serving"
  /\ inboxes' = [inboxes EXCEPT ![Made].worker = "on"]
  /\ UNCHANGED <<stopping, cut, wanted, attached, stored, listeners, cancels, starts, received, handled>>

(* The server begins to stop, and its grace runs out. *)
Stop ==
  /\ MayStop /\ boot # "off" /\ ~stopping
  /\ stopping' = TRUE
  /\ UNCHANGED <<boot, cut, wanted, attached, stored, inboxes, listeners, cancels, starts, received, handled>>

CancelTurns ==
  /\ stopping /\ ~cut
  /\ cut' = TRUE
  /\ UNCHANGED <<boot, stopping, wanted, attached, stored, inboxes, listeners, cancels, starts, received, handled>>

-----------------------------------------------------------------------------
(* StartListenerForAgent and StopIdentityListeners. *)

Live(id)  == {l \in DOMAIN listeners : listeners[l].id = id /\ listeners[l].step \in Running}
Coming(id) == {s \in starts : s.id = id}

(* Under h.mu: a no-op before ListenAndServe; the account joins IdentityIDs.  *)
Attach(id) ==
  /\ boot # "off" /\ (Early \/ boot = "serving")
  /\ id \notin wanted \/ Live(id) = {}
  /\ Coming(id) = {} /\ (Hasty \/ Live(id) = {})
  /\ Len(listeners) + Cardinality(starts) < MaxListeners
       - (IF boot \in {"begun", "stored"} THEN Cardinality(attached \cup {id}) ELSE 0)
  /\ wanted' = wanted \cup {id} /\ attached' = attached \cup {id}
  /\ starts' = starts \cup {[id |-> id, inbox |-> None]}
  /\ UNCHANGED <<boot, stopping, cut, stored, inboxes, listeners, cancels, received, handled>>

(* LoadOrStore, and a worker for an inbox that was made. *)
GetInbox(s) ==
  /\ s \in starts /\ s.inbox = None
  /\ IF stored # None
     THEN /\ starts' = (starts \ {s}) \cup {[s EXCEPT !.inbox = stored]}
          /\ UNCHANGED <<stored, inboxes>>
     ELSE /\ inboxes' = Append(inboxes, Inbox("on"))
          /\ stored' = Len(inboxes')
          /\ starts' = (starts \ {s}) \cup {[s EXCEPT !.inbox = Len(inboxes')]}
  /\ UNCHANGED <<boot, stopping, cut, wanted, attached, listeners, cancels, received, handled>>

StartOne(s) ==
  /\ s \in starts /\ s.inbox # None
  /\ starts' = starts \ {s}
  /\ listeners' = Append(listeners, Listener(s.id, s.inbox))
  /\ cancels' = [cancels EXCEPT ![s.id] = Len(listeners')]
  /\ UNCHANGED <<boot, stopping, cut, wanted, attached, stored, inboxes, received, handled>>

Detach(id) ==
  /\ id \in wanted /\ (Hasty \/ Coming(id) = {})
  /\ Early \/ boot = "serving"
  /\ wanted' = wanted \ {id}
  /\ cancels' = [cancels EXCEPT ![id] = None]
  /\ listeners' = IF cancels[id] = None THEN listeners
                  ELSE [listeners EXCEPT ![cancels[id]].cancelled = TRUE]
  /\ UNCHANGED <<boot, stopping, cut, attached, stored, inboxes, starts, received, handled>>

-----------------------------------------------------------------------------
(* A listener's goroutine. *)

Done(l) == listeners[l].cancelled \/ stopping
Step(l, s) == listeners' = [listeners EXCEPT ![l].step = s]

(* The chat app's Listen calls back with a message. *)
Receive(l) ==
  /\ listeners[l].step = "listening" /\ received < MaxMessages
  /\ received' = received + 1
  /\ listeners' = [listeners EXCEPT ![l].step = "handing", ![l].msg = received']
  /\ UNCHANGED <<boot, stopping, cut, wanted, attached, stored, inboxes, cancels, starts, handled>>

(* The callback: into the inbox, or nowhere once the listener is cancelled.  *)
(* A mistake: a full inbox is not waited for. *)
HandNow(l) ==
  LET i == listeners[l].inbox IN
  /\ listeners[l].step = "handing"
  /\ listeners' = [listeners EXCEPT ![l].step = "listening", ![l].msg = None]
  /\ inboxes' = IF Len(inboxes[i].msgs) < Room
                THEN [inboxes EXCEPT ![i].msgs = Append(@, listeners[l].msg)] ELSE inboxes
  /\ UNCHANGED <<boot, stopping, cut, wanted, attached, stored, cancels, starts, received, handled>>
Hand(l) ==
  LET i == listeners[l].inbox IN
  /\ listeners[l].step = "handing"
  /\ listeners' = [listeners EXCEPT ![l].step = "listening", ![l].msg = None]
  /\ \/ /\ Len(inboxes[i].msgs) < Room
        /\ inboxes' = [inboxes EXCEPT ![i].msgs = Append(@, listeners[l].msg)]
     \/ Done(l) /\ UNCHANGED inboxes
  /\ UNCHANGED <<boot, stopping, cut, wanted, attached, stored, cancels, starts, received, handled>>

(* Listen returns: because it was cancelled, for good (ErrPermanent, or      *)
(* nothing wrong), or to be tried again after a while.                       *)
Return(l) ==
  /\ listeners[l].step = "listening"
  /\ Step(l, "leaving") \/ (~Done(l) /\ Step(l, "waiting"))
  /\ UNCHANGED <<boot, stopping, cut, wanted, attached, stored, inboxes, cancels, starts, received, handled>>

Retry(l) ==
  /\ listeners[l].step = "waiting"
  /\ Step(l, "listening") \/ (Done(l) /\ Step(l, "leaving"))
  /\ UNCHANGED <<boot, stopping, cut, wanted, attached, stored, inboxes, cancels, starts, received, handled>>

(* Its deferred calls: lCancel, and listenerCancels.Delete.                  *)
Leave(l) ==
  /\ listeners[l].step = "leaving"
  /\ listeners' = [listeners EXCEPT ![l].step = "gone", ![l].cancelled = TRUE]
  /\ cancels' = [cancels EXCEPT ![listeners[l].id] = None]
  /\ UNCHANGED <<boot, stopping, cut, wanted, attached, stored, inboxes, starts, received, handled>>

-----------------------------------------------------------------------------
(* An inbox's worker. *)

Handle(i) ==
  /\ handled' = handled \cup {Head(inboxes[i].msgs)}
  /\ inboxes' = [inboxes EXCEPT ![i].msgs = Tail(@)]

Take(i) ==
  /\ inboxes[i].worker = "on" /\ inboxes[i].msgs # <<>>
  /\ Handle(i)
  /\ UNCHANGED <<boot, stopping, cut, wanted, attached, stored, listeners, cancels, starts, received>>

StopTaking(i) ==
  /\ inboxes[i].worker = "on" /\ stopping
  /\ inboxes' = [inboxes EXCEPT ![i].worker = "draining"]
  /\ UNCHANGED <<boot, stopping, cut, wanted, attached, stored, listeners, cancels, starts, received, handled>>

(* handleWaiting. *)
Drain(i) ==
  /\ inboxes[i].worker = "draining"
  /\ IF inboxes[i].msgs # <<>> /\ ~cut
     THEN Handle(i)
     ELSE /\ inboxes' = [inboxes EXCEPT ![i].worker = "gone",
                           ![i].msgs = IF @ = <<>> THEN @ ELSE Tail(@)]
          /\ UNCHANGED handled
  /\ UNCHANGED <<boot, stopping, cut, wanted, attached, stored, listeners, cancels, starts, received>>

-----------------------------------------------------------------------------
Serve == Begin \/ StoreInbox \/ StartListeners \/ DeleteInbox \/ StartWorker
Start == \E s \in starts : GetInbox(s) \/ StartOne(s)
Work  == \E i \in DOMAIN inboxes : Take(i) \/ StopTaking(i) \/ Drain(i)

Next ==
  \/ Serve \/ Start \/ Work
  \/ \E id \in Identities : Attach(id) \/ Detach(id)
  \/ \E l \in DOMAIN listeners : Receive(l) \/ Hand(l) \/ Return(l) \/ Retry(l) \/ Leave(l)
  \/ Stop \/ CancelTurns

Spec == Init /\ [][Next]_vars

(* Goroutines go on; a chat app's Listen returns once it is cancelled.  Nobody *)
(* has to write, attach, take away or stop.                                    *)
Goes(l) == l \in DOMAIN listeners /\ (Hand(l) \/ Retry(l) \/ Leave(l) \/ (Done(l) /\ Return(l)))
Fairness ==
  /\ WF_vars(Serve) /\ WF_vars(Start) /\ WF_vars(Work)
  /\ \A l \in 1..MaxListeners : WF_vars(Goes(l))

FairSpec == Spec /\ Fairness

-----------------------------------------------------------------------------
(* Properties. *)

(* "Leaving it stored would make StartListenerForAgent think a worker is     *)
(* already serving it, and every message to that agent would then wait       *)
(* unread": no listener feeds an inbox that nothing reads.                    *)
NoneUnread ==
  \A l \in DOMAIN listeners :
    listeners[l].step \in Running => inboxes[listeners[l].inbox].worker # "none" \/ boot = "started"

(* StopIdentityListeners "cancels the listener goroutines", so they do not   *)
(* go on "polling a disconnected credential": what still listens uncancelled *)
(* is an account that is attached, and one listener of it.                   *)
OnlyWanted ==
  \A l \in DOMAIN listeners :
    listeners[l].step \in Running /\ ~listeners[l].cancelled /\ starts = {} =>
      /\ listeners[l].id \in wanted
      /\ \A k \in DOMAIN listeners \ {l} :
           listeners[k].id = listeners[l].id => listeners[k].cancelled \/ listeners[k].step = "gone"

(* "Registers a cancel func in listenerCancels so StopIdentityListeners can  *)
(* stop it later": of what listens, nothing is out of reach.                 *)
InReach ==
  \A l \in DOMAIN listeners :
    listeners[l].step \in {"listening", "handing", "waiting"} /\ ~listeners[l].cancelled =>
      cancels[listeners[l].id] = l

(* No message is lost on its way: a listener that stays gives up what it      *)
(* received only to its inbox, and an inbox only to be handled, unless the    *)
(* server's grace has run out, and whatever becomes of the listener.         *)
Waiting(m) == \E i \in DOMAIN inboxes : Contains(inboxes[i].msgs, m)
NoneLost ==
  [][\A m \in 1..received :
       /\ \A l \in DOMAIN listeners :
            listeners[l].msg = m /\ listeners'[l].msg # m /\ ~Done(l) => Waiting(m)'
       /\ Waiting(m) /\ ~Waiting(m)' => m \in handled' \/ cut]_vars

(* What waits is handled, and ListenAndServe "blocks until ctx is cancelled   *)
(* and all goroutines return": they do.                                      *)
ComesToRest ==
  []<>(/\ \A l \in DOMAIN listeners :
            listeners[l].step # "handing" /\ (stopping => listeners[l].step = "gone")
       /\ stopping \/ \A m \in 1..received : ~Waiting(m)
       /\ stopping => \A i \in DOMAIN inboxes : inboxes[i].worker \in {"none", "gone"})

(* What is received is heard (startOneListener, getOrCreateInbox).           *)
AllHeard == NoneLost /\ ComesToRest

(* What listens is wanted, once, can be stopped and is read (startOneListener, *)
(* StopIdentityListeners, ListenAndServe), and no inbox holds more than its   *)
(* room.                                                                      *)
ListenersInv == TypeOK /\ OnlyWanted /\ InReach /\ NoneUnread
=============================================================================

------------------------------- MODULE Peers -------------------------------
(***************************************************************************)
(* Handing tasks to a named remote worker over a WebSocket it dialled      *)
(* (runtime/peer.go): the worker's connections one after another, the      *)
(* hub's registry and read loops, Dispatch calls that wait for a result,   *)
(* and side calls a task makes back to the hub while it runs.              *)
(*                                                                         *)
(* A connection breaks at any moment; each end finds out later, at a       *)
(* moment of its own (a read that fails, or no pong for peerPongWait), and *)
(* may still read some of what had arrived.  The worker dials again as     *)
(* soon as it has found out.                                               *)
(***************************************************************************)
EXTENDS Integers, Sequences, FiniteSets

CONSTANTS MaxTasks,  \* bound: Dispatch calls
          MaxConns,  \* bound: connections
          Deaf       \* tasks dispatched with no SideCallHandler

PeersConstants == {MaxTasks, MaxConns} \subseteq Nat /\ Deaf \subseteq 1..MaxTasks

Tasks == 1..MaxTasks
Conns == 1..MaxConns
None  == 0

VARIABLES
  peer,   \* PeerHub.peers under the worker's name: a connection, or None
  conn,   \* [Conns -> [hub, worker, cut, up, down]]: both ends, and the frames under way
  put,    \* [Conns -> the result the hub's read loop is handing to its task, as a set]
  task,   \* [Tasks -> [step, on, chan]]: Dispatch; on: the Peer whose pending map has it
  work,   \* [Tasks -> [step, on]]: the worker's goroutine for a task, and its side call
  call,   \* hub goroutines answering a side call: set of [task, on, step]
  past    \* history: [overtook, late]

vars == <<peer, conn, put, task, work, call, past>>

InFlight(t) == task[t].step \in {"sending", "waiting"}
\* A mistake: the channel has no room of its own, and is handed to who waits.
HandsOver(t) == task[t].chan = 0 /\ task[t].step = "waiting"
\* pendingTask.result has room for one.
HasRoom(t) == task[t].chan = 0

Frame(kind, t) == [kind |-> kind, task |-> t]

\* conn.WriteJSON: what is written to a connection that broke is lost, and an error or not.
SendUp(c, f)   == conn' = IF conn[c].cut THEN conn ELSE [conn EXCEPT ![c].up = Append(@, f)]
SendDown(c, f) == conn' = IF conn[c].cut THEN conn ELSE [conn EXCEPT ![c].down = Append(@, f)]

(***************************************************************************)
(* The hub.                                                                *)
(***************************************************************************)
\* The registry goes by the worker's name alone.
register(c) == peer' = c
unregister  == peer' = None

\* handleConn, as far as register: the newest connection has the name.
Hello(c) ==
  /\ conn[c].hub = "new"
  /\ conn' = [conn EXCEPT ![c].hub = "serving"]
  /\ register(c)
  /\ past' = [past EXCEPT !.overtook = @ \/ \E b \in Conns : conn[b].hub = "serving"]
  /\ UNCHANGED <<put, task, work, call>>

\* A mistake: whatever comes is for the task that has waited longest.
Oldest(c, t) == {u \in Tasks : InFlight(u) /\ task[u].on = c /\ \A v \in 1..(u - 1) : ~InFlight(v)}
\* The task, if it is in this connection's pending map.
Pending(c, t) == {u \in {t} : InFlight(u) /\ task[u].on = c}

\* handleConn's loop: a result is looked up, a side call gets a goroutine, which looks up on its own.
HubReads(c) ==
  /\ conn[c].hub = "serving" /\ put[c] = {} /\ conn[c].up # <<>>
  /\ LET f == Head(conn[c].up)
     IN  /\ put'  = IF f.kind = "result" THEN [put EXCEPT ![c] = Pending(c, f.task)] ELSE put
         /\ call' = IF f.kind = "side" THEN call \cup {[task |-> f.task, on |-> c, step |-> "look"]} ELSE call
  /\ conn' = [conn EXCEPT ![c].up = Tail(@)]
  /\ UNCHANGED <<peer, task, work, past>>

\* task.result <- f, which waits for room.
HubPuts(c) ==
  /\ \E t \in put[c] :
       /\ HasRoom(t)
       /\ task' = [task EXCEPT ![t].chan = @ + 1]
  /\ put' = [put EXCEPT ![c] = {}]
  /\ UNCHANGED <<peer, conn, work, call, past>>

\* The read loop finds out; unregister takes whatever has the name off.
HubEnds(c) ==
  /\ conn[c].cut /\ put[c] = {}
  /\ \/ conn[c].hub = "new" /\ UNCHANGED peer
     \/ conn[c].hub = "serving" /\ unregister
  /\ conn' = [conn EXCEPT ![c].hub = "gone", ![c].up = <<>>]
  /\ UNCHANGED <<put, task, work, call, past>>

\* handleSideCall: unknown and deaf tasks' calls are refused; otherwise the handler runs.
LooksUp(x) ==
  /\ x.step = "look"
  /\ call' = (call \ {x}) \cup
       {[x EXCEPT !.step = IF Pending(x.on, x.task) # {} /\ x.task \notin Deaf THEN "run" ELSE "answer"]}
  /\ UNCHANGED <<peer, conn, put, task, work, past>>

RunsSide(x) ==
  /\ x.step = "run"
  /\ call' = (call \ {x}) \cup {[x EXCEPT !.step = "answer"]}
  /\ past' = [past EXCEPT !.late = @ \/ ~InFlight(x.task)]
  /\ UNCHANGED <<peer, conn, put, task, work>>

AnswersSide(x) ==
  /\ x.step = "answer"
  /\ call' = call \ {x}
  /\ SendDown(x.on, Frame("side", x.task))
  /\ UNCHANGED <<peer, put, task, work, past>>

(***************************************************************************)
(* Dispatch.                                                               *)
(***************************************************************************)
Dispatch(t) ==
  /\ task[t].step = "none" /\ \A u \in 1..(t - 1) : task[u].step # "none"
  /\ task' = [task EXCEPT ![t].step = IF peer = None THEN "refused" ELSE "sending", ![t].on = peer]
  /\ UNCHANGED <<peer, conn, put, work, call, past>>

\* A broken connection may take the frame, and lose it, or refuse it.
SendsTask(t, refused) ==
  /\ task[t].step = "sending"
  /\ refused => conn[task[t].on].cut
  /\ task' = [task EXCEPT ![t].step = IF refused THEN "failed" ELSE "waiting"]
  /\ IF refused THEN UNCHANGED conn ELSE SendDown(task[t].on, Frame("task", t))
  /\ UNCHANGED <<peer, put, work, call, past>>

Receives(t) ==
  /\ task[t].step = "waiting" /\ task[t].chan > 0
  /\ task' = [task EXCEPT ![t].step = "answered", ![t].chan = @ - 1]
  /\ UNCHANGED <<peer, conn, put, work, call, past>>

\* peerDispatchTimeout, or the caller's context.
GivesUp(t) ==
  /\ task[t].step = "waiting"
  /\ task' = [task EXCEPT ![t].step = "failed"]
  /\ UNCHANGED <<peer, conn, put, work, call, past>>

(***************************************************************************)
(* The worker: Dial and MaintainPeer.                                      *)
(***************************************************************************)
Open(c) == conn[c].worker = "serving"

DialsAgain(c) ==
  /\ conn[c].worker = "none"
  /\ \A b \in 1..(c - 1) : conn[b].worker = "gone"
  /\ conn' = [conn EXCEPT ![c].worker = "serving", ![c].hub = "new"]
  /\ UNCHANGED <<peer, put, task, work, call, past>>

WorkerReads(c) ==
  /\ Open(c) /\ conn[c].down # <<>>
  /\ LET f == Head(conn[c].down)
     IN  work' = CASE f.kind = "task" -> [work EXCEPT ![f.task] = [step |-> "running", on |-> c]]
                   [] f.kind = "side" /\ work[f.task].step = "calling" ->
                        [work EXCEPT ![f.task].step = "called"]
                   [] OTHER -> work
  /\ conn' = [conn EXCEPT ![c].down = Tail(@)]
  /\ UNCHANGED <<peer, put, task, call, past>>

\* Dial returns; the tasks it began run on, and answer to the connection they came by.
WorkerEnds(c) ==
  /\ Open(c) /\ conn[c].cut
  /\ conn' = [conn EXCEPT ![c].worker = "gone", ![c].down = <<>>]
  /\ UNCHANGED <<peer, put, task, work, call, past>>

\* The worker's process dies, and is started again.
WorkerDies(c) ==
  /\ Open(c)
  /\ conn' = [conn EXCEPT ![c].worker = "gone", ![c].cut = TRUE, ![c].down = <<>>]
  /\ work' = [t \in Tasks |-> IF work[t].step = "none" THEN work[t] ELSE [work[t] EXCEPT !.step = "dead"]]
  /\ UNCHANGED <<peer, put, task, call, past>>

CallsBack(t) ==
  /\ work[t].step = "running"
  /\ work' = [work EXCEPT ![t].step = "calling"]
  /\ SendUp(work[t].on, Frame("side", t))
  /\ UNCHANGED <<peer, put, task, call, past>>

\* peerSideCallTimeout
CallTimesOut(t) ==
  /\ work[t].step = "calling"
  /\ work' = [work EXCEPT ![t].step = "called"]
  /\ UNCHANGED <<peer, conn, put, task, call, past>>

\* The handler is done, or failed: its result, or its error, goes back.
Finishes(t) ==
  /\ work[t].step \in {"running", "called"}
  /\ work' = [work EXCEPT ![t].step = "done"]
  /\ SendUp(work[t].on, Frame("result", t))
  /\ UNCHANGED <<peer, put, task, call, past>>

Breaks(c) ==
  /\ Open(c) /\ ~conn[c].cut
  /\ conn' = [conn EXCEPT ![c].cut = TRUE]
  /\ UNCHANGED <<peer, put, task, work, call, past>>

(***************************************************************************)
(* Specification                                                           *)
(***************************************************************************)
Init ==
  /\ peer = None
  /\ conn = [c \in Conns |-> [hub |-> "none", worker |-> "none", cut |-> FALSE, up |-> <<>>, down |-> <<>>]]
  /\ put = [c \in Conns |-> {}]
  /\ task = [t \in Tasks |-> [step |-> "none", on |-> None, chan |-> 0]]
  /\ work = [t \in Tasks |-> [step |-> "none", on |-> None]]
  /\ call = {}
  /\ past = [overtook |-> FALSE, late |-> FALSE]

Hub(c)    == Hello(c) \/ HubReads(c) \/ HubPuts(c) \/ HubEnds(c)
Side(x)   == LooksUp(x) \/ RunsSide(x) \/ AnswersSide(x)
Worker(c) == WorkerReads(c) \/ WorkerEnds(c)
Waits(t)  == SendsTask(t, FALSE) \/ SendsTask(t, TRUE) \/ Receives(t)
Ends(t)   == CallTimesOut(t) \/ Finishes(t)

Next ==
  \/ \E c \in Conns : Hub(c) \/ Worker(c) \/ DialsAgain(c) \/ WorkerDies(c) \/ Breaks(c)
  \/ \E x \in call : Side(x)
  \/ \E t \in Tasks : Dispatch(t) \/ Waits(t) \/ GivesUp(t) \/ CallsBack(t) \/ Ends(t)

Spec == Init /\ [][Next]_vars

\* Goroutines go on, a task's handler ends, and a broken connection is found out (peerPongWait);
\* nobody need dispatch, and no Dispatch need give up.
Fairness ==
  /\ \A c \in Conns : WF_vars(Hub(c)) /\ WF_vars(Worker(c))
  /\ \A t \in Tasks : WF_vars(Waits(t)) /\ WF_vars(Ends(t))
  /\ WF_vars(\E x \in call : Side(x))

FairSpec == Spec /\ Fairness

(***************************************************************************)
(* Properties                                                              *)
(***************************************************************************)
\* Dispatch returns a result only when its own task's handler gave one (Peer.pending, by TaskID).
RightResult ==
  \A t \in Tasks : task[t].step = "answered" \/ task[t].chan > 0 => work[t].step \in {"done", "dead"}

\* As long as the hub found out about each lost connection before the next said hello, a worker
\* that is connected can be given tasks, over the connection it serves (register, unregister).
ReachedInOrder ==
  ~past.overtook => \A c \in Conns : conn[c].hub = "serving" /\ Open(c) => peer = c

PeersInv == RightResult /\ ReachedInOrder

\* A task that the worker runs is answered to its Dispatch, without any timeout, for as long as the
\* connection it came by holds and the worker's process lives; and no connection's read loop stays
\* at a result whose Dispatch has given up, which would hold up every other task of the connection.
Answered ==
  []<>(/\ \A c \in Conns : put[c] = {}
       /\ \A t \in Tasks :
            task[t].step = "waiting" /\ work[t].step # "none" => ~InFlight(t) \/ conn[task[t].on].cut)

(***************************************************************************)
(* Said of this code and not kept (README, Disagreements).                 *)
(***************************************************************************)
\* peer.go, Connected: "reports whether a named peer currently has a live connection".
LiveIsConnected ==
  \A c \in Conns : conn[c].hub = "serving" /\ Open(c) /\ ~conn[c].cut => peer # None

\* peer.go, handleSideCall: "a side call for a task this Peer no longer knows about (already
\* finished, ...) gets a clear error": its handler does not run after Dispatch has returned.
SideInFlight == ~past.late
=============================================================================

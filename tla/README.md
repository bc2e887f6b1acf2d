# Kael, modelled

Kael (`github.com/unitz007/open-kael`, Go) hosts agents that people talk to in chat apps: it listens to
the apps, keeps each conversation in order, lets a language model answer with the tools an agent has, asks
people to choose or approve, and turns events from outside services into jobs that agents carry out. This
directory holds TLA+ modules of its concurrent, durable and deciding parts, the TLC configurations that check them,
and TLAPS proofs: every invariant and every action property that a passing run checks is also a theorem.

A module is translated from the code, statement by statement where two goroutines, two processes or two
transactions can meet; `PROJECT.json` maps each definition to its lines. Definitions under a comment
"A mistake: ..." are not the code: each is a plausible bug that must break one of the properties.

## 1. Inventory

| Part | Source | State | Operations | Interacts with |
|---|---|---|---|---|
| Job queue | `postgres/jobs.go` | table `pipeline_jobs` | Enqueue, Lease, Extend, Defer, Release, Done, Drop, Fail, FailFinal, TakeInterrupted, purge, DropLiveJobs | router (enqueues), workers (lease) |
| Fair leasing | `postgres/jobs.go` LeaseFair | the same table, advisory lock `job-lease` | LeaseFair | the job queue's other statements |
| Job caps | `postgres/jobs.go` EnqueueCapped | the same table, two advisory locks | EnqueueCapped | Enqueue |
| Events inbox, ingest | `runtime/ingest.go`, `ratelimit.go`, `postgres/inbox*.go` | table `events_inbox`, failure windows in memory | webhook handler, Lease, Done, Drop, Fail, PurgeInbox | router |
| Conversation line | `runtime/inbound.go`, `editing.go`, `host.go` | `convQueues` under `convMu`, history and last exchange in the database | dispatchInbound, enqueueInbound, runInbound, handleEdit, answerEdit | listeners, reply loop, memory |
| Listeners, inboxes | `runtime/listen.go` | `agentInboxes`, `listenerCancels` | ListenAndServe, StartListenerForAgent, StopIdentityListeners, listenIdentity, drainInbox | chat apps, conversation line |
| Approvals, questions | `runtime/approval.go`, `choice.go` | pending tokens, channels, chat index | RequestApproval, RequestChoice, Resolve, Supersede | a turn that waits, taps |
| Choices under a message | `runtime/proposal_host.go`, `postgres/proposal.go` | table `proposals`, the message's buttons | attachChoices, OfferChoices, takeTypedChoice, handleProposalTap, retireChoices | conversation line |
| Reply loop, finish check | `domain/loop.go`, `outcome.go` | one reply's history, counters, records | Run, wrapUp, giveUp | model, tools, `Host.HandleTurn` |
| What takes a message, connect gate | `runtime/listen.go`, `host.go`, `getting_started.go`, `postgres/pending_turn.go` | waits of a chat, held requests, prompts sent lately | handleInboundSafely, taps, holdTurn, takeTurn, OnIntegrationConnected | conversation line, turns, accounts of the person |
| Turn and routing | `runtime/host.go`, `carryover.go`, `requirements.go`, `postgres/memory.go` | one turn; the last abilities of a conversation | handleTurn, routeWithJev, runRoutedTurn, RunScheduledTask | router (a model), reply loop, tool gates |
| Tool gates | `domain/hydrate.go`, `prerequisite.go`, `tool_rule.go`, `input_contract.go`, `granted.go` | a reply's journal, one-shot keys, approvals | a bound action's wrappers | reply loop, approvals |
| Wake-ups | `runtime/wake_plan.go`, `task_plan.go` | one planning reply; the scheduler's task | PlanWake, PlanTaskChanges | reply loop, scheduler (outside) |
| Peers | `runtime/peer.go` | connections, registry, pending tasks | handleConn, Dispatch, side calls | reply loop |
| People | `postgres/person.go`, `merge.go`, `sweep.go`, `sender.go` | `persons` and every table that names one | EnsurePerson, LinkEmail, MergePersons, DeleteEmptyPeople | everything stored about a person |
| Accounts | `api/user.go`, `account_*.go`, `postgres/account*.go`, `password_reset.go` | accounts, sessions, tokens, tries in memory | register, confirm, sign in, reset, change of address, delete | people |
| Profile learning | `runtime/profile_learn.go`, `profile_host.go`, `postgres/profile_details.go` | details, refusals; one exchange's view of them | Learn, consider, proposeChange | model, questions |
| Stored definitions, their API, the host's copy | `api/agent.go`, `skill.go`, `identity.go`, `postgres/agent.go` ..., `runtime/host.go` | rows; the registered agents and their listeners | create, patch, rules, identities, delete; Register, ReloadAgent, Deregister | listeners |
| Settings menu, steps, work board, activity, connection cache | `runtime/settings_flow.go`, `steps.go`, `work.go`, `activity.go`, `connections.go` | sessions, counters, subscriptions, a cache | Handle, notify, watch, Resolve | API streams, database |
| Other API and stores, registries, MCP, formatting, encryption, routing client | `api/`, `postgres/`, `domain/`, `crypto/`, `chatformat/`, `jev/` | rows; maps under a lock | create, read, update, delete; pure functions | — |

`PROJECT.json` lists every part with its files, what is modelled of it, and why not where it is not.

### What is hard here

* **Two statements, not one.** Lease gives up on exhausted rows in one statement and takes due rows in the
  next; LeaseFair chooses from a snapshot that is older than the rows it updates; the last exchange is read
  in one statement and rewound in another.
* **Leases and late workers.** A worker may be slow, die, or never learn that it was given a row.
* **Goroutines around one conversation.** The line's own, the dispatcher's, one per edit, one per tap, one
  per listener; some state is under `convMu`, some in the database without a lock.
* **Waiting for people.** A turn holds its line while it waits for a button; taps, typed words, timeouts,
  cancellation and restarts race for the one answer.
* **A model that may do anything.** The loop must end, must not repeat changes, must not claim what was not done.
* **A whole row, or a whole agent, is saved from a copy.** What another request saved in between is overwritten;
  what the host has follows the store only if reloads run one after the other.
* **Rules around a call.** A dozen wrappers, each about the input as it stands at its own moment: as written, filled
  in, prepared, approved, sent.
* **One person, several rows.** Two calls find out at the same moment that two people are one, or that one is gone.
* **Retries from outside.** A webhook is sent again until it is acknowledged, whatever became of the first copy.

### What makes each part correct

The properties are named in section 4. In short: leases exclude each other and starts are counted (queue);
limits and caps hold however many workers there are (fair leasing, caps); an acknowledged event is acted on,
once (inbox); messages are answered in order, once, as they now read (line); nothing goes unread or out of
reach (listeners); a message has one taker, and what is held is carried out once, while fresh (connect gate); every
wait ends and gets its own answer (prompts); a choice is made once and heard (proposals); no change twice, no false
"done", and an end (reply loop); a task changes only what was agreed, and what is offered comes with what must run
first (turn); what is approved is what is sent, after what had to be looked at (gates); a job is done once per moment,
when it was meant (wake-ups); a task gets its own answer (peers); nobody and nothing of anybody is lost in a merge
(people); an address is its owner's and a link works once (accounts); only a Yes replaces what is held (learning);
the host runs what is stored (definitions).

## 2. Modules

| Module | Models | Uses |
|---|---|---|
| `JobLife` | what a queue promises: a lock on each job, handed out, renewed, reported by its holder only. Abstract. | |
| `JobQueue` | the table of jobs and its statements, workers that crash and are late | refines `JobLife` |
| `FairLease` | LeaseFair as a transaction in steps | |
| `JobCaps` | EnqueueCapped as a transaction in steps | |
| `InboxQueue` | the inbox table and its leases | |
| `EventsPipeline` | webhook handler, inbox, router, jobs | extends `InboxQueue`, refines `JobLife` |
| `ConversationLine` | one conversation's line, edits, and the steps of a turn | |
| `Listeners` | inboxes, listeners, attach, take away, start, stop | |
| `Prompts` | approvals and questions | |
| `AgentLoop` | one reply and its finish check | |
| `Proposals` | choices kept under a message, with the line they are heard through | |
| `Inbound` | who takes a message, the waits of a chat, the connect gate and held requests | |
| `Turn` | what a turn is routed to, offered and held to | |
| `ToolGates` | everything between a call by the model and the service | |
| `WakePlan` | planning of a task's next wake-up, and what a task may change | |
| `Peers` | a named worker's connections, tasks and side calls | |
| `People` | people, chats and logins, merged statement by statement | |
| `Accounts` | the sign-in pages, statement by statement | |
| `Learning` | what agents learn about a person | |
| `Definitions` | stored agents, rules, identities and capabilities, and the host's copy of them | |
| `MCIncoming` | `ConversationLine`, `Prompts`, `Listeners`, `Peers`, an instance each | instances of the four |
| `MCTurns` | `Turn`, `ToolGates`, `Proposals`, `WakePlan`, an instance each | instances of the four |
| `MCPersons` | `People`, `Accounts`, an instance each | instances of the two |
| `MCKept` | `JobCaps`, `Learning`, `Definitions` | extends `JobCaps`, instances of the other two |
| `JobQueueProofs`, `FairLeaseProofs`, `EventsPipelineProofs`, `InboundProofs` | proofs about the module each is named after (section 5) | extend it, and TLAPS |
| `LoopPersonsProofs` | proofs about `AgentLoop`, and about `Accounts` and `People` as `MCPersons` has them | extends `AgentLoop` and `MCPersons`, and TLAPS |
| `KeptProofs` | proofs about `JobCaps`, and about `Learning` and `Definitions` as `MCKept` has them | extends `MCKept`, and TLAPS |
| `IncomingProofs` | proofs about `Prompts`, `Peers`, `Listeners` and `ConversationLine` as `MCIncoming` has them | extends `MCIncoming`, and TLAPS |
| `TurnsProofs` | proofs about `Turn`, `ToolGates`, `Proposals` and `WakePlan` as `MCTurns` has them | extends `MCTurns`, and TLAPS |

`MC*` modules give constants that a `.cfg` cannot write; `Inbound` has a `.cfg` of its own name. The last four
check several modules in one run. Their modules share no variable and no step: `part`, chosen in `Init`, says whose
steps the behaviour takes, and the others' variables stay as they began (in `MCPersons` and `MCKept` they hold 0). So
the run explores the sum of the state spaces and not their product, and each property speaks of its own part. Where a
part has liveness, its fairness is stated so that a part whose steps are not taken owes nothing.

### How state and actions correspond

* **JobQueue.** `row` is `pipeline_jobs`; a job is a pair (alert, repeat key), the table's unique key. `pc[w]`
  says which second statement a worker is about to run; `run[w][j]` is what the worker believes it holds. Time
  is relative (`left`, `dueIn`, `age` count down or up), so the model needs no clock. `starts` is history: how
  often the job was really begun. Workers are outside this repository and follow `domain/pipeline.go`: they
  begin a job only under a lease they know to be good, and may be late with everything else.
* **FairLease.** `tx[w]` is one call: begun (NOW() is fixed), locked, chosen (snapshot), updated. Other
  workers' statements run between. Rows are picked with the code's two ranks.
* **JobCaps.** `call[w]` is one transaction; `row[r].created` is when it *began*. Both locks are sets of
  holders, taken in the code's order.
* **InboxQueue, EventsPipeline.** A handler goes through `received`, `checked`, `decoded`, stored and answered;
  each may fail, and the server may stop. `acked` are the deliveries whose sender saw 200. The router takes a
  row, enqueues a job for each alert one statement at a time, and reports. `alertsOf` is fixed in `Init`:
  whom the occurrence concerns, nobody included.
* **ConversationLine.** `inbox` is what the app handed on, `line` the `convQueue`, `turn` the line's goroutine
  with the steps of `handleTurn` between which a cancellation matters (keep, send, note), `editors` the
  `answerEdit` goroutines, `history` and `last` what the database holds. Words are how often they were edited.
* **Listeners.** Every call on the two `sync.Map`s is a step. `wanted` is what whoever attaches accounts knows.
* **Prompts.** Token and channel under the requester's lock; `sends` are `Resolve` calls between taking the
  token out and sending; `cutting` are `Supersede` calls between the look-up and the send.
* **Proposals.** `state` and `pick` are the row, `look` the message, `line` the chat's line, `taps` the
  goroutines of taps, `removing` those that take buttons off.
* **AgentLoop.** The model calls any sequence of actions; a call's return is chosen freely. `times` is what was
  really done and is not visible to the loop. `owed` counts the calls without an answer in the history.
* **Inbound.** `run[p]` is one message, tap or replay on its way through `handleInboundSafely` and the turn behind it;
  `db` and `mem` are what survives a restart and what does not: the address a chat waits for, the instructions that
  were asked for, the held request, the prompts sent lately. `conn` is the callback of a sign-in. `past` is history:
  who took each message, how often each request was held and replayed.
* **Turn.** `turn[p]` goes from `classify` through `pick`, `follow`, `handle`, `offer` to the loop; `p` is a chat or
  the repeating task. What the router, the filter and the requirement reader answer is any answer, or a failure.
  `store` is the last abilities as the database has them, `recent` what messages used. The loop of `keepNeeded` is
  written as what it ends with: the least set that has everything its members need or want beside them.
* **ToolGates.** `reply.bound` holds the abilities of a reply with the rules, waits and limits each was bound with;
  `reply.call` is the one call under way with the inputs as they now stand. Wrappers that only look are conjuncts of
  one step; those that wait for somebody are steps of their own. A copy of an ability keeps the agent's rules (`rules`) and
  its capability's (`own`) apart, for fixed values are filled in in that order. `sent` is what reached a service, with what was
  approved of it. Six values stand for numbers, numbers given as text, texts in two cases and texts that are neither.
* **WakePlan.** `st` is one planning reply with its look-ups, its plan and whether the moment was confirmed; `task` the
  scheduler's side, which follows the doc comments of `WakePlan` and `PlanWake`.
* **Peers.** `conn[c]` is a connection with both ends and what is on the wire, `task[t]` a Dispatch with its channel of
  one place, `work[t]` the worker's side, `put[c]` a read loop at a result. A broken connection is found out by each
  end at a moment of its own.
* **People.** `tx[t]` is a call with the row locks it has and waits for. Writes of a transaction are one step, where
  it commits. The many tables that name a person are one of each kind: a note that is joined, a mark that it was
  sorted, a connection of which the newer stands, chats and logins that are moved. With somebody who is deleted go those
  who were merged into them (`ON DELETE CASCADE`), once nobody holds their rows. A marker is followed sixteen times
  at most, as `GetPerson` does: `step[k]` is where `k` steps lead.
* **Accounts.** `req[r]` is a request with the copy of the row it read; each statement is a step. `letters` are the
  links that were mailed: whoever owns the address opens them whenever, and twice. `gen` counts passwords of a login.
* **Learning.** `learn[e]` is an exchange that is learned from, with the details as its server knew them when it
  began. The judge, asked whether a proposal is a detail that is held, is right, wrong, or fails.
* **Definitions.** `store` is the agents' rows, `host` what the host has registered of them, `listeners` what it
  listens to. A request loads, saves, and then tells the host in steps of its own; reloads read first and write later.
  A text or a set of rules is known by the request that wrote it.

Assumptions about the surroundings are fixed variables chosen in `Init` where a property depends on them
(`alertsOf`, `calm`, `mayBeLate`, `elsewhere`, `request`), so that one run covers both worlds; the property
then names the world it is claimed for. `Late`, `Prompt`, `Early` and `Hasty` are constants of the same kind.

## 3. Fairness

Only what the scheduling gives: goroutines that can go on do (weak fairness of each kind of goroutine's
step), time passes, and workers keep polling. Strong fairness is used for statements that other workers'
statements can disable for a moment: the two statements of a lease and the start of a leased job (`JobQueue`,
`EventsPipeline`: ORDER BY brings a due row to the front in the end), and a transaction that waits for the
advisory lock (`FairLease`: PostgreSQL queues waiters). Nobody has to write, tap, edit, attach, stop, crash,
extend, defer, purge or drop, and no timeout has to pass. In `Peers` a
connection that broke is found out by both ends (the pong deadline) and a task's handler ends; nobody has to dial
again, dispatch or give up. The modules of turns, gates, wake-ups, people, accounts, learning and definitions claim no
liveness: what goes on there is up to people, models and requests. In `AgentLoop` the model answers or fails and calls
return, which the turn's deadline sees to.

## 4. Runs

Ten runs pass, with 40 properties between them; two expect a violation (section 6).

| Run | Instance | Properties and what they show |
|---|---|---|
| `job_queue` | one job of two attempts, two workers, leases of 2 ticks, two crashes or lost replies, two hand-backs, one lease beyond the attempts | `QueueInv` (`OneLiveLease`, `StartsCounted`, `InterruptedIsOver`), `SettledStays`; `ImplementsJobLife`: no lease in force is overridden and only the holder's report counts; `EventuallySettled`: every waiting job is settled, every interrupted one handed over to be told about |
| `fair_lease` | three jobs, two of one person and two of one agent, both limits 1, two workers, a transaction of up to a tick | `WithinLimits`: no person and no agent above its limit; `NobodyStarves` |
| `events` | one real and one forged delivery, sent up to three times in all, a handler, two routers, a crash | `PipelineInv` (`AcknowledgedIsKept`, `OnlyEventsAct`, `DoneIsRouted`, `NothingTwice`, `GivenUpLate`), `ImplementsJobLife` |
| `events_live` | the same with one handler and a throttling window | `GetsOn` (`ActedOn`: what was acknowledged is acted on; `LetInAgain`: a throttled client is let in) |
| `incoming` | line: three messages, two of which are edited | `LineInv` (`InOrder`, `LatestAnswered`), `NotAnsweredTwice`, `EveryTurn`: every turn ends and the line is given back |
| | prompts: two chats, two questions, two answers, a restart | `PromptsInv` (`NothingLeft`, `CanBeCut`, `NobodyHangs`, `TrueCounts`, `RightAnswerSince`), `CutShort` |
| | listeners: two accounts, up to three listeners, two messages, an inbox with room for one | `ListenersInv` (`OnlyWanted`, `InReach`, `NoneUnread`), `AllHeard` (`NoneLost`, `ComesToRest`) |
| | peers: two tasks, one without a side-call handler, two connections | `PeersInv` (`RightResult`, `ReachedInOrder`), `Answered`: a task is answered while its connection holds, and no read loop stays at a result |
| `reply` | four kinds of request, one change, one look-up, one question, two calls a step, no limit on steps, one step that changes nothing | `LoopInv` (`OnceEach`, `DoneIsDone`, `NothingHidden`, `AskedWithAnswers`), `Ends` |
| `inbound` | two messages of seven kinds in a chat, three buttons, two of: taps, sign-ins, long waits, restarts, failing statements; one call that needs the connection | `InboundInv` (`OneTaker`, `WelcomedOnce`, `OnePrompt`), `EmailRepliesTaken`, `HeldAndReplayed` (`HeldIsCarriedOut`, `FreshWhenStored`) |
| `turns` | turn: six abilities of two capabilities and the platform, four agents, a chat and a task, two turns, half an hour passing once | `TurnInv` (`HeldToOffered`, `FollowsOn`), `OnlyAgreed` |
| | gates: eight sets of rules, prerequisites and capabilities, six settings, every sequence of three calls over three abilities | `GatesInv` (`RulesKept`, `OncePerThing`, `OfferedAsGranted`), `ApprovedAsSent`, `LookedFirst` |
| | choices: two messages with two choices, one typed message, two taps | `ProposalsInv` (`ChosenOnce`, `HeardOnce`, `EndsThoseBefore`) |
| | wake-ups: four ticks, two plans each, wake-ups one to three ticks ahead, one tick late | `WakeInv` (`InSight`, `OncePerMoment`, `LeaveAsAgreed`), `DoneWhenMeant` |
| `persons` | people: two calls at once, two merges, up to three people, two chats, one address | `PeopleInv` (`NothingLost`, `SortedUnlessLent`, `ProvenIsTheirs`, `MergesDoNotCircle`), `NothingStranded` (`LeadsSomewhere`, `UnderSomebody`) |
| | sign-in pages: two requests at once, three in all, one broken off, two logins, addresses and passwords | `AccountsInv` (`OwnAddress`, `NobodyLeft`, `TriesBounded`, `LinksOnce`), `SignedOut` |
| `kept` | caps: three requests for two alerts, all of one person with an agent, one of which is for a shadow job and may come without caps, two workers, two caps of different windows | `WithinCaps` (`AlertWithinCap`, `PersonAgentWithinCap`, `NoCircle`: the two locks never wait on each other) |
| | learning: two servers with an exchange each, four details, two values, one edit by hand | `LearningInv` (`NotTwice`), `PersonDecides` (`OnlyYesChanges`, `RefusedOnce`) |
| | definitions: two agents, two identities, a capability, two requests of eight kinds, a restart | `DefinitionsInv` (`OneAgentPerIdentity`, `Kept`, `HostFollows`), `SavesItsPart` |
| `prompt_restart` | as the prompts of `incoming`, for approvals | **violated**: `RightAnswer`, see section 6 |
| `reply_finish` | as `reply` | **violated**: `FinishedWithAnswers`, see section 6 |

Each module's `TypeOK` is checked by one of its runs, in most as the first conjunct of the invariant named before
the parentheses; what is in parentheses are that invariant's parts, each stated and commented in the module.

Several properties carry a condition ("unless ..."): the sentence the code or its comments say is then kept in the
module as a definition of its own, without the condition, and is in section 6 because it does not hold.

**Why the bounds are enough to mean something.** Two workers are the least that can override each other's
lease; a hold of two ticks lets a lease be renewed halfway and run out; one lease beyond the attempts is what
the gap between Lease's statements allows. Two jobs of one person and two of one agent are the least that can
break either limit; a transaction that lasts a tick is the least that makes NOW() stale. A second webhook handler at work beside the
first is left to the proof, which has any number of them. Three messages are
the least in which one is being answered, one waits and one comes; edits hit one in the middle and the last
one. Three listeners let an old one end after a new one was registered. Two questions in two chats let a
token, a chat and a channel be mixed up. With two calls a step a call can follow a finish. Two connections let an old
one end after the new one registered, two tasks let a result reach another. In `inbound` a message or
a button sets a wait and the next message answers it, while a tap or a restart comes between; what a third would find is
covered by the proof, for any number of messages and chats. A look-up that needs another
(`archive` needs `find` needs `inbox`) is the shortest chain that putting back once would miss; two turns are a message
and its follow-up, or a task between them. Three calls are a look-up, a change and the change again. Three people let a
call hold on to somebody who is merged away, and the one merged into be merged on; two requests of the sign-in pages
overlap in every pair of steps, and a third comes after both. Two requests about two agents meet on a row, an identity or the host's copy. Rows,
workers and messages beyond these repeat the same pairwise meetings: each statement looks at one row, each
goroutine at one conversation. `CHECK_DEADLOCK FALSE` is set where the instance really comes to rest: all
messages sent, the clock at its bound, the reply ended.

`SYMMETRY` is used in runs without liveness only, over model values that appear in the constants alike.

## 5. Proofs

TLC checks the instances of section 4; what follows is proved for every value of the constants that satisfies the
named assumptions. TLC evaluates each assumption on a run, and checked each inductive invariant on an instance before
it was proved.

| Module | Theorem | States |
|---|---|---|
| `JobQueueProofs` | `TypeCorrect` | `Spec => []TypeOK` |
| | `LeasesExclude` | `Spec => []OneLiveLease` |
| | `EveryStartCounted` | `Spec => []StartsCounted`, if there is a worker at all |
| | `GivingUpIsLate` | `Spec => []InterruptedIsOver` |
| | `QueueHolds` | `Spec => []QueueInv`, the four above in one, if there is a worker at all |
| | `SettlingIsFinal` | `Spec => SettledStays` |
| | `PromptLeasesAreEnough` | `Prompt => (Spec => []StartsWithinMax)` |
| | `QueueImplementsJobLife` | `Spec => ImplementsJobLife` |
| `FairLeaseProofs` | `FairLeaseTypes` | `Spec => []TypeOK` |
| | `OneCallAtATime` | no two calls are past the advisory lock |
| | `LimitsHold` | `Late = {} => (Spec => []WithinLimits)` |
| `KeptProofs` | `JobCapsTypes` | `Spec => []TypeOK` |
| | `CallsTakeTurns` | `Spec => []NoCircle` |
| | `CapsHold` | `Spec => []WithinCaps` |
| | `NotedOnce` | `KeptSpec => []LearningInv` |
| | `PersonDecided` | `KeptSpec => PersonDecides` |
| | `DefinitionsHold` | `KeptSpec => []DefinitionsInv` |
| | `PartsStay` | `KeptSpec => SavesItsPart` |
| `EventsPipelineProofs` | `PipelineHolds` | `Spec => []PipelineInv` |
| | `InboxImplementsJobLife` | `Spec => ImplementsJobLife` |
| `LoopPersonsProofs` | `LoopHolds` | `Spec => []LoopInv` |
| | `AccountsHold` | `PersonsSpec => []AccountsInv` |
| | `SignedOutHolds` | `PersonsSpec => []SignedOut` |
| | `PeopleHold` | `PersonsSpec => []PeopleInv` |
| | `NothingStrandedHolds` | `PersonsSpec => []NothingStranded` |
| `InboundProofs` | `InboundHolds` | `Spec => []InboundInv` |
| | `EmailTaken` | `Spec => []EmailRepliesTaken` |
| | `HeldTurnsReplayed` | `Spec => []HeldAndReplayed` |
| `TurnsProofs` | `WakesHold` | `Spec => []WakeInv` |
| | `DoneAsMeant` | `Spec => DoneWhenMeant` |
| | `ChoicesHold` | `Spec => []ProposalsInv` |
| | `ApprovalsHold` | `Spec => []ApprovedAsSent` |
| | `LooksFirst` | `Spec => []LookedFirst` |
| | `GatesHold` | `Spec => []GatesInv` |
| | `AgreedOnly` | `Spec => []OnlyAgreed` |
| | `TurnsAreWhole` | `Spec => []TurnInv` |
| `IncomingProofs` | `QuestionsHold` | `FairSpec => []PromptsInv` |
| | `PeersHold` | `FairSpec => []PeersInv` |
| | `ListenHolds` | `~Early /\ ~Hasty => (FairSpec => []ListenersInv)` |
| | `LineHolds` | `FairSpec => []LineInv` |
| | `AnsweredOnce` | `FairSpec => NotAnsweredTwice` |

In every one of them the invariant the run checks is not inductive; what has to be added, and why:

* **`JobQueue`**, assuming `ConstantsOK`: attempts, hold and limit are positive, and rows are kept at least as long as
  a lease lasts. The last is needed: a row that is purged and stored anew while a worker still trusts its old lease
  would be leased twice. `OneLiveLease` is about what workers believe, and no statement of the table looks at that;
  `LeaseAgrees` ties the two: a lease a worker trusts is the row's own and ends no later than the row says, or the row
  was dropped under its hands so recently that it cannot have been purged. `HeldCounted` says that a job held and not
  begun has an attempt in the count beyond the starts so far, which is why handing it back may take one off.
  `RowSteps` lists everything that can happen to one row in one step, and the lemmas about settling, interruption and
  attempts go by it. `PromptLeasesAreEnough` adds that while a worker is between the two statements of a lease no
  exhausted row is left, and that a waiting row has an attempt to spare. For `JobLife` every step of a row is one of
  its steps or a stutter, with a lease in force as its lock.
* **`FairLease`**, assuming `FairConstants` (limits, lease and N are positive; a transaction waits less than a lease
  lasts) and, for the limits, `Late = {}`: workers renew and report under leases in force only. Without that the limits
  do not hold (section 6). The invariant adds that whoever chose, or may choose, has the lock (`Exclusive`), and that
  what is chosen fits beside what is in force *and* chosen together (`Room`, `ChosenRoom`). Between the two statements
  leases only end or run out, and what the choice counted as running is all that can be in force, for its NOW() is not
  later than the clock.
* **`JobCaps`**, assuming `CapsConstants`. `Locking` says which locks a call has at each step; since all take the
  alert's first, no circle closes. `CountsStand`: what a call counted, nobody has added to since, for rows come only
  under both locks, and rows that move only leave the count. `FromTheFirst` and `AllWithin` speak of a window that
  *begins* with each row, not of the one a call looks at: the code counts backwards from NOW() and forwards without an
  end, which is exactly what makes every window that the new row falls in safe whatever order transactions commit in.
* **`EventsPipeline`**, assuming `InboxConstants` and `PipelineConstants`. `InboxInv` is the inbox's own (leases exclude
  each other, a worker's belief is the row's), `FrontInv` relates the handlers to the rows (what is about to be
  answered with 200 is stored), `RouterInv` a router's place in its alerts to the jobs that exist, `Limiter` the
  failure windows to time.
* **`AgentLoop`**, assuming `AgentLoopConstants`: a change is no look-up, and no action is called "finish" or
  "unknown". The loop does not see what was really done. `SuccessIsReal`, `OnceNoted` and `ChangesNoted` tie its records to
  `times`: what was noted as done was done, what was done and answered is noted once; only then does "already done" of the
  loop mean that nothing is done twice. `Owing` and `InLimits` say that the history owes answers to the calls still to be
  looked at, and that every counter is below its limit wherever it can still rise.
* **`Inbound`**, assuming `InboundConstants`. `Takers` says that a message nobody took is in one goroutine's hands only;
  `Mails` that a chat that was asked for an address waits in memory *and* in the row a restart reads, through each step
  between; `Awaited` that once the callback of a sign-in has looked, no turn is left that had found the account
  missing and has not yet held its request; `Counted` bounds replays and what is still held by how often it was held. The
  conditions ("unless the callback was cut off", ...) are those of the properties; without them they are false (section 6).
* **`WakePlan`**, assuming `TurnsConstants`. `OncePerMoment` needs `Spaced`: the wake-up that is kept lies at least
  `MinActAhead` after the last doing. That holds because what is planned is valid as of the planning's beginning
  (`Founded`), which is no earlier than the last doing and works on the task's wake-up as it still is (`Begun`).
* **`Proposals`**, assuming `TurnsConstants`. `Placed`: the sentence of a chosen row is in exactly one of four places,
  with a tap, in the line, in the worker's hands, or heard, and a row that was not chosen has none. `AsPicked` says it is
  that of the row's choice wherever it is, `Written` that there is one message of each place a person wrote in, and
  `Ended` that of the rows open where words are on their way none is new; so ending the newest ends them all, as long as
  all choices come with replies.
* **`Prompts`**, assuming `IncomingConstants`. `Found` is an equivalence: a token's waiter is exactly the question with
  that token that is open, has no answer and none on its way. So who took a token out is the only one to answer
  (`OnTheirWay`), and a question that was answered is found no more. `Numbered` says that among open questions, and among
  all since the start, no two have one token; a restart gives tokens out anew, which is why an old button may then
  answer a new question (section 6). `KeptTrue` follows a tap that was told TRUE to the end of its question.
* **`Peers`**, assuming nothing of the constants. `ResultsReal` follows a result along its way, on the wire, in the
  read loop's hands and in the task's channel: everywhere its task's handler has ended. That needs `GivenOnce`: the
  frame of a task is under way once, on one connection, and its task has not begun; else a second copy could begin a
  task again that was answered. `Named`: as long as no hello overtook an end, what is served has the name.
* **`Listeners`**, assuming `IncomingConstants` (an inbox's room, and the accounts a server boots with fit in the
  bound on listeners), and `~Early /\ ~Hasty`: accounts change only when ListenAndServe serves, and an account is not
  attached again before its old listener is gone. Without these it does not hold (section 6). `OneEach` says that an
  account has one listener, or one about to come, and that only while the account is wanted or its listener is
  cancelled; `Reached` that what listens uncancelled left its cancel function under its key; `Served` that once
  ListenAndServe serves, an inbox without a worker is nobody's.
* **`ConversationLine`**, assuming `IncomingConstants` (there is a message, and those that are edited are among them).
  The turns that began say nothing of the messages that wait, so `Ordered` has one conjunct for each place a message
  can be in, turns, the goroutine's hands, the line and the inbox: those sent before it are ahead of it there or in a
  later place, or were lost in the line of a server that stopped (`Lost`). An edit puts messages in line a second time;
  `Known` says that these, the last exchange's and those answered again had a turn, so what waits *again* never counts
  as first. `LatestAnswered` speaks of a calm world, where nothing fails or stops, turns begin at once, and the last message
  alone is edited. There `LatestKnown` lists where that message can be, in its old words `Boxed`, `Lined`, `Turning` or
  `Noted`, together with the place of its edit, `EditBoxed`, `EditTaken` or `EditRead`; then `Again` (its exchange is being
  forgotten) or `New`. The proof is that an edit always finds its message in one of these places, though the dispatcher
  looks in the database first and at the line later. With a second edit it does not (section 6). `AnsweredOnce` follows words
  instead of messages, in every world and through any number of edits: `OnePlace` and `OneCopy` say that the words of
  one writing are in one place of six, the inbox, the dispatcher, the line, a turn that has not answered, an edit, or
  what was sent; `Written` that they are nowhere before they are written, which makes the next edit's new. Each step
  takes words from one place to another, or leaves them behind.
* **`ToolGates`**, assuming `GateConstants` (finitely many abilities and prerequisites; what an executor works out is a
  number). What reached a service says nothing of a call on its way, so `UnderCall` gives for each place between the
  gates what the call has passed: bound, filled in, kept its rules, waited for, approved, with the inputs as they stand
  there. `GoneOut` keeps that of everything sent, `WasSent` ties the journal and `Noted` the one-shot keys to it. Two
  lemmas carry the inputs across: what the same values are as given they are as checked, and checking twice
  changes no more.
* **`Turn`**, assuming `TurnConstants` (a chat is not the task; what the platform offers needs nothing). The invariant has
  one conjunct for each place of a turn: what routing settled about the message, or the task agreed to, bounds what
  is picked, put back and offered from then on, and `NeededKept` says that putting back adds what is needed only.
  `Remembered` ties the stored abilities to the turn that last set them, until a task is routed; `FollowsOn` needs it.
* **`Learning`**, assuming `LearningConstants` (a hand is no exchange, no value is none of the values). `Sound` says that what
  an exchange read when it began is what is held, but for what others wrote since; that what it is about to write was not
  held, or the person said Yes to; and that what was not held is the only name of its kind, unless the judge was in doubt.
  `RefusalsKept` says that a refusal is there as long as it counts and has words.
* **`Definitions`**, assuming `DefinitionsConstants`. `Follows`, of an agent about which one request at a time is under way:
  the host has what is stored, but for what the steps that are left will bring it (`OnItsWay`). `UpToDate` says that
  what a request loaded, and the claims it looked up, are as stored as long as nothing was saved since, and `Orderly`
  which steps a kind of request has, and that none refers to an identity that is still to be made.
* **`Accounts`**, assuming `PersonsConstants`. A token of a confirmation is for one address, in rows, letters and
  requests alike (`ClaimsOK`); those of resets and changes are new when they are made and gone when used (`LinksOK`). Where a
  login lives, in its row, a copy of it or a letter, is an address it has proved, or the only one it has
  (`HomesOK`); that is what `OwnAddress` needs of a request that read the row earlier. `TriesOK` counts each sign-in that was
  let in and has not ended as a try to come, `SignedOK` has every session verified and at its login's present password,
  but for those about to be ended. Steps fall into twelve kinds, by what they do to rows, links and sessions; each conjunct
  is shown kept by each kind.
* **`People`**, assuming `PersonsConstants`. `LocksOK` says which rows a call holds at each place of its transaction,
  and `LockedStay` that what is locked stays as the call found it. `FoundLive`: who was looked up and is still there was
  not merged away, unless the history says that it was (`met`); `OneStep`: a marker leads to somebody live, unless a sweep
  deleted somebody who had got something (`swept`). That there is a function `step` at all is shown one step
  at a time, and where it leads from the least number of steps for which that fails.
  `MergesDoNotCircle` follows from the order of the locks: a merge that holds one person waits for a higher number, one
  that holds both waits for addresses only, and no merge that waits holds an address.

`MCTurns`, `MCIncoming`, `MCPersons` and `MCKept` add steps of other parts; their proofs show that those leave the part's
variables alone.

**What stays with TLC.** Liveness (the prover does neither fairness nor ENABLED): `EventuallySettled`, `NobodyStarves`,
`GetsOn`, `EveryTurn`, `CutShort`, `AllHeard`, `Answered`, `Ends`. These eight are all that a passing run
checks and no theorem states. The definitions said of the code and not kept by it (section 6) are TLC's as well: a
counterexample needs no proof. No definition that a theorem depends on is RECURSIVE; where the code repeats
(`keepNeeded`, following markers) the module says what the repetition ends with, or counts its steps.

## 6. Disagreements between the code and what it says

Kept as runs:

* **`prompt_restart`** — tokens are numbered from 1 in each process (`runtime/approval.go:96`,
  `choice.go`), and buttons of the process before stay in the chats: a tap on an old prompt answers a new
  question. `choice.go:153` promises that a tap from before a restart matches nothing. `RightAnswerSince` holds.
* **`reply_finish`** — calls after `finish` in the same response are left without an answer in a history that is
  kept (`domain/loop.go:258`), against "every call needs an answer". `AskedWithAnswers` holds within the reply.

Met while modelling, and reproduced by changing an instance as given. A definition of a composite's part is checked by
naming it in the `MC` module, as in `Claim == part = "peers" => Peer!LiveIsConnected`, or, if it is an action
property, `Claim == Defs!StaysDeleted`, with `part = "defs"` added to the initial states:

| What the code does | What is said | How to see it |
|---|---|---|
| A lease that runs out between Lease's two statements is handed out past its last attempt (`jobs.go:204`; the same in `inbox_queue.go:33`). | `domain/pipeline.go:170`: "it is never run a second time" | `StartsWithinMax` in `MCJobQueue.cfg`; it holds with `Prompt = TRUE` |
| Extend revives a lease that ran out, which LeaseFair no longer counted (`jobs.go:271`). | the limits are limits | `Late = {"extend"}` in `MCFairLease.cfg` |
| LeaseFair's update looks only at the id: a row dropped since its snapshot runs again (`jobs.go:257`). | DropLiveJobs "leaves nothing behind" | `DroppedStays` in `MCFairLease.cfg` |
| RewindLastExchange may delete an exchange other than the one that was read (`editing.go:117`). | an edit's answer takes its own exchange's place | `Line!OnlyEditedForgotten` in `MCIncoming.cfg` |
| A second edit that is read while the first one's exchange is forgotten and its new one not noted finds none, and answerEdit returns (`editing.go:117-120`, after `editing.go:130`): its words are never answered. | `domain/editing.go:13-14`: "answered again in the old reply's place" | `Line!LatestAnsweredAlways` in `MCIncoming.cfg` with `MaxEdits = 2` |
| An old listener's goroutine deletes the cancel of a new one under its key (`listen.go:124`). | StopIdentityListeners can stop what listens | `Hasty = TRUE` in `MCIncoming.cfg` |
| ListenAndServe deletes an inbox that an account attached meanwhile uses (`listen.go:52`). | no message waits unread | `Early = TRUE` in `MCIncoming.cfg` |
| A tap can be told true while its question's timeout is being taken (`approval.go:122`). | "already timed out" is false | `TrueCounts` without `~mayBeLate` |
| A change whose answer was lost is made again when the model repeats it (`loop.go:351`). | `loop.go:122`: never twice in one turn | `OnceEach` without `~request.lossy` |
| With choices offered outside a turn only the newest are ended (`proposal_host.go:201`). | `listen.go:408` | `EndsThoseBefore` without `~elsewhere` |
| A choice's own words go to the end of the line again (`proposal_host.go:250`). | `inbound.go:16`: strictly in order | `Choice!HeardInOrder` in `MCTurns.cfg` with `MaxTyped = 2` |
| The mark of a choice tapped between look and close is taken off (`proposal_host.go:218`). | `proposal_test.go:199` | `Choice!StaysShown` in `MCTurns.cfg` |
| A request that could only be held in memory is replayed however old it is (`getting_started.go:42-70`). | `getting_started.go:14-17`: not "as if it were fresh" | `FreshAlways` in `Inbound.cfg` with one message and `MaxEvents = 3` |
| Start, pressed by somebody who was welcomed before there was a notice, marks it as given and says nothing (`listen.go:427-450`). | `listen.go:425`: "once each ... else on its own before the answer" | `NoticeFirst` in `Inbound.cfg` |
| A reply that is taken clears the wait for an address that a tap asked for meanwhile. | a reply "is taken here and never reaches the agent" | `EmailRepliesAlways` in `Inbound.cfg` |
| A request held after the sign-in came, or whose callback was cut off, stays held. | `listen.go:514`: "replayed the moment they connect" | `NothingHeldOnceConnected` in `Inbound.cfg` |
| A message that was written before the button was tapped, and is still on its way, is saved as the instructions. | the wait is for the answer to that prompt | `FirstReply` in `Inbound.cfg` |
| Nothing stores what `listen.go:420` loads (`pendingSetups`): `handlePendingSetup` is never reached. | its doc comment | no store in the source |
| A prerequisite compares what the model gave, and the ability runs with the values that rules fixed (`prerequisite.go:253`). | `prerequisite.go:13-15`: "for the same values of the inputs named in Same" | `Gates!LookedFirstAlways` in `MCTurns.cfg` |
| Of two capabilities with different guards on one ability the copy with more kinds of guard stays, the other's are gone; ties go by order (`host.go:1876`). | `host.go:1873-1875`: "never lost to the order the capabilities were picked in" | `Gates!GuardsNeverLost` |
| A capability's fixed value replaces the agent's for the same input (`hydrate.go:288-294`, `tool_rule.go:251-253`). | `tool_rule.go:25`: "always this value" | `Gates!FixedAlways` |
| Rules that no value satisfies are accepted (at most 2 and at least 3 of one input; two lists without a common value). | `tool_rule.go:173`: "Rules that can't both hold are refused" | `Gates!RulesCanHold` |
| A change that asks first and that the person flagged is asked about twice. | one approval for one change | `Gates!AskedOnce` |
| A change that answers "failed" without an error uses up the one shot (`hydrate.go:178`). | `hydrate.go:178`: "Only a call that really went through" | `Gates!OneShotKept` |
| When the picker fails in an unattended turn, the reply runs with every action (`host.go:1700`). | `conversation.go:168-170`: "The router enforces it" | `Turns!UnattendedOnlyAgreed` in `MCTurns.cfg` |
| A look-ups-only turn read as a chat, or with a learned skill, can change things (`host.go:1724`). | `domain/editing.go:97`: "nothing is changed" | `Turns!LookUpsOnlyAlways` |
| A learned skill's ability comes without what must run before it. | `requirements.go:156`: "always comes back, for anything offered" | `Turns!NeededAlwaysOffered` |
| A repeating task's routing is stored as the person's last abilities, and a follow-up stays with those. | `host.go:1738-1740`: "what its last message was routed to" | `Turns!FollowsOnAlways` with `MaxTurns = 3`, one agent, `MaxLulls = 0` |
| An old connection's end unregisters the name that a newer connection took (`peer.go:243`, `unregister`): the worker is connected and cannot be reached. | `peer.go:136`: "reports whether a named peer currently has a live connection" | `Peer!LiveIsConnected` in `MCIncoming.cfg` |
| A side call that was looked up before its task ended runs after Dispatch returned. | `peer.go:297-298`: an ended task's call "gets a clear error" | `Peer!SideInFlight` |
| A detail set by hand, or by another server, since the exchange began is replaced without a question (`profile_learn.go:335`). | `profile_learn.go:10-12`: "only Yes changes it" | `Learns!OnlyYesAlways` in `MCKept.cfg` |
| A Yes to "keep A or change to B" replaces what is there by then. | the question names the value | `Learns!YesToWhatIsHeld` |
| A refusal that could not be kept, or not be looked up, or that has no words, does not hold (`profile_learn.go:363`). | "they said no to this already, in whatever words" | `Learns!RefusedOnceAlways` |
| Two servers fill a map past its limit. | `profile_details.go:36`: "bounds one map, so nothing can flood it" | `Learns!MapIsBounded` with `MaxDetails = 1` |
| A confirmed moment is dropped when the planning ends without a next wake-up, or a failed one is run again. | `wake_plan.go:223`: "Noted: the job will be done now." | `Wakes!ConfirmedIsDone` in `MCTurns.cfg` |
| A handler that read the row before writes the old password hash back, a sign-in under way saves its session after the others were ended. | `account_recovery.go:226`: "signed out everywhere else" | `Pages!SignedOutAlways` in `MCPersons.cfg` |
| A deleted login comes back when a handler that read it saves it. | `deleteMe` deletes it | `Pages!DeletedStays` |
| A confirmation link works twice when it is opened twice at once. | `user.go:151`: "The link works once" | `Pages!ConfirmedOnce` |
| A confirmed login is unconfirmed by a handler that read it before. | | `Pages!StaysVerified` |
| Merging a person whose note was sorted into one whose note was not marks the joined note as sorted. | `merge.go:243`: it "is no longer fully sorted either" | `Folk!SortedMeansSorted` in `MCPersons.cfg` |
| The one merged into may have been merged away since it was looked up (`merge.go:113` checks only the other); rows stay with a marker. | nothing is left behind in a merge | `Folk!LeadsSomewhere`, `Folk!UnderSomebody` |
| The sweep deletes somebody who got something after it looked. | `sweep.go:20`: "people who have nothing" | `Folk!SweptHadNothing` |
| A merge and a link by e-mail can wait on each other; PostgreSQL ends one. | | `Folk!NoCircle` |
| A save that overlaps another writes the other's part back as it was (`api/agent.go:131`). | `api/agent.go:127-130`: "Only fields present in the JSON body are updated" | `Defs!SavesItsPartAlways` in `MCKept.cfg` |
| Two requests can give one identity to two agents (`api/agent.go:203`). | `api/agent.go:202`: "Reject any identity already claimed by a different agent" | `Defs!OneAgentAlways` |
| Two reloads of an agent may write in the other order than they read. | `host.go:918-921`: "both see the updated values" | `Defs!HostFollowsAlways` |
| A reload copies everything but the rules, so a running host goes on with the old ones until it is restarted (`host.go:932-938`; `hydrate.go:287-293` takes them from there). | `api/agent.go:268-269`: "Saving reloads the agent, so the rules apply to the next message" | `Defs!RulesApply` |
| An agent deleted while a request saves it is there again. | delete deletes | `Defs!StaysDeleted` |
| Deleting an identity tells the host nothing; its listener goes on (`api/identity.go:181`). | `host.go:879-882`: "so the goroutines exit cleanly" | `Defs!NoneGone` |

## 7. Not modelled, and why

* **Parts that stay out.** The settings menu (one message at a time in one chat, and its wait for a typed answer is never
  set), steps and live view (about display), the work board and the activity hub (wake-ups of one place each; the
  watcher reads the database), activity reports (sums in SQL), the other stored definitions and their API (single
  statements behind a check of who may), registries (maps under a lock), the connection cache (nothing in this
  repository makes one; an Invalidate during a reload is undone by it), formatting, encryption, time zone wording, MCP
  and HTTP clients.
* **Left out of modelled parts.** Line: the edit window and its notes. Reply loop: the fallback model and its breaker,
  what is asked of the language model and how its words are read. Inbound: the settings menu's words. Turn: agents
  without a capability, the messenger's own actions, the notes about what an agent could not do. Gates: formats, units
  and fields of input contracts. Wake-ups: rounding and time zones. Accounts: cookies, wording of mails, codes typed in a chat.
  Learning: `turn_learn.go`; the moving of older notes is modelled (`Never`) and switched off in the run.
  Definitions: who may, readiness, the name (folded into the text), the checks that a capability is the requester's; a row and the
  list of its identities are read in one step, and all claims of a request are looked up in one step.
* **The composites are sums.** `MCIncoming`, `MCTurns`, `MCPersons` and `MCKept` do not let two of their modules meet.
  Where two parts do meet in the code, the meeting is inside a module: the line and its choices (`Proposals`), the
  inbox and the jobs (`EventsPipeline`), the gate and the turn (`Inbound`), the definitions and the listeners
  (`Definitions`).

## 8. Plan

The order is that of what would hurt most: lost or repeated work first, then people's words, then the rest.

1. Done: all modules of section 2, and the proofs of section 5.
2. Done: a theorem for each invariant and action property of a passing run. Further abstract specifications, as
   `JobLife` is one for two queues: a line that answers each message once in order, for `ConversationLine` and `Proposals`; a
   register with one writer at a time, for `Definitions`.
3. Meetings that no module has yet: `Listeners` with `ConversationLine` and `Prompts` (a typed answer travels the
   inbox); the queue with fair leasing and caps; `Turn` handing its abilities to `ToolGates` and those to `AgentLoop`.
4. Pure algorithms as recursive functions against reference definitions: RecentWindow, choices read out of a reply.

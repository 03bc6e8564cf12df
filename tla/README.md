# A TLA+ verification of the Cognitive OS agent runtime

The repository is a C11 agent runtime (`src/backend/src`, about 46 000 lines,
headers in `src/backend/include`). Chat requests, IM rooms, cron jobs and flows
become tasks of an M:N scheduler; a task runs a reasoning loop that calls a
model, executes tools inside file transactions, waits for approvals and takes
steering messages while it runs. Around that core stand registries and stores
that clients change over HTTP while tasks use them, and files that must make
sense after a crash. This directory specifies both, model-checks them with TLC
on small instances, and proves the safety properties of the concurrent core with
TLAPS for every instance.

Contents: [1 Inventory](#1-inventory), [2 How the components
interact](#2-how-the-components-interact), [3 Modules and
code](#3-modules-and-code), [4 Runs](#4-runs), [5 Fairness](#5-fairness),
[6 Proofs](#6-proofs), [7 Where the code and its comments
disagree](#7-where-the-code-and-its-comments-disagree), [8 Not
modelled](#8-not-modelled), [9 Plan](#9-plan), [10 Running it](#10-running-it).

## 1 Inventory

Per component: its state and operations, what is hard about it, what must hold,
and the modules about it. `PROJECT.json` says of each what is left out.

| Component | State and operations | Hard | Must hold | Modules |
|---|---|---|---|---|
| Task scheduler (`runtime/scheduler.c`, `runtime/task.c`) | ready heap, yield lists, task list, counters, per task a status, flags and a coroutine; submit, cancel, borrow, idle wait, shutdown, `worker_main` | the mutex is released around coroutine and callback; cancels are stored without a lock; one signal at a time; history pruned while others read | each accepted task is in one place, on its thread; no lost wakeup; settled is final; a cancel in time wins; nothing in use is freed | Scheduler |
| Lock-free ring (`infra/ringbuf.c`) | data and sequence number per slot, two positions; push, pop, empty | each access is a separate atomic | a bounded queue; one user per slot; "full" is honest | Ringbuf, RingQueue |
| Event bus (`runtime/event_bus.c`) | the ring, the draining flag, handlers; publish, flush, drain | whoever has the flag delivers for all; losers leave | order, completeness, nothing stranded below the bound | EventBus |
| Transactions, snapshots (`tx/`, `snapshot/`) | pending list, manifests, blocks; begin, capture, commit, rollback, client restores, reload | one unlocked store for all lanes; silent failures, of the restore too; crashes; repeated captures | rollback restores but for what it could not write, and touches nothing else; selective restore gives the state before | Transaction |
| Reasoning loop (`cognition/reasoning.c`) | rounds, messages, approval, failed actions, evidence; sessions, transcripts, index | messages and answers race the end of a wait; abort at any point; crash between index and transcript | an accepted message is answered; a gated tool waits for its own answer; completion needs evidence; a restart lists the same | AgentLoop, Planning, Evidence, Sessions |
| Chat lanes, assembly (`cognitive_os_agent.c`) | session locks, four lanes, order of start and stop | polling with cancel and deadline; freeing a lock others look up; a model change meanwhile | one task per session and lane; what is used exists; one model per run on a lane | Lanes, Runtime |
| Journal, recovery (`runtime/tasklog.c`, `flow_store.c`) | JSON lines, checkpoints in two slots, flow records | a crash within any write; writes that fail in silence; ids after restart, tasks submitted before it | one life per id dealt in time; newest checkpoint survives; a record follows its run | Recovery |
| Flow engine (`runtime/flow.c`) | layers, batches, table of engines | cancel and slot reuse while others look | inputs before nodes; the verdict fits; engines live | Flow |
| Orchestrator (`runtime/orchestrator.c`) | roster, plan, nodes; previews, graphs a client hands in | agents removed meanwhile, resume, a graph with a cycle | stays in the roster; the plan is ordered; a preview runs nothing | Orchestrator |
| Cron (`runtime/cron.c`) | jobs and their file | refused submission, edits, restart | once per occurrence; refused stays due | Cron |
| State store, blackboard (`runtime/state_store.c`, `cognition/blackboard.c`) | slots and topics, each mirrored in a file; export, import | failed writes; a fast task | a restart shows the same | SharedState |
| Hooks, agents, policy (`runtime/hook.c`, `agent.c`, `policy_engine.c`) | rules, hooks, the audit trail; the pool, its index and roster file, runs of agents | rules without lock; edits during a call or a run; torn roster | denied is not run, each call has its line; the index finds all, the roster is kept; an expert delivers its file | Guards, AgentPool |
| Memory (`memory/`), context MMU | episodes, ring, vectors, records, pages, summary job | locks per store; passes beside runs; torn files; what is redacted in one place only | recallable, archived, kept; one record per origin, verified when earned; recall in scope and budget | Memory, Records, Summary |
| IM rooms and channels (`im/`) | rooms, members, messages, channels, poller, outbox | stale pointers; room locks shared by number; two writers on one room | replies fit; updates seen once, in order; what is forwarded fits its channel | Rooms, Channels |
| REST API (`api/`) | uploads, downloads, ssh profiles | detached threads, steps of one failing, deletions whose failure nobody hears of | whole files; one writer per slot; passwords kept after login only; named environments kept or gone with theirs | Attachments, Downloads, SshProfiles |
| HTTP, WebSocket (`api/http_server.c`, `ws_server.c`) | pool, stop list, hub | stop against accept, upgrade and readers | the stop list fits; turns; freed when quiet | Http |
| LLM adapters, router (`llm/`) | sockets and guard, ledger, routes, policy of picks | a cancel closing a socket; a late listing | whole answers only; every token booked; metadata of its own target; shared picks, also after a restart | ModelCalls, Router |
| Tools, skills, plugins (`action/`, `plugin_runtime/`) | MCP sessions, registries, mapping files | requests change registries tasks use; a pointer into an array that moves; a failed save cuts the file | answers fit requests; no dead tool found; saved as shown | Mcp, McpServers, Plugins |
| Execution, OS layer (`execution/`, `os/`) | one child process, its pipe | the deadline against the end of the child | the result fits; output read to the end; nothing left | Processes |
| Secrets (`security/`) | known passwords, streaming mask | cut into pieces anywhere; list grows meanwhile | none is sent or shown; the rest passes | Secrets |
| Cluster registry (`cluster/node.c`) | nodes and last beat | clock read before the lock | down was silent, up was heard | Cluster |
| Retrieval; infrastructure; command line | ranking, logging, parsing | numeric or text | - | none (section 8) |

## 2 How the components interact

    HTTP / IM / cron / flow --> scheduler_submit_* --> ready heap
                                                         |
                              worker_main --> sched_trampoline (coroutine)
                                                         |
                                   session lock, lane --> reasoning loop
                                                         |
                    ACT: tx_begin, tx_run (capture, tool)*, tx_commit | tx_rollback
                                                         |
                              snapshot store (shared) <--+--> file system
                                                         ^
                    POST /v1/snapshots/rollback ---------+
    completion callback, journal, hooks --> event_bus_publish --> ring --> handlers

- *Calls under a lock*: the scheduler's mutex covers heap, lists and counters and
  is released around the coroutine and the callback. Most stores have one lock
  each; an operation over two stores is a sequence of steps.
- *Shared memory without a lock*: `task->status` and `task->cancel_flag`, the
  snapshot store's lists, the ring, the policy rules, the registry of tools, the
  phases of downloads.
- *Turns*: requests of the REST API are handled one at a time (`dispatch_mtx`);
  uploads, model calls, detached threads and tasks are not.
- *Callbacks*: event handlers run on the publishing thread that won the flag.
- *Files*: nearly every store rewrites its file in place, often without looking
  at the outcome. It is opened with "wb", so a write that fails, like one a crash
  cuts off, leaves the file empty or torn, which is read as empty.

## 3 Modules and code

`PROJECT.json` maps every definition to its lines; this section says how to read
the modules. Every property is preceded by a comment that states it. Each module
also holds *mutated forms* of some definitions ("Mutated form: ..."): no
specification uses them. They are plausible bugs; substituting one for the
definition it mirrors must make TLC refute the property it is paired with.

Throughout, an action is what runs under one lock, or between two points where
another thread or a crash can come; history variables (called so where they are
declared) record what the properties compare with and influence nothing. A file
that is being written when the process dies is `Torn`.

### The core

**Scheduler.** One action is one critical section of `s->mtx`, or one stretch of
code a thread runs without it.

| Code | Action |
|---|---|
| `scheduler_submit_configured_acceptance`: admission, growth loop, signal | `Submit`, `SubmitRejected` |
| `scheduler_ensure_next_id` | `EnsureNextId` |
| `worker_main`: wait, leave | `Sleep`, `SpuriousWake`, `Exit` |
| `worker_main`: own yield list, then heap, `coro_new` | `TakeYielded`, `TakeQueued` |
| `sched_trampoline` between two switches | `RunAbort`, `RunEntry`, `RunBody` |
| `worker_main` after the switch: finalize or relink | `SettleDone`, `SettleYield` |
| after the completion callback, with `prune_history` | `Complete` |
| `scheduler_acquire`, `scheduler_release`, `scheduler_get` | `Acquire`, `Release`, `Borrow` |
| `h_task_cancel`: read of the status, store of the flag | `CancelCheck`, `CancelStore` |
| `scheduler_set_history_limits` | `SetHistoryLimits` |
| `scheduler_shutdown`: flag and broadcast, deadline, join | `Shutdown`, `ShutdownTimeout`, `ShutdownJoin` |
| `scheduler_free` | `Free` |

The heap is a set from which the smallest (priority, id) is taken, which is what
`task_less` and the sift loops implement. A task's work is reduced to how it
ends (`RunBody`). A condition variable is the set of sleeping workers: a signal
wakes one or, when nobody sleeps, nobody; spurious wakeups are allowed.
`thread_create` may fail. The history limit by bytes is left out, the limit by
count has the same rule. `scheduler_wait_idle` is the predicate it waits for
(`IdleIsQuiescent`). `cancel_flag` is a Boolean in the code; here it also
remembers *when* it was stored, which only the properties look at.

**RingQueue, Ringbuf.** `Ringbuf` has one action per atomic access of
`ringbuf_push` and `ringbuf_pop`, interleaved: the compare-exchange on the
position and the acquire/release pair on a slot's sequence number order
everything the algorithm relies on. `RingQueue` is what users of the ring may
assume: a push claims a position and later makes it ready; a pop takes the
oldest position if it is ready, reads, and gives the place back. `Ringbuf`
implements it (`RingIsQueue`): positions map to positions, `ready` is the set of
positions whose slot says so, `busy` the positions consumers hold; and a refused
push has found the queue full (`FullIsFull`).

**EventBus** EXTENDS `RingQueue`, not `Ringbuf`: the two compose through the
refinement. Per publishing thread a program counter goes through
`event_bus_publish` (`Push`, `Drop`, `Pushed`) or `event_bus_flush` (`Flush`)
into the shared `drain` (`Win`, `Lose`, `PopTake`, `PopNothing`, `PopRead`,
`PopDone`, `Snapshot`, `Deliver`, `Clear`, `CheckLoad`, `Look`). Where memory
order matters it is modelled: the flag is cleared by a release store and the
check after it consists of acquire loads, so with `StoreBuffers` the store may
become visible later (`StoreVisible`); a compare-exchange of the same thread
waits for it. `Snapshot` may fail to allocate: the event is lost, as in the code.

**Transaction.** A lane runs a round: `Begin`, then per tool call `Capture` and
`Execute` (or `Refuse`), then `Commit` or `Rollback`. Capture records, per path
that git does not manage (`TrackedAt`), what could be read: absent, a directory
or a file above the limit (`Uncopied`), content cut at its first NUL (`Cut`, the
code measures with `strlen`), or, when reading or storing fails, nothing
(`Unread`). `MaxFaults` bounds the steps in which something fails. A call may
name a file twice, and so may a selection. A tool leaves any content in any of
its files, and when it fails, in some of them. Client restores are
`RestoreLatest`, `RestoreFiles` and `RestoreFilesStops` (the code stops at the
first file it has to remove and does not find). `Restart` loses the pending list
and reloads the manifests on disk in any order; with `Crashes` a block being
written is `Torn`. Content is a model value and a block is named by what it was
made from; collisions of the hash are excluded. `restore_entry` passes over
what fails: `Restored(entries, failing)` is the set of the states the files may
then be in, with a file of `failing` as it was or torn, and the caller is told of
success all the same. Each snapshot call is one step
although its lists have no lock, so `tx_lanes` shows the *kindest* interleaving
that goes wrong. A crash inside a rollback is a rollback that fails for what was left,
and a `Restart`.

**AgentLoop.** `reasoning_run_ex` round by round: `Top` takes the messages and
looks at the limits, cancel and deadline, and `TopFails` is its failing half: the
messages are taken and their prompt cannot be prepared, so the run fails and they
are lost (`ghost.lost`). `Reason` is the model's reply; per
action of a plan `Ask`, `Hear`, `EndAsk` (approval), `Deny`, `Invalid`, `Cached`,
`Succeed` or `Fail`; `FinishActing` is the transaction's outcome and VERIFY;
`AfterAbort` to `AfterPlan` are what the loop makes of the round; then
`Synthesize`, `Close` of the message list and `Settle`. `AddMessage`, `Cancel`,
`Expire` and a client's `Answer`, to any request, come between any two steps.

**Lanes.** `chat_lane_run`: `Lookup` of the session's lock, `Look` and
`TrySession` while polling it, `LookLanes`, `AllBusy` and `TryLane` for a lane,
`Finish`, `Unlock` and `Unref`. A task may be stopped at each poll. One scan of
the lanes is one step.

### The components around it

Each of these has its own module, whose opening comment states its abstractions:

| Module | Code | Actors and failures |
|---|---|---|
| Recovery | `tasklog.c`, `flow_store.c`, the init order | the poller before and during recovery, tasks, handlers, failed or cut off writes |
| Cron | `cron.c` | ticks, edits, refused submissions, restart |
| Rooms | `im_run_round`, `im_dispatch`, `im.c` | discussions overtaken by messages, deleted rooms |
| Flow | `flow.c` | worker threads, abort, slots taken over |
| Orchestrator | `orchestrator.c` | plan, preview or given graph, pool changes, crash and resume |
| Runtime | start, stop, model change | poller, cron thread, API, lanes |
| Mcp | one stdio session of `mcp_conn.c` | callers, dying server, late answers |
| McpServers | registry of servers and tools | requests, tasks, restart, a failed write that cuts the file |
| Http | `http_server.c`, `ws_server.c` | connection threads, stop, free |
| Attachments | `attachment.c` | uploads beside requests, crash at any step |
| Sessions | session store, transcripts, index | lanes, requests (one that creates, renames or deletes too), crash, failed or torn write |
| SshProfiles | `ssh_vault.c`, named environments, ssh tool | a request beside the tool, crash, failed writes, deletions and reads of the vault |
| Downloads | background fetches of `api_rest.c` | detached threads, polls |
| Channels | `channel.c`, rooms, Telegram poller, console messages | poller with a stale pointer, requests, a WebSocket writer, crash |
| Plugins | skills, plugins, generated tools | requests, lanes, a pointer into the array that others move, crash, failed write |
| Guards | policy, hooks, audit trail | requests, lanes, crash |
| Cluster | `node.c` | requests, heartbeat thread |
| SharedState | state store, blackboard, borrowed values, export | tasks, requests, crash, failed write |
| ModelCalls | HTTP client, adapters, ledger | guard thread, cancel, cut answers, crash |
| Planning | `planner.c` | replies cut or malformed, repairs |
| Evidence | `h_reason`, tool receipts | other programs change the files |
| Memory, Records, Summary | `memory/`, pages of `mmu.c` | lanes, clients, crash, failed write |
| Router | `router.c`, policy of picks | requests, listing thread, restart, failed write |
| AgentPool | `agent.c`, roster, runs of agents | requests, nodes of flows, restart, failed write |
| Secrets | masking of requests and streams | passwords added at any time, no memory |
| Processes | one shell command | child, pipe, deadline, no memory for the buffer |

### MC modules

`MCStores`, `MCTools`, `MCAgent`, `MCProgress`, `MCServices` and `MCState` each
check several components that share no state in one run: the variable `part`
says which of them a behaviour is about and the others stay in an initial
state. So the state space is the sum, not the product, of the parts, and each
part is checked exactly as if it were alone. No cfg replaces a definition.
`MCAgent` also holds the proofs about the loop.

## 4 Runs

Runs marked *violation* check one property that a comment, document or test of
the repository states and that the code does not keep (section 7).

| Run | Parts | Question and result |
|---|---|---|
| `sched_work` | Scheduler, 3 ids, 2 workers | Is every accepted task in exactly one place (`OnePlace`), on its thread (`ContinuationStaysHome`); is an idle scheduler quiescent (`IdleIsQuiescent`); is no wakeup lost (`SleepersNotNeeded`); does a joined shutdown leave nothing (`ShutdownLeavesNothing`)? Yes. |
| `sched_clients` | Scheduler, clients, limits on admission and history | Does a cancel stored in time decide the status (`CancelBeforeSettleWins`), does a task cancelled in the heap never work (`QueuedCancelNeverRuns`), is a settled status final (`SettledIsFinal`), is nothing freed in use (`NoReclaimInUse`)? Yes. |
| `stores` | ring, summary, records, agents, roster, plan, routes, policy, memory | Is the ring a queue with one user per slot (`CellHasOneUser`, `RingIsQueue`); is what is known kept and recalled as it should be (`KnowledgeSafe`); do index, plan and routes lead where they should, is the roster kept and what an expert posts a file that was found valid, is the policy of picks the one that was chosen (`PoolsSafe`)? Yes. |
| `tools` | transaction, bus, secrets, shell | Do rollback and selective restore give back every true copy they do not fail for, and touch nothing else (`RollbackStaysInside`, `RollbackRestores`, `RestoreGivesOriginal`); is delivery complete and in order (`BusSafe`); is no password sent or shown (`SecretsSafe`); does a command's result fit (`CommandsSafe`)? Yes. |
| `tx_lanes` | transaction, 2 lanes | *violation*: does a commit keep its changes (`CommitKeepsChanges`)? No. |
| `agent` | loop, calls, planning, evidence | Does an answer that counts know every message, and is none lost but with a run that failed (`AnswerKnowsEveryMessage`, `NoMessageIsLost`); does a gated tool wait for the answer to its own request (`AllowedFirst`); are replies used whole or not at all and every token booked (`RepliesSafe`); is completion accepted on real evidence (`EvidenceSafe`); does every run end (`EveryRunEnds`)? Yes. |
| `agent_undone` | loop | *violation*: is the work of a completed run in place (`CompletedWorkIsInPlace`)? Not always. |
| `progress` | lanes, scheduler, bus, all fair | One turn per session and lane, nothing freed in use or kept (`LanesSafe`); every chat task leaves (`EveryChatLeaves`); accepted tasks complete (`AcceptedCompletes`); a shutdown drains (`ShutdownDrains`); accepted events are dispatched (`AcceptedIsDispatched`)? Yes. |
| `services` | disk, cron, rooms, flow, mcp, servers, whole, http, upload | Do journals and checkpoints survive crashes and failed writes (`DiskSafe`), jobs run when due (`CronKeepsTime`), discussions and flows hang together (`TeamsSafe`), MCP answers fit and servers stay or stay away unless their file was cut (`McpSafe`), and do start, stop, connections and uploads use only what is there (`ServingSafe`)? Yes. |
| `runtime_model` | Runtime | *violation*: does a run keep its model (`RunKeepsItsModel`)? Beside the lanes, no. |
| `state` | chat, ssh, site, fetch, im, line, plug, stock, guard, node, share | Is what is shown what a restart would show, but for the turns a write failed for, and a borrowed value good while it is used (`SessionsSafe`), are passwords, named environments and denials respected and calls in the trail (`AccessSafe`), are capabilities installed, saved and found as they should be (`CapabilitiesSafe`), updates seen once, what clients write heard and forwarded where it belongs, and nodes marked rightly (`PeersSafe`)? Yes. |
| `shell_backend` | Processes | *violation*: does a shell command run in its configured target (`RunsInItsTarget`)? No. |

### Bounds, and why they are enough

- *Scheduler*: three tasks on two workers is the least at which one worker runs,
  one continuation waits and one task is queued while the other worker sleeps:
  every pair of places and every competing pair of workers occurs. Two
  priorities give both branches of `task_less`. One client suffices for the
  cancel race; a second would only add reference counts, and the proofs cover any
  number. `sched_clients` has two ids (`MaxId = 1`), one worker growing to two.
- *Ring*: two slots and four pushes reuse every slot, so the wrap-around and the
  comparison with a number of the previous round occur; two threads a side give
  a lost compare-exchange and a stalled one.
- *Bus*: the second event of a publisher meets the other's drain at every point.
  In `tools` the bound of one drain is 2 and within reach, as is the delayed
  store: safety holds there too. In `progress` the bound is 9, out of reach of two
  events, and stores are not delayed: nothing is stranded then; section 7 says
  what happens otherwise.
- *Transaction*: one lane (two in `tx_lanes`), two files of which one is
  captured, two transactions of two calls, one restart at any point, one step that
  fails (`MaxFaults = 1`; none in `tx_lanes`, whose counterexample needs none) and
  torn blocks, one content with a NUL. A call that names a file three
  times was checked apart (18,408 states).
- *Agent loop*: limits at their least values at which both sides of every
  comparison occur, two targets of which one is a read and one is gated, two
  approval requests. One message comes while the run goes on; that another one
  reopens a run that has lost one needs two, and there the proof of `NoneIsLost`
  takes over.
- *Calls*: one part and the last mark is the least at which a cut differs from a
  whole answer; one crash, one simple call beside. With two calls: 1,553,563
  states, no error.
- *Evidence*: two pages, a window of two, two tools, one change from outside and
  one new message; with three tools 25,149,959 states, no error.
- *Secrets*: two characters, one of which JSON escapes, texts of four in pieces of
  two: a password straddles every cut. With texts of five 426,460 states, with
  three characters and two passwords, overlapping, 11,281,530 and 2,910,322.
- *Shell*: the buffer starts with three units and doubles within the six that are
  written; results longer than two are saved. A growth may fail at any time, and
  the reader go on with a buffer half as large as it takes it for.
- *Stores*: two clients or lanes, two or three ids, one failed write and one crash
  anywhere; the pool of agents grows once and its four names collide in every way
  four hash values allow; every threshold of memory is 1. Of the three texts
  that are learned two have a password in them (`Passworded`). Two components appear
  as two parts each, since what the halves do does not meet: `agents` has the
  index for any hash function and no runs, `roster` has runs, file and restart
  with two names; `routes` has listings under one policy, `policy` all three
  policies and no listing.
- *Services, state*: two of each kind of name (one node beside this one), one crash,
  one failed write, two to four changes. Three modules appear twice in `state`: `im`
  has the poller and rooms of one channel without members, `line` the console
  messages and agents with the poller at rest; `ssh` has no named environment,
  `site` has one, whose passwords the tool's staging does not touch; `plug` starts
  without plugins, `stock` with one for each skill of an earlier life, so that the
  array moves under the generator, and there no write fails. Recovery with two
  crashes beside the failed write has 17.4 million states. Larger instances
  checked apart: the poller of Channels with two changes 8,650,784 states, MCP
  ids to four 12,251,605, McpServers with three changes 489,068 (and, with three
  names as well, 1,541,528), Rooms with a sixth message 1,231,132, Memory 4,408,640.

Deadlock is not checked where a bound stops the system (a comment in each cfg
says so); `sched_work`, `sched_clients` and `agent_undone` check it.

## 5 Fairness

Only `progress`, `agent` and `agent_undone` assume fairness, always weak and
always of threads the system schedules, never of clients, failures or crashes.

- *Workers* (`Scheduler!FairSpec`): weak fairness of each worker's `Work`. A
  worker is an OS thread; a step of it stays enabled until it is taken, since
  only that worker moves its `pc` out of it (a queued task may be taken by
  another worker, which is progress too). It implies that a runner returns:
  reasoning has budgets and deadlines, and both end in `RunBody`.
- *Publishers* (`EventBus`): what a thread does once it has begun to publish or to
  drain, and a store becoming visible. Nothing forces a publication.
- *Lanes*: each task's own steps. Polling is a loop with a sleep, so a task looks
  again and again; the deadline is not assumed to come.
- *Runs* (`AgentLoop`): `Step`, the loop itself. The model's call ends because the
  HTTP client has timeouts; that the deadline, a cancel or an answer comes is not
  assumed: approval has its own timeout, which is a step of the loop.

## 6 Proofs

Every theorem holds for every value of the constants the named assumption
allows; TLC evaluates those assumptions in the runs.

| Module | Theorem | `Spec =>` | Assumes |
|---|---|---|---|
| SchedulerProofs | `TypeCorrect` | `[]TypeOK` | `SchedulerAssumption` |
| | `EveryTaskInOnePlace` | `[]OnePlace` | |
| | `CoroutineKeepsItsThread` | `[]ContinuationStaysHome` | |
| | `SettledStatusIsFinal` | `SettledIsFinal` | |
| | `CancelledInHeapNeverWorks` | `[]QueuedCancelNeverRuns` | |
| | `CancelInTimeWins` | `[]CancelBeforeSettleWins` | |
| | `IdleMeansQuiescent` | `[]IdleIsQuiescent` | |
| | `JoinLeavesNothing` | `[]ShutdownLeavesNothing` | |
| | `NothingInUseIsFreed` | `[]NoReclaimInUse` | |
| | `NoWakeupIsLost` | `[]SleepersNotNeeded` | |
| RingbufProofs | `OneUserPerCell` | `[]CellHasOneUser` | `RingbufAssumption`: capacity at least 2 |
| | `RingImplementsQueue` | `RingIsQueue` | |
| EventBus | `BusKeepsItsPromise` | `[]BusSafe` | nothing |
| Lanes | `LanesKeepTheirPromise` | `[]LanesSafe` | `LanesAssumption` |
| MCAgent | `AnswersKnowEveryMessage` | `[]AnswerKnowsEveryMessage` | `AgentAssumption` |
| | `NoneIsLost` | `[]NoMessageIsLost` | |
| | `GatedToolsWait` | `AllowedFirst` | |
| | `CompletionHasEvidence` | `[]EvidenceSafe` | `EvidenceAssumption` |
| | `RepliesCountWhole` | `[]RepliesSafe` | `RepliesAssumption` |
| ToolsProofs | `RollbackStaysAmongOpen` | a rollback touches only files open transactions captured | `TxAssumption` |
| | `RollbackInside` | `RollbackStaysInside` | and `Alone`: one lane |
| | `RollbackGivesBack` | `RollbackRestores` | and `Alone` |
| | `SelectiveRestore` | `RestoreGivesOriginal` | and `Alone` |
| | `BusOfTools` | `ToolsSpec => []BusSafe` | |
| | `CommandsEnd` | `ToolsSpec => []CommandsSafe` | `ShellAssumption` |
| ServicesProofs | `CronIsOnTime` | `CronKeepsTime` | `CronAssumption` |
| | `TeamsHangTogether` | `[]TeamsSafe` | `RoomAssumption`, `FlowAssumption` |
| | `ServersAnswer` | `[]McpSafe` | `ServersAssumption` |
| ServingProofs | `ServingHolds` | `[]ServingSafe` | `HttpAssumption`, `WholeAssumption`, `UploadAssumption` |
| | `DiskSurvives` | `DiskSafe` | `DiskAssumption` |

Each inductive invariant was first checked by TLC, on the instances of the runs
or smaller ones.

**Scheduler, places.** `OnePlace` is not inductive: it says nothing of why a
worker that resumes a continuation cannot hold another one, nor of which tasks
may still be in the heap. `IndInv` adds to `TypeOK`:

- `SlotShape` - a yield list holds at most one continuation, and only while its
  worker stands at the head of its loop;
- `Placed` - who has what, with `Has(w, t)` for "in w's slot or in w's hands";
- `Fresh` - ids not given out yet were never used;
- `Begun` - a queued task has no coroutine, one that a worker has was begun;
- `Home` - a worker has only coroutines it owns;
- `OverWhenSettled` - only a coroutine that has ended is called back and completed.

The proof has one lemma per action that moves a task (`SubmitStep`,
`TakeYieldedStep`, `TakeQueuedStep`, `SettleYieldStep`, `CompleteStep`),
`RunStep` for the runner and the settlement, and `StillStep` for the actions
that move none; `OnePlace` follows with `SlotIsHas`.

*Status.* `SettledIsPut` says where a settled task can still be: nowhere but in
its callback. From it, `WorkSettles` and `OthersSettleNothing` show that
`SettleDone` alone settles, and only its own task; `SettledKeeps` that nobody
rewrites a settled status. `FlagIsStored` and `StoreTells` say who moves a cancel
flag, `RunLeavesEntry` how work is reached.

*Counts.* `CountInv` says what the counters count, with `GoneForGood` (a worker
leaves an empty heap behind, and the flag keeps it empty) and `JoinedAll`.
`AllCountedHaveLeft` turns `exited >= workers` into "all have left" by
cardinality; `RefsCount` says that a task's reference count is the number of its
holders. `SleepersNotNeeded` is inductive beside `IndInv`: a submission adds a
task and, if anybody sleeps, a worker that will look for it; a worker that takes
a task stops looking; one that sleeps found the heap empty.

**Ring.** The sequence numbers carry the whole argument. `Window`: each of the
next `Capacity` positions finds its cell free, or with its occupant of one round
earlier at one stage of its life. `Users`: who uses a cell finds there the number
it claimed it with. `Loaded`: numbers only grow, so one that was loaded is a lower
bound of what is there now, which is all a claim needs. `Elements` and `Taken`
follow the data. Capacity 1 is excluded, as `ringbuf_new` refuses it: full and
free would be the same number. The refinement is proved step by step, one lemma per atomic access, with
`FullWhenSmall` for the refusals.

**Bus.** `OneDrains`: one thread at a time is between winning the flag and its
store being visible. `Hands`: the event in that thread's hands is the last one
taken, and everything delivered is older. `Copies`: the copy of the handlers is
one a registration cannot have missed. With them both parts of `BusSafe` are
inductive, for delayed stores too, with no assumption on the constants:
`MaxDispatch` may be 0. `BusOfTools` is the composition: a behaviour of
`MCTools` is, seen through the bus's variables, one of `EventBus`
(`ToolsStepIsBusStep`), whose theorem is cited through the INSTANCE.

**Lanes.** `Tabled` (a lock in the table is alive and of its session), `Counted`
(a lock's references are the tasks that use it, so none is freed under a user),
`Owned` and `Laned` (who holds which lock and lane). Counting is by cardinality
of `UsersOf`, hence the assumption that tasks are finite.

**Agent loop.** Between the round that concluded and `task_close_messages` a
message may still come. `Concluded` says it then waits, and what waits reopens
the run; `Closed` that once closed only an aborted run takes messages. A run that took a
message and could not read it (`ghost.lost`) ends FAILED unless another message
reopens it, and no other message goes with that one. `Asked` says
that the answer that counts is one to the request that is open, which is what
`AllowedFirst` needs. `Unconcluded` keeps the flags of the end false until the
loop is left.

**Evidence.** Every change gives a file a version that was nowhere before
(`FileChanges`), so `Own` (the run made it, or it slipped in beside a tool that
could not tell) and `WasRead` stay true of a version once they are. `RegistryFits`
says what each entry that is kept of a tool stands for: a receipt, an artifact or a
written version is `Own`, a verified one or a step that read was read, below a
pending read's next page every page was. `ActionFits` carries the same over the tool
that is under way, whose version is looked up after it ran: a cached read may meet
a newer version only if it is not the run's own. `OwedFits` keeps a failed read
among the failures until its file was read. `RunCompletes` turns the checks of
`verify_completion_files` into `EvidenceSafe` with them; that the last successful
read precedes or follows the write is needed by none of it, which the version, being
the same, makes up for.

**Calls and plans.** `CallsSafe` speaks of the totals only while nobody is under
way; `AccountFits` says what is missing at every other moment: what the run has
counted and not booked (`Unbooked`), what is in the totals and in no row yet
(`Unwritten`), what a simple call still owes. `SocketFits`, that a socket is closed
after its guard ended, gives `GuardEndsFirst`. A plan's decision names places of a
reply and no copies of its calls, so `NothingInPart` and `EndsAlone` follow from
what each reader may find (`BatchFits`: all calls that are there in full or none)
by cases, without induction over the reply; `Planned` keeps the reply that is being
repaired one that needed it. `BudgetAlwaysFits` is arithmetic of the budgets.

**Transaction.** `Owned`: every pending path was captured by a transaction that
is still open. That holds for any number of lanes and gives
`RollbackStaysAmongOpen`. The rest needs the pending list to be that of *one*
transaction (`Pending`: the first entry of each path recorded the state before
it, and so did every entry of a path captured once) and the same of manifests
(`Manifests`): true when at most one lane uses the store (`Alone`), false
otherwise, as the counterexample of `tx_lanes` shows. The invariant is therefore
`Types /\ AllStored /\ Owned /\ (Alone => Pending /\ Manifests)`. The theorems speak of
each file by itself: one that the restore failed for is as it was or torn, whichever
they are, and every other is given back.

**Shell command.** `ResultFits` alone does not say who may still change what:
`ChildIsWatched` relates the child to where the parent is, `EndIsTold` says that
a child is killed only after the deadline or a failure, and that one which had
ended by then was not seen; `OutputIsKept` that what was read was written and
leaves room for the terminator, however the buffer grows. A failed growth leaves a
room twice the size of the buffer (`Held`): the invariant keeps the two apart, and
what is read goes beyond the buffer only after memory ran out.

**Cron.** `Spaced`: the next run that a job waits for is an interval after its
last one, or a due time lies between them. A refusal keeps that, because it only
moves a run that was due already; so does a restart, which forgets the next run
and schedules it from now. `CronInv` adds that runs lie in the past, that the
file knows the last runs, and that a refused job has a next run, at most a retry
away. `DayHasItsTime` (every day has its time once) is what `daily_next_ms`
rests on. `OthersLeaveCron` makes the step of `MCServices` one of `Cron`.

**Rooms.** `RoomInv` rests on the numbers: messages are numbered one after the
other (`Numbered`), so a room in which a discussion was started has that message
or a later one, until it is deleted (`Said`). From this a discussion that finds
another message at the end of its room was overtaken by a newer one
(`OvertakenOnly`), and what is published when the message is still the latest
answers the latest (`SayingFits`). `Voting` says that the votes of a round are
those of the seats that had their turn in it, so a count as large as the list of
speakers is everyone's consent. The room has the three seats of `MCServices`; how
many rooms, locks, rounds and messages there are is free.

**Flow.** While the nodes are put in layers, `Layered` says of Kahn's algorithm
that a node's pending degree is the number of its predecessors not yet used
(`Used`), that the queue holds each free node once, and that what was used lies
below its successors. When the queue is empty before every node was used, the rest
has a predecessor each within the rest: a cycle. While the flow runs, `Climbing`
has everything below the present layer over and everything above it waiting, so
what a node looks up of its predecessors is final (`Grounded`). A batch has at
most `MaxParallel` nodes (`BatchFits`). That a set of nodes can be listed in order
(`OrderExists`) is an induction; it is done on a smallest counterexample.
`OthersLeaveTeams` makes the step of `MCServices` one of `Rooms` and of `Flow`.

**MCP calls.** `NumbersTell`: no request has a number above the last one handed
out, so a new call's number meets no answer that is still under way, and an answer
with the number a caller waits for is the answer to that caller, or the number
was handed out twice. Numbers are handed out twice only by a connection test,
which writes back the one it read; `McpSafe` names that exception. `SessionIsOwn`
ties the handshake and the list of tools to the process that runs.

**MCP servers.** `Linked` says that what the registry leads to is owned, and that
the only owned tool outside the registry is the one being replaced or removed
(`stale`), which is what makes the free after it safe. `Rooted`: a tool whose
server is no longer in the list is among those still to be taken out. `Remembered`
keeps apart the file and the list in memory, since between the change of one and
the saving of the other only one of them has the server, and a save that failed has
cut the file: what it no longer has is excepted, until the next save. `RequestFits` says what
the request under way may still touch. The list of connections has each name once
(`Distinct`), so finding by name and removing by place agree; that the files of
the folder `mcp/` can be appended in some order (`LocalsAreAdded`) is an induction
over the number of files, done on a smallest counterexample.

**Connections.** `SocketIsOwn`: a thread that has its connection in the list is
the only one that may close it, and after the upgrade only the hub's reader is.
`PlacesFit` keeps thread and place pointing to each other, so a thread that leaves
clears its own entry; `ThreadsAreCounted` makes `active = 0`, what the stopping
server waits for, mean that no thread is left that could touch it.

**Runtime.** `InOrder` relates the parts that exist to the step of the start or of
the shutdown, and says of each part that what it needs exists. `InUse` says who may
still submit or run, and hence which step of the shutdown cannot be past yet:
that is why the journal may be closed when it is. `ModelsFit` follows a switch of the
model lane by lane: a lane either has the new model already, or still the old one,
which is destroyed after the last lane.

**Uploads.** An upload is four files and an index, written and removed one by one.
`StoreFits` says what of them there is at each stage of storing, `KnownFits` what a
deletion or a reader may rely on, `IdFits` what there is of an id nobody works on;
`IdsDiffer` that a file is one worker's, which lets the proof look at one id at a
time (`OneFile`). `OldAreKept`: a file of the old layout is there until another one
has its bytes. A crash, which sends every worker home, keeps `IdFits` because it
never says more than the manifest does: the manifest is written last and removed
first.

**Journal and checkpoints.** An id is `Trusted` when it was dealt in time (not
`early`) and none of its records failed (not `lost`); the invariant says of each of
its parts which of the two it needs. `JournalFits` says by the place of a task what
the journal has of it, so "only its RUNNING record" (`Live`) is what a restart takes
for interrupted. `IdsRise` puts the next id above all the journal has as soon as
`scheduler_ensure_next_id` was called, torn lines or not, so a task accepted after it
never continues an old one's life; `Recovers` has only early ids before it, and says
what recovery still has to write an end for. `Kept` is the point of the two files of
checkpoints: one has the newest that was completed, the other none newer, and
`Alternates` that the next write goes to that other one, the write that repeats a
failed one too; `CheckpointsFit` claims both of trusted ids. `FlowsFit` follows a
flow's run from its registration to its mark through the orders in which the
scheduler's callback may come. `OthersLeaveDisk` makes the step of `MCServices` one of
`Recovery`.

*Only model-checked.* Liveness (`EveryRunEnds`, `EveryChatLeaves`,
`AcceptedCompletes`, `ShutdownDrains`, `AcceptedIsDispatched`) is out of the
prover's reach. `SecretsSafe` rests on `SelectSeq` and `FlattenSeq`, which are
recursive: what they return for every input needs induction over data. Of the
invariants of the components around the core, `KnowledgeSafe`, `PoolsSafe`,
`SessionsSafe`, `AccessSafe`, `CapabilitiesSafe` and `PeersSafe` have no proof yet
(section 9).

## 7 Where the code and its comments disagree

Four runs have a counterexample and a finding in `PROJECT.json`:

1. `tx_lanes`. Lanes share one pending list (`snapshot.c:409`): one lane's
   rollback restores and discards the captures of another, which then commits
   without its changes, although `tx.h:34` says a commit keeps them.
2. `agent_undone`. A round in which one action failed is rolled back as a whole;
   the loop still remembers the actions that succeeded and may complete on them
   (`evaluator.c:26`, `reasoning.c:3308`).
3. `runtime_model`. A change of the model waits for the lanes only; flows,
   orchestrations and summaries run beside them and go on with a freed model
   (`cognitive_os_agent.c:1517`, against the comment at 1470).
4. `shell_backend`. The executor's router looks for "cmd" while the shell tool
   reads "command", so a command never runs in its WSL or remote target
   (`executor.c:220`, against `executor.h:56`).

The models show more, which no run lists:

- *Scheduler.* `worker_main` looks at its own yield list before the heap, so a
  yield is resumed at once by the same worker (`YieldLetsAnotherRun` fails).
  `h_task_cancel` reads the status and stores the flag in two steps: a task may
  settle DONE after CANCELLING was answered (`AcceptedCancelIsTerminal` fails).
- *Bus.* The release store of the flag and the acquire loads after it may be
  performed in the other order (x86 does so): with `StoreBuffers`,
  `AcceptedIsDispatched` fails. A drain that reaches its bound leaves without
  another look (`event_bus.c:144`; fails with `MaxDispatch = 3`).
- *Transactions.* Each write captures again and the last capture wins at a
  rollback (`RollbackRestoresOriginals` fails for a file written twice). A file
  whose original could not be stored is removed by a rollback (`Unread`), one
  with a NUL restored cut (`Cut`), an empty block left by a crash reused
  (`Torn`): `TrueCopy` excepts the three. A selective restore may stop midway.
  `restore_entry` ignores what `cow_get`, `fs_write_file` and `fs_remove` answer
  (`snapshot.c:337`), so a rollback or a restore reports success over files it did not
  give back.
- *Agent loop.* A message accepted and taken is lost when its prompt cannot be
  prepared (`reasoning.c:4328`). A cancel after the last look is recorded as completed; an answer
  to an approval may be acknowledged though the wait is over; a budget spent with
  a failed synthesis is remembered as done.
- *Journal, flows.* The poller of the channels starts before the journal is read
  (`cognitive_os_agent.c:1028`, 1214): a task it submits at once has the id of an old
  one, whose records and checkpoints then mix with its own (`early`). A journal that
  cannot be opened (`tasklog.c:131`) and a failed save of `flows.json`
  (`flow_store.c:63`) are passed over. `flow_store_mark` updates the first record with an id, and
  torn `flows.json` restarts the ids (`EveryFlowFollowsRun` fails).
- *Cron.* A refused occurrence is lost by a restart, and a job whose interval is
  longer than the uptime never runs, though `cron.c:151` says it is due at once.
- *MCP.* The tools of skipped servers are registered by a sync only, not "lazily
  on first use" (`mcp_conn.c`); the registry has no lock, and a task that found a
  tool before it was freed reads freed memory; two names that differ in odd
  characters share their tools; a save that fails cuts
  `mcp.json` (`mcp_conn.c:1032`); what was cut loads nothing, and the next save makes
  the loss of its servers final. The test of a connection takes numbers without the lock.
- *Model calls.* Some callers book nothing, others have no ledger line and are
  lost by a restart; a truncated stream without "[DONE]" counts as a success.
- *Planning.* A JSON array cut right after `complete_task` is salvaged and accepted
  when the provider does not say that it was cut.
- *Shell.* A child that ended unseen at the deadline is reported as a success
  whatever its status; the room is doubled before `realloc` (`proc.c:82`), so after a
  failure the last drain writes past the buffer, which is undefined (`Overrun`; the
  model ends there); output beyond the buffer's room at the last read is lost;
  a kill reaches the shell and not what it started in the background.
- *Sessions.* A rename of a session of a long index is answered with success and
  not appended to the journal (`reasoning.c:3879`), so a restart loses the title; one
  failed write of the index refuses new sessions forever; a line of a transcript that
  was cut off swallows the turn appended to it, which a restart then misses too (`reasoning.c:1536`, 1484;
  `missing`; `LossIsBounded`: two turns for each failure, one for each crash); a crash in a deletion
  may bring the session back.
- *Shared state.* A fast task's slot says QUEUED forever, since the request
  records it after the submission (no property covers it); a failed flush is not
  retried by the same value; an import may bring back older task slots. A value that is lent to a
  client is freed when its task ends meanwhile (`BorrowedLasts` excepts it).
- *Guards.* `DELETE /v1/hooks/1` removes the built-in hook `api_rest.c:1487` says
  stays; deletion is by index and may hit another rule after a change; the first
  check lets "no rule" pass, `tool_execute` denies it.
- *Plugins.* Publishing under an existing skill's name keeps the old body and
  records the new signature; a refused publication leaves the skill registered
  and unsaved; the mapping of tools is read, changed and written without a lock.
  `plugin_registry_find` returns a pointer into its array (`registry.c:139`), and the
  generator reads the version there after the lock (`generator.c:406`): the array may
  have moved or been freed, so a plugin may be given any version (`strayed`).
- *Channels.* The watermark is in memory only; the poller's stale pointer may move
  another channel's; a ninth channel makes it write to freed memory. A message on
  a WebSocket is taken even when no agent of its room is left to answer it
  (`PostedIsHeard` speaks of the other way only).
- *Memory.* A record is stored without the passwords in it (`record.c:352`), its
  mirror with them (`promotion.c:258`), until a merge or a restart copies the
  record's text. Decay halves by the full age at every pass; an entry evicted before it
  is indexed leaves an orphan vector; a torn `episodes.json` loses all. A VERIFIED
  record may carry the text of a later partial run; a job of `summary.c` whose
  file could not be written is cancelled and may still append.
- *Router.* Weighted round-robin advances by weight modulo the count; a failed
  fetch overwrites the provider of an unread listing.
- *Secrets of endpoints.* A password sent while the tool logs in with the old one
  is dropped when that login succeeds; a failed `vault_put` keeps or removes the old
  one; forgetting an endpoint is answered with success though its password could not
  be deleted (`ssh_vault.c:295`, 312; `undeleted`).
- *Downloads.* Two clients with different queries can discard each other's search
  forever. *Attachments.* A crash between manifest and removal of an old file
  stores it twice. *Cluster.* A node that rejoins stays down until it beats.
- *Runtime, HTTP.* The poller stops last, though `cognitive_os_agent.c:1267` says
  submitters stop first; `ws_server_free` closes sockets their threads close again.

## 8 Not modelled

- *I/O and text*: HTTP and WebSocket framing, SSE, prompts, retrieval, JSON,
  logging, the command line. Their correctness is in the text, which a model
  would only repeat. Secrets is the exception: there the text is the property.
- *Numerics*: embeddings, vector and graph ranking, attention scores.
- *Loading of code*: WASM, dynamic libraries, archive parsing.
- *Constant tables*: catalogues, metrics.
- *Unreached code*: snapshot and restore of an execution backend, eviction and
  pins of the MMU, the diagnostic detector of secrets, `llm_stream`.
- *Platform*: threads, condition variables and coroutines behave as documented;
  of the operating systems Linux and POSIX are modelled.
- *Data races proper*: where the code reads freed or torn memory the models say
  so at the property that excepts it (`slipped`, `mixed`, `apart`, `twice`).
- *Failures left out*: the removal of a checkpoint file failing.
- *Daylight saving* in the daily schedule (`cron.c:172`): each day of the model has its
  time once.
- *The capacity of the array of plugins*: any registration may move it.
- *Third-party code, web UI, tools, tests and docs.*

What is left out of a component that is modelled is said in its `PROJECT.json`
note and in the module's opening comment.

## 9 Plan

Done: the core with its proofs, and a model of every component that keeps state
across steps. Next, in this order:

1. Proofs composed like `TeamsHangTogether` for the other components around the
   core, first `SessionsSafe` and the rest of `MCState`:
   an inductive invariant per module, proved once, and the step lemma that the
   other parts of the run leave its variables alone.
2. `RoundsAreBounded` of AgentLoop (the rounds of a run exceed the limit by two
   at most), which needs how a message and the round of grace reset the counter.
3. An abstract scheduler (a bag of tasks, each run at most once, with one
   terminal status) that `Scheduler` implements.
4. The handlers of the REST API that read (`h_task_get`, `h_task_list`).

## 10 Running it

    tlc -workers 2 -config SchedulerWork.cfg Scheduler.tla
    tlc -workers 2 -config SchedulerClients.cfg Scheduler.tla
    tlc -workers 2 -config Stores.cfg MCStores.tla
    tlc -workers 2 -config Tools.cfg MCTools.tla
    tlc -workers 2 -config TransactionLanes.cfg MCTools.tla
    tlc -workers 2 -config AgentLoop.cfg MCAgent.tla
    tlc -workers 2 -config AgentLoopUndone.cfg AgentLoop.tla
    tlc -workers 2 -config Progress.cfg MCProgress.tla
    tlc -workers 2 -config Services.cfg MCServices.tla
    tlc -workers 2 -config RuntimeModel.cfg Runtime.tla
    tlc -workers 2 -config State.cfg MCState.tla
    tlc -workers 2 -config ShellBackend.cfg Processes.tla
    tlapm SchedulerProofs.tla     # and RingbufProofs, EventBus, Lanes,
                                  # MCAgent, ToolsProofs, ServicesProofs, ServingProofs

The larger runs visit one to three million states and take two to four minutes on
two cores; the proof modules take a minute or two, ServingProofs
about ten and ServicesProofs about thirteen.

# TLA+ verification of the CoderAI agent core

CoderAI is a coding agent: a user submits prompts, a language model answers
with text and tool calls, the tools run, their results go back to the model.
This directory specifies the parts of the program that decide *what happens
next* and *what survives*: the agent, turn and tool statecharts, the executor
and scheduler of tool calls, the services below a session (lock, append log,
journal, event store, emitter), the database `minidb`, background tasks,
context compaction, subagents and swarms, MCP connections and OAuth tokens. TLC
checks them on small instances, and TLAPS proves for every size what matters most
about eight of them.

Source paths below are relative to `src/packages/agent-core-v2/src/` unless
they begin with `packages/`.

## 1. Inventory

| Component | State it keeps | Operations | What makes it correct |
|---|---|---|---|
| Tool scheduler (`agent/toolExecutor/toolScheduler.ts`) | active and queued tasks | `add`, settle + rescan | conflicting calls exclude each other and keep their order; no call is lost or waits for nothing |
| Tool executor (`agent/toolExecutor/toolExecutorService.ts`) | prepared tasks, running tools, pending finalizations | prepare, run, abort, finalize, yield | one result per call; a stopped batch has no later effect; it ends when aborted and leaves no tool behind |
| Machine tools (`agent/loop/machine/tools.ts`) | pending calls of a response, the batch in flight | begin a batch, execute, flush, abort | a response runs as one batch; every call is answered |
| Agent machine (`human/agent/machine.ts`) | history, prompt queue, notifications, reminders, turn and background tools, pause flag | submit, notify, remind, steer, cancel, pause, continue, abort, close, reset, turn and tool reports | nothing a user or tool sent is lost or repeated; prompts pass the gate; an abort ends the turn; a closed agent stays closed |
| Turn machine (`human/agent/turn.ts`) | produced entries, pending calls, outcomes, step and attempt counters | request, retry, recover, act, drain, pause, abort | every tool call in the history has exactly one result; the step limit holds |
| Tool machine (`human/tool/machine.ts`) | state of one call, its signal | prepare, execute, detach, finish, abort | ends once, and never reports for a turn it does not belong to |
| Event store (`human/eventStore/`, `agent/loop/machine/storeJournal.ts`) | folded state, journal, queue of operations | dispatch, fold and append, reset, restore, close | holds every event once and in order, and so does the journal it is restored from |
| Async emitter (`_base/event.ts`) | listeners, shared delivery queue | subscribe, fire, dispose | every listener hears every event once, in order |
| Session lock (`persistence/interface/sessionLock.ts`, `persistence/backends/node-fs/sessionLockService.ts`) | lock and guard file | hold, lease, release, reclaim, take over | one process holds a session |
| Append log (`persistence/backends/node-fs/appendLogStore.ts`) | pending records, flush, file | append, flush, rewrite, retire | nothing lost, repeated or reordered |
| Run gate and wire journal (`session/sessionActivity/sessionRunGateService.ts`, `wire/wireService.ts`, `wire/repair.ts`) | journal, memory of each process | open, repair, migrate, append, begin and end of a turn | a turn owns the journal it has read |
| minidb (`packages/minidb/src`) | store, write-ahead log, snapshot, value pointers | write, group commit, rollback, compaction, recovery | acknowledged writes survive; memory is what the files replay to |
| Background tasks (`agent/task/`, `agent/tools/task/`) | tasks, their files, delivery keys | start, detach, stop, time out, settle, notify, wait, restore | one true end, reported once |
| Context and compaction (`agent/contextMemory/`, `agent/fullCompaction/`, `agent/undo/`) | messages, the compaction under way, the loop's lease | append, clear, undo, compact, cancel | nothing is forgotten without a summary; one rewriter at a time |
| Subagents (`session/agentLifecycle/`, `session/subagent/`, `human/session/`) | generations of agents, roster, cache | create, link, resume, evict, remove | one writer per journal; a running subagent is not removed |
| Swarm (`features/swarm/`) | queue of tasks, attempts, timers | launch, retry, abort, report | every task gets a result, every subagent an end |
| MCP connections (`mcpCore/connection-manager.ts`, `agent/mcp/mcpService.ts`) | entries, clients, the agent's tools | connect, reconnect, remove, refuse, lose | status, client and tools agree; no client is leaked |
| OAuth (`packages/oauth/src`) | token file, refresh in flight, lock | ensure fresh, refresh, recover, log in and out | one refresh at a time; a stale answer is not applied |
| Loop and engine (`agent/loop/`) | turn bookkeeping, quiescence lease | run, steer, pause/resume, reset, recover | resets only a quiescent agent |
| Providers, tools, features, SDK, TUI, import | – | conversion, rendering and I/O | – |

**How they interact.** The loop owns an engine; the engine runs the agent
machine as an XState actor and sends it `input.*` events. The agent spawns one
turn actor and, on `turn.spawn_tools`, one tool actor per call. A tool actor's
executor is `MachineTools`, which collects the calls of a response and passes
them to `AgentToolExecutorService.execute`; that prepares them in order (hooks
may veto), hands them to a `ToolScheduler` and yields results. The agent
dispatches every history entry to the event store, which folds and journals it
through the wire service and the append log. A session holds the session lock
while one of its agents is busy. Tools start background tasks and subagents,
whose ends come back as notifications. Compaction and undo replace the history
under the loop's quiescence lease.

**What is hard.** Callbacks, timers and user inputs interleave with every
`await` and every mailbox delivery; aborts race with results and grace timers;
several processes share files; any I/O call may fail and any process may die
between two of them; a verdict can be stale when it arrives. `PROJECT.json`
lists the hazards that matter most at their lines, with the properties that
cover them.

## 2. Modules

| Module | Models | Relation |
|---|---|---|
| `ToolScheduler` | `toolScheduler.ts`, the conflict relation of `tool/toolContract.ts` | |
| `ToolBatch` | abstract: what whoever iterates over `execute()` may rely on | implemented by `ToolExecutor`, assumed by `MachineTools` |
| `ToolExecutor` | `toolExecutorService.ts` | extends `ToolScheduler`: its `Add` and `Finish` are the scheduler's own actions |
| `MachineTools` | `agent/loop/machine/tools.ts` | |
| `History` | history entries, the pairing of calls and results | |
| `TurnMachine` | `human/agent/turn.ts` | extends `History` |
| `ToolMachine` | `human/tool/machine.ts` | |
| `AgentMachine` | `human/agent/machine.ts` | composes turn, tools and the agent |
| `EventStore` | `eventStore.ts`, `storeJournal.ts` | `AgentMachine` uses its result, `stored` |
| `AsyncEmitter` | `_base/event.ts` | |
| `SessionLock` | `sessionLock.ts`, `sessionLockService.ts` | |
| `AppendLog` | `appendLogStore.ts` | |
| `SessionSharing` | `wireService.ts`, `repair.ts`, `sessionRunGateService.ts` | over a lock that excludes and a log that keeps order |
| `MiniDb` | `wal.ts`, `wal-group.ts`, `write-path.ts`, `compaction.ts`, `snapshot.ts`, `recovery.ts` and `recoverWalInPlace` | |
| `TaskLifecycle` | `taskService.ts` and the Bash tool's `ProcessTask`: one task up to its end | |
| `TaskNotifications` | `taskService.ts`, `persist.ts`, `WaitFor` and `TaskStop`: how its end is reported | takes the end from `TaskLifecycle` |
| `ContextMemory` | the fold of step records, the context's operations | operators only |
| `FullCompaction` | `fullCompactionService.ts`, `undoService.ts` and what the loop does around them | extends `ContextMemory` |
| `AgentLifecycle` | `agentLifecycleService.ts`, `subagentScopeCacheService.ts`, the session machine's table, the Agent tool | |
| `SwarmBatch` | `agentRunBatch.ts`, the launcher of `sessionSwarmService.ts`, `mirrorAgentRun` | |
| `McpConnections` | `connection-manager.ts`, `mcpService.ts` | |
| `OAuthManager` | `oauth-manager.ts`, `refreshAccessToken` | |
| `MC*` | – | values for TLC |
| `*Proofs` | – | theorems about `ToolScheduler` and `ToolExecutor`, `MachineTools`, `AgentMachine`, `SessionLock`, `SessionSharing` and `AsyncEmitter`, `TaskLifecycle`, `FullCompaction`, `OAuthManager` and `McpConnections`, `SwarmBatch` and `AgentLifecycle` |

Operators whose comment begins with "Mutant" are plausible bugs, each a variant
of the definition after it. They are part of no specification; substituting one
must break the property it is listed with in `PROJECT.json`.

**Side by side.** Components that share no state are put together by
one MC module (`MCToolCalls`, `MCSession`, `MCTasks`, `MCSubagents`,
`MCConnections`), which extends the one that has theorems, so that TLC evaluates
the very definitions they are about, and instantiates the others. Its variable `part` is chosen in the initial state and names
the component a behaviour belongs to; the others stay in an initial state. This
adds the state spaces, it does not multiply them, and asks of each component
what a run of its own would.

### Tool calls

**ToolScheduler.** A task is its index; `accesses[i]` is what it declares.
`activeTasks` and `queuedTasks` are the fields of the class; the queue is always
in index order, so a set is enough. `settled` records resolved or rejected
results. `Add` is `add`, `Finish` the settlement of a task's promise with
`finish` and `startQueuedTasks` (they are microtasks apart in the code, and no
other step reads the scheduler in between). The conflict relation is translated
in full: operations, recursion and path ancestry, paths being sequences of parts.

**ToolExecutor.** `phase` is where the generator stands: preparing, adding the
tasks (`executeBatch` up to its first await), the result loop, the `finally`
blocks, done or failed. `stage` is the await inside `prepareToolCall`.
`executing` holds the tools inside `execute()`, *independently of the
scheduler*: `raceWithAbortGrace` may give up on a tool that runs on, so
`HasResult` is "returned, or aborted". Every outcome of preparation is an
action: skipped, preflight-rejected, resolution-failed, aborted, synthetic,
vetoed, allowed, throwing. `Promise.race` is modelled by choosing any
candidate. Result text, truncation, telemetry and the events for the user
interface are left out, and so is a consumer that leaves its `for await` early:
the only one, in `agent/loop/machine/tools.ts`, iterates to the end. A task that
rejects (`timedRejected`) is left out too: `runSingleExecution` makes a result of
whatever a tool throws.

**MachineTools.** The engine and the agent machine are reduced to what they do
to the bridge (`LlmSent`, `LlmDone`, `Abort`, `GiveUp`, `Answered`); a batch
keeps the promise of `ToolBatch`. The branch for a duplicate call id cannot be
taken, since `ToolCallIdNormalizer` makes ids unique.

### AgentMachine with TurnMachine and ToolMachine

XState runs a transition to completion before it delivers messages, hence:

- the turn's mailbox `turnBox` is emptied before the agent takes its next event
  from `agentBox`;
- model answers, timers, resolved promises and tool reports enter only when both
  mailboxes are empty (`Quiet`) and are handled in the same step;
- callers append `input.*` events to `agentBox` at any time the turn is not
  processing (`Send`; bound `MaxMailbox`), so that inputs pile up behind others;
- listeners of emitted events may call the engine from within the emission:
  `Reactions` are the inputs put ahead of the step's own signals;
- a tool aborted while it prepares reports `tool.aborted` through `agentBox`.

`Settle` is the pair of `always` transitions of `idle.ready` and
`idle.waiting`; every handler that assigns to the context goes through
`UpdateContext`, which applies them. `stored` is the event store's history once
all dispatched events are folded; `resetTo` a reset on its way back as
`store.reset`. `accepted` and `dropped` are history variables. A history
entry is a record of its role and of the identities it delivers, the calls it
makes or the call it answers.

Abstractions: turn ids, message text and provider metadata are gone; preparing
and finishing actors never refuse or fail (the production ones do not);
`promptGateActor` never rejects, so the error branch of `idle.gating` is
unreachable; `TurnThrows` stands for a recovery strategy that throws.
The production engine passes no `onBeforeStep`, but the loop gates each request
inside the requester (`requester.ts:61`, `loopService.ts:988`); where
`HasBeforeStep` is TRUE, `gating` stands for both. The production executor never
calls `detach`, but the machine supports it and its handlers are checked.

There are two ways to a reset. `RequestReset` is `resetMachineEngine`, under the
loop's quiescence lease (`loopService.ts` 788-835: the machine idles and is paused,
and is resumed only afterwards). The other is the recovery of a failed step
(`recoverOrFailMachineRun`, 2019-2062): when a turn ends without an answer an error
handler may go to work (`MayRecover`), decline (`RecoveryEnds`), or reset the
history (`RecoveryReset`) and send an empty prompt once that is done
(`RecoveryRetries`, `Retry`). It takes no lease and does not pause the machine, so
prompts, notifications and turns go on around it; the gate of a turn that starts
meanwhile waits for it. `overtaken` records that such a turn had committed entries
to the store before `store.reset`.

### The services below a session

**EventStore.** An event is its number; the state is the sequence of events
folded into it. `tail` is the queue of operations; each await of
`foldAndAppend` and `reset` is a step. Appends may be rejected, folds may throw,
and a restart restores the state from the wire. `registerSlice` has no caller.
The seed of a recovery's reset is what the loop's context holds
(`HistoryFromContext`): everything dispatched, whether folded yet or not, but for
the events with which the machine has started a turn that `bindMachineTurn` has
not put into the context (`unbound`, until `Bind`). `overlooked` are those a reset
has put aside.

**SessionLock.** The service is synchronous, so a process does one thing at a
time; every file system call is a step between which other processes run. One
host, exact liveness of process ids.

**AppendLog.** Records are numbered; `flushPromise` and what waits for it is a
queue of operations whose head runs. Storage calls fail, with or without half a
line written. A log may be retired while its successor accepts records.

**SessionSharing.** Two processes with one session open: each has its memory of
the journal, its persist queue and its run gate. A crash inside a write leaves
a torn line.

**AsyncEmitter.** A call runs up to its await without interruption, so queueing
and the first delivery are one step.

**MiniDb.** A frame is the operation it carries and an offset a number of
frames. The continuations of settled promises (`Runnable`) run before the next
completion of an I/O call, as microtasks do. The model has group commit, the
rollback of failed groups, the poisoned log and its recovery in place,
compaction with the rotation of snapshot and log and each of its failures, the
value pointers, a crash and replay. `alt` holds the files a power loss may bring
back. The `everysec` watermark, queries, indexes, generations and codecs are not
modelled.

### Background tasks

**TaskLifecycle** is one process task: foreground or detached, its timer, the
calls of `terminateWithGrace` side by side, output in chunks on its way to the
tool's result and to the file. **TaskNotifications** is what happens to a
detached task's end: `settleTask`, the files written one by one, building and
scheduling a notification, the wait and stop tools, undo, session close, crash
and resume. `line` is the conversation, `saved` what the wire would give back.
The limit `maxRunningTasks` is not modelled.

### Compaction

**ContextMemory** folds step records into messages; **FullCompaction** has the
workers, their hooks, requests, retries and flushes, the turns that trigger,
await or are blocked by them, overflow recovery, undo, clear and restarts. A
message has one token, a step one tool call, and equality of records stands for
identity of objects. Truncation of a single message, recovery windows and blobs
are left out; `computeCompactCount` and `reduceCompactOnOverflow` have no caller.

### Subagents

**AgentLifecycle**: an id has generations; each has its scope, its machine, its
build and its removal. Removal continuations that are due run first (`Settled`).
`busy()` looks at turns, prompts and background tasks: of the tasks of a generation
the model knows whether one runs (`tasks`); a turn may leave one behind, and its
end starts no pass of the cache. `agent.fork`, `agent.restart` and
`agent.send` have no sender. **SwarmBatch** keeps its whole state in one record
that the operators named after the methods transform. Times are counted down
relative to the clock. A turn is ready as soon as it exists
(`loopService.ts:1264`), so the branch of `requeueRateLimited` for one that is
not, and `handleAttemptError`, cannot be reached. The caller may be closed at any
time (`CallerCloses`): from then on `handleOf` does not find it, the ends that the
launcher or a mirror reports are dropped, attempts that begin fail, and its turn,
with the batch, is aborted before any time passes.

### Connections

**McpConnections** is one server: reconnects overlap freely, while connect,
remove and markRemoved are serialised as `WorkspaceMcpService.mutate` does. The
initial load, shutdown and the transports are left out. **OAuthManager** runs in
two processes over one token file and one lock; the server, which rotates
refresh tokens, and the lock of proper-lockfile are external. Polling of the
device flow is left out. A refresh without the lock (where it is disabled or cannot
be had) appears only as a holder that has lost it (`stolen`).

## 3. Runs

| Run | Instance | States | Shows |
|---|---|---|---|
| `tool_calls` | 4 tasks with 6 declarations; 4 calls, one of a tool registered late | 180 thousand | conflicting tasks keep their order, a queued task is blocked by an earlier one, every task settles; the calls of a response form one batch, none is stranded, each is answered after an abort |
| `tool_executor` | 3 calls that read, write or leave a file alone | 739 thousand | refinement of `ToolBatch`; tools that conflict never overlap, even past the grace; nothing runs after a stop; a batch that ends, or throws, leaves no tool running unless aborted; an aborted batch ends |
| `agent_tools` | 1 prompt, 2 tools, 2 steps, mailbox of 2, listener reactions | 1.1 million | step limit; every call is answered once; no tool actor is orphaned; background entries settle |
| `agent_prompts` | 2 prompts, 1 note, 1 reminder, 1 tool, gate, 1 provider recovery, listener reactions | 3.1 million | each delivery is in exactly one place; no prompt passes on another's verdict |
| `agent_reset` | restored tool chains, 1 reset with or without the lease, gate, hook, retry, recovery of a failed step, reactions | 1.1 million | machine and store agree outside a reset; closing is final; an aborted turn ends |
| `session` | lock: 3 processes; log: 3 records, 1 rewrite; journal: 2 processes, 1 crash; store: 4 events, 2 resets; emitter: 3 fires, 2 listeners | 5.1 million | `OwnedByItsHolder`, `LogIntact`, `TurnOwnsTheJournal`, `RecordsKept`, `StoreComplete`, `EventsReachListeners` |
| `minidb` | 3 operations on 2 keys (set, delete, batch), 2 faults, 1 throw, 1 compaction, 1 crash | 291 thousand | acknowledged writes survive a crash and, with fsync always, a power loss; store, files and pointers agree; every write settles |
| `tasks` | 1 task with stops, timeouts and 3 chunks; 1 detached task, 2 prompts, waits and resumes, 1 undo | 3.5 million | the end of a task is told once and truly; the conversation reports it once and does not forget it |
| `compaction` | 2 workers, 2 prompts, 2 steps, 2 operations, 1 overflow | 3.8 million | nothing is forgotten, nothing cleared comes back; one compaction has the slot, undo and turns exclude it |
| `subagents` | batch of 3 whose caller may close; 2 ids, 3 generations, 3 calls, background tasks, cache of 1 | 4.7 million | no task is lost, the queue is never left unwatched, each subagent ends once; roster, table and cache agree, one writer per journal; the cache removes no busy subagent |
| `connections` | 4 operations on one server, 2 entries; 2 processes, 2 calls, 2 login sessions | 3.6 million | clients, status and tools agree, a pending server is being connected; no spent token is presented, the file follows the user, a live token is kept |
| `session_lock_race` | 3 processes | – | expected violation: see below |

**Bounds.** Four tasks are needed to have an active task, a queued one it
blocks, one behind that and one free to overtake. Three calls let one
stop the batch between two others, and let a tool be given up on while one waits
and one runs. Two tools give every order of results, detachments and aborts in
one response; two prompts are what a stale verdict, a steer or a cancel needs.
`MaxSteps = 2` makes the limit and the step below it happen. `MaxMailbox` lets
an input arrive behind an event not yet handled; a double abort and an abort
followed by a pause occur with 2. Prompts, notes and tool calls are each used
once. The lock needs three processes for a reclaim that meets a third owner. A
log of three records has one written, one in flight and one pending. Four events
and two resets let events be queued before, between and after resets, with one of
them still outside the context. In minidb
two faults let the handling of a failure fail too, and three operations fill a
group in flight, a group behind it and a write that meets the sealed log. An
undo takes a report away that a second wait or a resume may bring again; of the
callers `stop` and `signal` of a task the run has the first, which may come at any
time, beside the output limit and both timeouts. Two workers are a cancelled
compaction and its successor. Two ids and a cache of one make evictions happen,
three generations an id evicted and resumed twice. The swarm's intervals keep the
order of the real ones, but for the delay of a second retry, which exceeds the
recovery interval as the seventh does in the program.

**Deadlock** is checked where the components' runs end in a stuttering step that
says everything is done (`minidb`, `tasks`, `subagents`, `connections`).
Elsewhere it is not: a disposed agent, a finished batch or a dead process stop
for good.

**Fairness.** The scheduler assumes that a started task settles (`WF` of
`Finish`), which `raceWithAbortGrace` gives once a tool returns or is aborted.
The executor assumes that hooks, resolutions and finalizations settle and that
the grace timer fires (`WF` of `PrepareStep` and `BatchStep`), never that a
tool returns. `MachineTools` assumes that an actor leaves `preparing` and that a
batch ends once its signal has fired, which the executor's run shows. The agent
assumes that mailboxes are processed (`WF`) and that a timer which stays armed
through interruptions fires (`SF` of `TurnTimer` and `AbortTimeout`: a real timer
keeps running while events are processed, whereas the model's timer step is
disabled whenever a mailbox is not empty). minidb assumes that continuations run
and I/O calls return, with success or failure. Nothing is assumed of the model,
the tools, the hooks or the user. The liveness of the other components is not
part of the runs; that nothing is left waiting is stated there as an invariant
(`SwarmTasksKept`, `ServerIsAsShown`, `LogIntact`).

**The expected violation.** `reclaim` (`sessionLockService.ts:159`) unlinks the
lock file also when it has found none. A lock that another process publishes in
between is deleted, and both hold the session, although `hold()` promises that a
session is in use in one process.

**Exceptions stated in properties are reachable in the code.** They are not
weakenings for the sake of a passing run: each is a case in which the code
behaves that way, named where the property is defined and marked by a history
variable. What the properties state is that nothing else goes wrong.

- `BackgroundEntriesSettle`: a call that is detached *after* its signal was
  aborted ends with `tool.aborted`, for which only `running` has a handler, and
  only for calls of the turn. Its `background` entry stays and the agent remains
  in `idle.waiting`.
- `ClosingIsFinal`: `store.reset` targets `.idle` from every state. A reset under
  way when the agent is closed, or one that a recovery asks for then, takes it out
  of `closing`.
- `StoreFollowsMachine` (`overtaken`): a recovery resets the history without the
  quiescence lease (`loopService.ts:2043`). A prompt submitted during its awaits may
  start a turn, and what this turn commits before `store.reset` stays in the store
  and is gone from the machine, until another reset.
- `ResponseIsOneBatch` (`disturbed`): after a double abort the old batch may still
  be in flight; the calls of the next response then run as batches of one.
- `EventsReachListeners`: of two overlapping `fireAsync` calls, or after an abort,
  one makes the deliveries of the other and a call may resolve before its own.
- `OwnedByItsHolder` (`raced`): an unlink hits a file that was replaced after it
  was read; takeover and file system errors give up exclusion on purpose.
- `LogIntact` (`stale`, `again`, `excused`): a rewrite is made of records read
  earlier (`wireService.ts:463`); a handled rewrite failure goes on with the drain.
- `TurnOwnsTheJournal`, `RecordsKept` (`blind`, `late`): the write guard asks for
  the lock only (`wireService.ts:91`), and a record appended while the flush before
  a release resolves is still being written when the lock goes. The bytes of the
  own write in flight can also hide a foreign write of their length
  (`appendLogStore.ts:215`).
- `StoreComplete` (`unrecorded`, `excused`, `overlooked`): rejected appends, a failed
  fold, an undo that read the wire while events were queued (`storeJournal.ts:31`),
  and a recovery's reset between the start of a turn and `bindMachineTurn`
  (`loopService.ts:1101`): the events of the start are not in its seed.
- minidb: a snapshot may hold the value of a write that fails later (`tainted`,
  `snapshot.ts:123`); a batch written while the log is poisoned is acknowledged
  without its fsync (`weak`, `wal.ts:410`); a rename is kept although its directory
  fsync failed (`undurable`, `compaction.ts:363`); the fence of a compaction may
  fall into a recovery (`overlap`, `compaction.ts:247`); a rotation whose catch
  fails too strands its pointers (`stranded`).
- `EndIsTrue` (`bent`): a task detached during the grace of a stop gets a new timer,
  which may replace the stop's reason.
- `NoneForgotten`, `ReportedOnce` (`exit`, `wait`, `stop`, `reminder`, `early`): a
  task that completes while the session closes (`taskService.ts:1066`), results
  marked delivered before they exist (`taskWaitTool.ts:231`), a stop that is
  undone, a reminder lost after its marker, a task reported before its file.
- `ContextIsKept` (`slipped`): the history is found safe before the journal is
  flushed and replaced after it (`fullCompactionService.ts:758`, `:767`), and the
  check does not see deferred messages (`loopEventFold.ts:151`).
- Swarm: the limit of the environment is not looked at in the rate limit mode
  (`agentRunBatch.ts:234`); a retry refused before its turn is submitted leaves its
  agent suspended (`refused`); a result may say "not started" of a subagent whose
  turn starts afterwards (`:548`). `EverySubagentEnds` (`lost`, `vanished`): an end is
  marked as told before `handleOf` is asked, which finds no caller once it is closing
  (`sessionSwarmService.ts:97`, `:143`); `requireHandle` throws for a subagent that is
  removed right after it was announced (`:172`). Both stay shown as running.
- `LivesAgree` (`orphan`, `stray`, `flaky`, `putOff`): an agent removed while it links,
  `agent.stop` by id when the id was created again, a flush or removal that failed
  or timed out; and a subagent put off because of a background task
  (`subagentScopeCacheService.ts:109`, `:189`), whose end starts no new pass, so that
  the cache may rest above its capacity. The capacity of the cache bounds the live agents it knows: an entry
  of an agent that is gone may stay (`subagentScopeCacheService.ts`).
- `ServerIsAsShown` (`clobber`, `lost`, `late`): an overtaken attempt stores its
  client last (`connection-manager.ts:377`); connect, remove and markRemoved do not
  look at the entry again after the old client's close (`:203`).
- OAuth (`raced`, `stolen`, `fallback`, `late`, `burned`): login and logout take no
  lock, a suspended holder loses it, a refresh falls back on its old snapshot, a
  forced call joins a refresh that had read an older file (`oauth-manager.ts:263`),
  or the answer was lost.

**Hazards without a property.** An abort sent while `turn.done` of the old turn
waits in the mailbox is applied to the turn of the next prompt
(`human/agent/machine.ts:909`): inputs carry no turn id, so neither the code nor
the model can tell. A turn paused while acting with a notification pending ends
with a user entry (`:623`): what is owed then is decided by the loop. A
before-execute hook that throws rejects the batch after the started events of
earlier calls (`toolExecutorService.ts:416`): the user interface's events are not
modelled. A subagent rebuilt for a resume that could not launch its turn is never
evicted (`agent/tools/agent/agentTool.ts:368`), commands moved to the background
later do not count towards `maxRunningTasks` (`taskService.ts:942`), and a
session's own MCP operations are not serialised with its reconnects
(`session/mcp/mergedConnectionView.ts:56`): nothing in the repository says what
should hold.

## 4. Proofs

The theorems hold for every value of the constants that satisfies the assumptions
below; bounds of the runs such as `MaxMailbox`, `MaxOps` or `MaxSessions` may be
any number. Each proof follows one pattern: an inductive invariant, checked by
TLC before it was proved, a lemma per action or group of actions, and a temporal
step that puts them together. Three things made invariants of properties that
are not inductive:

- what a *call in progress* may rely on (a process between two file system calls,
  a refresh between two awaits);
- where an item is *between* two actors (a mailbox, a flag, a batch);
- an order that makes an exclusion local.

| Theorem | Property | Assumptions |
|---|---|---|
| `SchedulerTypeCorrect`, `SchedulerExcludesConflicts` | – | declared accesses have the fields of the TypeScript type |
| `SchedulerKeepsOrder` | `ConflictsRunInOrder` | the same |
| `SchedulerNeverIdles` | `QueuedTasksAreBlocked` | the same |
| `ExecutorExcludesConflicts` | `NoConflictingExecutions` | also: a task with a ready result declares no access, the batch is not empty (`execute` returns at once for an empty one) |
| `ExecutorSkipsStopped`, `ExecutorCleansUp` | `StoppedCallsNeverRun`, `NoToolOutlivesTheBatch` | the same |
| `ExecutorImplementsBatch` | `BatchSpec` | the same |
| `BridgeMakesOneBatch` | `ResponseIsOneBatch` | the tools that are known are among the calls' |
| `RunningToolsHaveOwners`, `BackgroundIsCleared` | `LiveToolsAreOwned`, `BackgroundEntriesSettle` | a finite set of calls; restored histories are paired, as the theorem shows of those stored |
| `CloseIsFinal` | `ClosingIsFinal` | the same |
| `StoreIsFollowed` | `StoreFollowsMachine` | the same |
| `CallsAreAnsweredOnce` | `EveryCallAnsweredOnce` | the same |
| `DeliveredOnce` | `NothingLostOrRepeated` | also `FreshIdentities` |
| `GateIsPassed` | `PromptsPassTheGate` | the same |
| `TypesAreKept` | `TypeOK` | the same |
| `LockFileHasItsHolder` | `OwnedByItsHolder` | "no file" is not a process |
| `LockExcludesUntilRaced` | – | the same |
| `TaskEndIsTrue` | `EndIsTrue` | the limit of pending output is below that of the file |
| `CompactionsExclude` | `CompactionIsAlone` | bounds are numbers, the ratio a percentage |
| `TokenFileFollowsUser` | `TokensFollowTheUser` | `ConstantsApart`: the marks for no token are no tokens |
| `RefreshSparesLiveTokens` | `LiveTokenKept` | the same |
| `TurnsOwnTheJournal`, `RewritesKeepTheRecords` | `TurnOwnsTheJournal`, `RecordsKept` | `SharersAssumption`: "no process" is not a process |
| `ListenersHearEveryEvent` | `EventsReachListeners` | `FiresAssumption`: queued and concurrent fires are different ones |
| `ServersAreAsShown` | `ServerIsAsShown` | `ConnectionBounds` are numbers |
| `BatchKeepsItsTasks`, `SubagentsAreTakenLeaveOf` | `SwarmTasksKept`, `EverySubagentEnds` | limits and intervals are numbers, the recovery interval is not 0 |
| `LivesAreAgreedOn` | `LivesAgree` | a cache of at least one agent (0 switches it off), at least one attempt to evict |
| `EvictionsSpareTheBusy` | `NeverCutShort` | none |

**ToolExecutorProofs.** Of the scheduler, `SchedulerIInv` is the type invariant together with
`ConflictsRunInOrder` and `QueuedTasksAreBlocked`. Mutual exclusion is not
inductive by itself: that the rescan may start two queued tasks at once is safe
only because a task is compared with all queued tasks before it. It follows
from order instead: of two conflicting active tasks the later one has started,
so the earlier one has settled, and cannot be active. The two leaves that carry
the argument are `Add` (a new task is behind everything) and `Finish` (a started
task clashes with nothing unsettled before it; a task that remains queued
clashes with one that is either still active, just started, or itself
queued). `ConflictSymmetric` lets the comparison be made in either direction.

Of the executor, `ExecutorIInv` adds to `SchedulerIInv`:

- `PhaseProgress`: how many calls are prepared and how many are with the
  scheduler in each phase;
- `ResultsFlow`: yielded results are finalized, finalized ones were taken, taken
  ones have settled;
- `ExecutingTasks`: without an abort, a running tool belongs to an active task.
  This is what an abort breaks, and why `NoConflictingExecutions` is part of the
  invariant and not a consequence of the scheduler's exclusion: after an abort
  the property survives because no tool is launched any more;
- `SkippedTail`: a call prepared after one that stops the batch is skipped.

`ExecutorImplementsBatch` proves the refinement: the only steps the consumer sees
are a yield of a result not yielded before, an end with all results yielded, and
a failure.

**MachineToolsProofs.** Whether a call finds the batch of its siblings running
depends on what became of them, so `BridgeIInv` ties the four places of a call to
each other: its actor, `pending`, a batch, its outcome (`CallsHaveActors`). While
the turn acts on a response an expected call that was executed waits or has
started (`ActingIsBatching`), and of an undisturbed response all expected calls
have started or none has (`AllOrNoneStarted`): `BeginBatch` is the only step from
the one to the other, and the double abort that sets `disturbed` the only way
to a batch in flight from before.

**AgentMachineProofs** covers any number of tools, prompts and notes, histories of
any length and every order of inputs, reports, timers and resets.

- `ToolsOK`, the two properties of tools with the types they need, is inductive:
  every way out of a turn stops or aborts the tools it leaves behind.
- `StoreOK` shows that store and machine agree. A reset breaks the agreement for
  as long as it travels, so the invariant says what holds then (`ResetHolds`: under
  the lease the machine is paused or over and the reset carries what the store will
  hold; without it, nothing but that the machine has been restored), and that no
  `input.continue` in the mailbox ends the pause of the lease too early
  (`ResetIsAwaited`). A recovery's reset restores the agreement unless a turn
  overtook it, which is what `StoreReset` compares and `overtaken` records.
- `PairingOK` says where the produced entries of a turn are: paired, but for the
  last response while its tools run (`TurnPairs`); in the history once, because a
  turn reports its end once (`EndReportedOnce`); and that what is handed to a
  turn contains no calls (`NotesPlain`). The lemmas on `WellPaired` (histories
  concatenated, cut, extended by results) are about sequences of any length.
- `DeliveriesOK` keeps the books of what is delivered (`Accounts`): for every
  prompt, notification and background call, its copies in the queue, the pending
  notifications, the drain under way, what the turn has produced and the history
  add up to one once it was received, or it was dropped on purpose. The books
  balance only because of the order in which agent and turn tell each other
  things (`SignalsOK`): what the agent empties its notifications into reaches a
  turn that is still draining, because nothing else was on its way when the turn
  asked. `ToolsKept` says that a tool which has left its turn is in the background
  or was given up, so that it reports its completion once; `ContextKept` that an
  idle machine which is not paused has nothing waiting, and that a reset returns to
  no more than the history held.
- `GateIsPassed` follows: a prompt in the queue is nowhere else
  (`WaitingPromptIsQueued`), so that the only way into the history is from the
  queue, and with a gate an idle machine takes nothing from a queue that is not
  empty (`GatedSettle`).
- `TypesAreKept` adds the bounds of a turn: its steps, attempts and recoveries.

The last three hold under `FreshIdentities`: every prompt, notification and call
has an identity of its own and is sent once, the journal that is restored has not
delivered it before, and the listeners' reactions submit nothing themselves. This
is not something the machine enforces; without it "once" has no meaning, since a
client that sends the same text twice is right to see it twice.
`MCAgentMachine` has TLC evaluate it for the instances of the three agent runs.

**SessionProofs.** `OwnedByItsHolder` is inductive once it says which processes
hold nothing while they are mid-way through a claim or a release. The second
theorem states what the run `session_lock_race` suggests: the unlink of a
replaced file is the *only* way to two holders.

For two processes that share a journal, `SharingIInv` says what a process may
conclude from the length of the file. Until somebody writes blindly or late, who
owes the journal nothing knows whole records, so that a torn line shows in the
length, and who owes it a rewrite has in memory what was readable when the journal
had the known length (`KnowledgeOK`): that is why a comparison of lengths is
enough. `ProcessOK` is about control; `LegacyOK` says that a journal of the older
version is untouched until it is migrated.

`EmitterIInv`: the deliveries started and those queued are distinct and, over both,
in the order of the calls (`DeliveriesOK`); a call waits for deliveries of its own
kind (`CallsOK`); who was subscribed at the call is served or in the queue
(`HeardOK`); and a call that has returned has no delivery that anybody still waits
for (`ReturnedOK`).

**TaskLifecycleProofs.** `TaskIInv`: the process is gone before the task settles
(`ControlOK`), an aborted task knows whom to blame until it is settled
(`BlameOK`), a foreground task is told by its call alone (`TellingOK`), and output
is pending, in the file or in the builder, in order and up to the limit
(`OutputOK`).

**FullCompactionProofs.** `CompactionIInv` is `SlotFollowsWorker` and
`LeaseIsExclusive` with the types of control state. The context's contents do not
matter for them, so the proof never looks at it.

**ConnectionsProofs.** `OAuthIInv`, for any number of processes and calls: the
leader of a refresh waits for it (`ShapeOK`), a token that is not saved yet is
known to nobody else (`TokensOK`), who is inside holds the lock (`LockOK`), and
past its re-read works for the session the user is in (`UserOK`); a spent token
is on record only while its refresh is under way (`SpentOK`); a forced refresh
does not answer with what its callers have seen (`ForceOK`). Each of the last four
lapses with the exception that the code itself makes, and with no other.

`McpIInv` is about the entries of the MCP manager and the operations that may
still write to them. Operations know only entries there have been (`EntriesOK`);
there is one mutation at a time, and it knows the current entry (`MutationsOK`);
an attempt has a number of its own (`AttemptsOK`), which is what an overtaken one
is told by; an open client is the one of its entry unless its attempt was
overtaken (`ClientsOK`). A pending server has somebody who connects it
(`PendingOK`), a connected one an open client that its tools use, or somebody who
is about to change its status (`ConnectedOK`), and its status was told or is about
to be (`ToldOK`).

**SubagentProofs.** Three invariants.

`SwarmIInv`, of a batch: a task is in the queue, under way or has its result
(`QueueOK`), the place of an attempt says what exists of it (`AttemptsOK`,
`AgentsOK`), launches are counted (`CountOK`, `CapOK`), and somebody will look at
the queue (`AwakeOK`, `OpenOK`). Between an outcome and the end of the handler
nobody may be awake; `schedule` has the last word in every handler, and
`ScheduleKeeps` is the lemma that it wakes somebody whatever it finds, in both
modes of the launcher. `EventsOK` says what the parent has heard of a task from
the place of its attempt.

`MarksIInv`, of evictions: a removal marks its generation in the step that starts
it, so that no other step can begin one between the second look of the cache and
the removal.

`AllInv`, of `LivesAgree`: for a generation, how its build, machine, scope and
removal go together (`LifeOK`), and what more can be said while nobody was removed
before its link (`OrderlyOK`) or no `agent.stop` went astray (`StraightOK`); a
machine that lives is in the session's table and, unless its build has failed, in
the roster (`TablesOK`); an id that is shut has a removal under way (`ShutOK`); a
removal whose machine is gone is over before a successor attaches its
interactions, which is where the order of microtasks is needed (`AsksOK`). A call
bound to an agent has one of its id, and each machine that links has the call
that others join (`CallsInv`). A finished subagent is in the cache's map, in the
hands of the pass, or running again (`KnownOK`); and when no pass is left, the map
is within the capacity or each id in it has a reason to be there: it is closing,
gone, in use, or was put off by the last pass because of a background task
(`OverflowOK`). That the first three reasons do not go away without a new pass
rests on `Ages`: generations only grow older, and a handle only goes. The fourth one
may outlive its task, which is why `WithinCapacity` excepts it.

The attempt to prove `LivesAgree` refuted an earlier form of it. It counted every
entry of the map, and an entry of an id whose agent failed to come back stays in
the map for good, which takes more calls than the run has. The code promises the
bound for the agents that live, and this is what `WithinCapacity` now says.

**Only model-checked.**

- Liveness (`EveryTaskSettles`, `AbortSettlesEveryCall`, `AbortEndsTheBatch`,
  `AbortEndsTheTurn`, `EveryWriteSettles`): beyond this prover.
- `ContextIsKept`, `StoreMatchesFiles`, `AckedSurvives`: they relate sequences to
  what a fold, a filter or a replay makes of them, and the library's filters
  (`SelectSeq`, `SetToSeq`) are recursive, so that facts about them need
  induction over data.
- `LogIntact`, `StoreComplete`, `ReportedOnce`, `NoneForgotten`: they too are about
  filtered sequences (what of the buffer was not dropped, which records of a wire
  are of one kind, which deliveries remain).

## 5. Not modelled

- The rest of the loop (prompt bookkeeping, steering, how a run ends) and the
  engine's event translation: only the quiescence lease, the recovery of a failed
  step, the resets, the binding of a turn and what the engine sends are modelled.
- Cron, goal, plan, tower and skill features: built over the loop, each with its
  own store; candidates for later.
- The permission gate, its rules and the approval dialogue: a sequence of checks
  that acts as a before-execute hook; the executor lets a hook do anything.
- Tool implementations, providers, the SDK and klient, the terminal interface,
  session import, telemetry, the bash parser, and the queries and indexes of
  minidb: rendering, parsing, data conversion and I/O without concurrent state of
  their own. They are most of the repository by size.
- Session index, blob store, atomic documents and configuration: single file
  operations.
- Dependency injection: infrastructure without behaviour of its own.

## 6. Plan

1. `Loop`: turn bookkeeping over an abstract agent that
   `AgentMachine` is shown to implement; then cron and goal over it.
2. Composition: `SessionSharing` over `SessionLock` and `AppendLog` with their
   exceptions; `AgentMachine` over `EventStore`.
3. OAuth's device flow; `maxRunningTasks`; agent fork and adoption.
4. Proofs: `ReportedOnce` and `NoneForgotten`, `LogIntact` and `StoreComplete`,
   once the filters they use are functions the prover can expand.

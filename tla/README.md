# A formal model of the local agent runtime

This directory holds TLA+ specifications of the runtime in `src/`, the TLC
configurations that check them on small instances, and proofs for all instances
checked by TLAPS. It is written from the code at the commit in `src/`; where a
document and the code disagree, the model does what the code does, and the
disagreement is a run of its own (see *Findings*).

Paths below are relative to `src/`. `TR` is
`apps/runtime/local_agent_runtime/task_runner.py`. `PROJECT.json` maps every
definition to the lines it stands for.

## 1. The system

A user starts a *task* from the CLI or the TUI. The client process starts the
runtime as a child and speaks JSON-RPC with it, one line per message, over stdin
and stdout. The runtime executes the task as a *run*: a language-model agent in a
graph library, whose tools are governed by a policy. Operations that cross a
*boundary* (writing to the workspace, running a command, installing a skill) need
the user's approval, during which the run is suspended. A run can be paused,
asked a question, interrupted, resumed, and it outlives the runtime process.

### Components

| Component | State it keeps | Operations |
|---|---|---|
| Task runner (`TR`, `run_state_store.py`) | the record of each run, cancellation objects, thread table (memory) | create, resume, reply, cancel, approve, skill.install, compact; the execution thread |
| Recovery (`recovery_service.py`, `bootstrap.py`) | none; reads events and checkpoints | rebuild every run's record at start |
| Approval store, boundary grants (`services/policy_service`) | `approval_requests`, `boundary_grants` (SQLite) | create_request, decide, grant, has_grant |
| Checkpoint store and adapter (`services/checkpoint_service`, `checkpoint_adapter.py`) | `checkpoint_metadata`, `checkpoint_threads`, `checkpoint_thread_state` (SQLite); one saver for each thread id (memory) | begin, attach and resume a run; record; put and persist |
| Agent harness, interrupt bridge (`services/deepagent_runtime`) | the agent of one execution | execute, probe for cancellation, authorize |
| Tool bindings (`tool_bindings.py`) | none; the run's rejection count is in its record | validate, govern, announce and perform a tool call |
| Policy engine (`policy_engine.py`, `boundary_scope.py`) | configuration | evaluate an operation: ALLOW, REQUIRE_APPROVAL or DENY |
| Event bus, event store, log stream (`event_bus.py`, `event_store.py`, `runtime_server.py`) | events per run: in memory and as rows; subscribers | publish, list, subscribe; task.logs.stream |
| Runtime server (`runtime_server.py`, `method_handlers.py`) | one thread per request, session flag | serve, dispatch, shut down |
| Conversation and compaction (`conversation_compaction_service.py`, `compaction_strategy.py`, `message_store.py`) | messages, compaction records (SQLite) | append, project, compact |
| Artifact store (`services/artifact_service`) | records and host paths (memory), rebuilt from events | register, restore, list |
| Skill installation (`skill_installer.py`, `skill_registry.py`) | directories | prepare, execute, load |
| Remote MCP authorization (`services/remote_mcp_auth_service`, `mcp_provider.py`) | pending authorizations, grants with tokens (SQLite) | start, complete, refresh, revoke, headers |
| Memory (`services/memory_service`) | records (SQLite) | write, search, promote |
| TUI client (`protocol_client.py`) | pending requests, the runtime process | request, reconnect |
| TUI store (`apps/tui/.../store`) | snapshots, approvals and event buffers folded from messages | reduce, select |
| TUI screens (`app.py`) | a stack of screens and dialogs | keys, palette, typed commands |
| CLI (`apps/cli`), protocol models (`packages/protocol`) | none | build and read requests |
| Configuration, identity, sandbox, web service | none of their own | parsing, calls to the operating system and the network |

### How they interact

* A request line starts a **thread** (`runtime_server.py:44`). Handlers of the same
  run overlap freely: `RunStateStore.get` and `.update` are atomic, but a handler
  reads a snapshot, decides, and writes later; nothing holds a lock in between.
* create, resume and reply **launch an execution** in another thread; cancel talks
  to it through a shared cancellation object, approve through the stores.
* An execution **calls back** into the task runner: checkpoints, approvals and tool
  events arrive as harness events and change the record and publish.
* Every change is **published**: to the bus, to the queues of the subscribers, and
  then to the event store. Each database write is a transaction of its own.
* After a **crash** only the databases are left; the recovery service folds the event
  history and the checkpoint rows back into records.

### What is hard, and what correctness means

* *Run life cycle*: interleavings of handlers and executions; decisions made from
  stale snapshots; several executions of one run at once; threads that an exception ends
  before they have written an outcome. Correct: an executing run is about to have its next
  checkpoint or can be resumed; a resumable run has a checkpoint; a waiting run
  names an approval that exists; only approved boundaries are crossed; a client that
  waits for its calls is never stuck and never sees a final status change.
* *Cancellation*: a request may come at any point of an execution. Correct: a request
  that the execution can still see leaves the run cancelled, unless its thread dies.
* *Recovery*: partial writes, and a recovery that writes events itself. Correct:
  what a restart rebuilds agrees with what the client saw.
* *Checkpoints*: each write puts the whole state of a run into one row, from several threads,
  through savers that are cached without a lock. Correct: whoever goes on with a run, in
  this process or the next, meets everything that was saved.
* *Log stream*: three sources (rows, bus, queue) read at three moments. Correct: no
  event twice, none missing, threads' events in order, every stream ends.
* *Policy and tools*: two functions that must agree, and several tool calls of one
  model turn that validate, ask and perform at the same time. Correct: what requires
  approval has a boundary; a grant never overrides a denial; nothing is written without
  consent; a waiting run waits for a question that is open.
* *Artifacts*: records are restored from events while newer ones are registered.
  Correct: one record for each path, and what was announced can be opened.
* *Conversation*: a compaction reads, waits for a model and writes. Correct: an execution
  is given each message once, in the summary or as it is.
* *Skills*: a directory is replaced file by file, and the process may die. Correct: what
  an installation puts at the target is a whole skill, with consent.
* *MCP authorization*: tokens are refreshed, completed and revoked by several threads.
  Correct: a run uses tokens of its own user; a refresh loses no refresh token.
* *TUI*: answers and events in any order, death of the runtime, histories that are
  streamed again, dialogs over screens that late answers replace. Correct: every request
  is answered or failed; nothing is shown twice; no superseded decision is sent; there
  is always a screen.
* *Requests*: every argument passes through two clients, `to_dict`, JSON and `from_dict`.
  Correct: the handler gets what the user gave, or the client a -32602.

## 2. Modules

| Module | Models | Notes |
|---|---|---|
| `RunJournal` | a run's event history, and its recovery | a summary of four facts instead of a list; pure operators |
| `EventScan` | the recovery functions as the code writes them, over the list | compared with `RunJournal` |
| `RunLifecycle` | the record of a run, its handlers, its executions, approvals, grants and checkpoints | the core |
| `RunRecovery` | `RunLifecycle` with crashes and restarts | EXTENDS it, adds `Crash` |
| `GovernedRun` | what a client is promised about a run | abstract specification |
| `RunRefinement` | the refinement mapping from `RunLifecycle` | `Phase`, asked, consent = grants |
| `CheckpointAdapter` | thread ids, savers, the state of the agent library | with crashes |
| `LogStream` | publishing and `task.logs.stream` | with restarts |
| `Session` | `serve`: lines, request threads, run threads, the thread table, the joining at the end | with lines that are no requests |
| `PolicyEngine` | `evaluate`, `describe_boundary` | operators only; used by the next three |
| `ToolGateway` | the tool calls of a run: bindings, `authorize`, rejection count, approvals | EXTENDS `PolicyEngine` |
| `SkillInstall` | `SkillInstallationService` and its approval | files and crashes |
| `RemoteMcpAuth` | authorization of MCP servers, and a run's connecting to them | with restarts |
| `RunArtifacts` | the artifact store, its registration and restoring | with restarts |
| `Conversation` | messages, projection, compaction | with restarts |
| `ProtocolClient` | the TUI's client object, the runtime processes it starts, their readers, reconnecting | with crashes and cancelled workers |
| `TuiStore` | the TUI's reducers and the workers that feed them | against the runtime's event log |
| `TuiScreens` | the TUI's stack of screens | operators from a state to the set of states a handler may leave |
| `Requests` | the requests of CLI and TUI, the parameter classes, the handlers' refusals | values are classes of values |
| `MCServices`, `MCViews` | the components that share no state, side by side, for TLC and for the proofs | see *Composition* |
| `ToolGatewayProofs` | theorems about `PolicyEngine` and `ToolGateway` | TLAPS |
| `RunLifecycleProofs` | theorems about `RunLifecycle` for any client | TLAPS |
| `SequentialProofs` | theorems about `RunLifecycle` for a client that waits for its calls, the refinement, and `RunRecovery` | EXTENDS `RunRecovery`, `RunRefinement`, `RunLifecycleProofs` |
| `CheckpointAdapterProofs`, `ProtocolClientProofs` | theorems about those modules | TLAPS |
| `ViewsProofs` | theorems about `LogStream`, and about `Session` beside it | EXTENDS `MCViews` |
| `TuiProofs` | theorems about `TuiStore` and `TuiScreens` | EXTENDS `MCServices` |
| `ServicesProofs` | theorems about `EventScan`, `CheckpointAdapter`, `Conversation`, `RemoteMcpAuth`, `SkillInstall`, `RunArtifacts`, and the types of all of `MCServices` | EXTENDS `TuiProofs`, `ToolGatewayProofs` |
| `MCRun*` | symmetry for TLC | |

Definitions called *mutant of X* are what a plausible mistake would make of `X`. No
action uses them; they document what each property would catch.

### RunLifecycle and the code

An element of `Calls` is one request: the thread of its handler and the execution
that the handler launches. `pc[c]` names the place, `job[c]` the local variables:

| Variable | Code |
|---|---|
| `run` | `RunState` in `RunStateStore` (status, awaiting_approval, pending_approval_id, is_resumable, pause_reason) |
| `current`, `flag` | `_run_cancellations[key]` and the `RunCancellation` objects; an execution keeps the object it started with in `job[c].obj` |
| `decision`, `scope` | `approval_requests.status` and `.scope` (a boundary key) |
| `grants` | `boundary_grants` |
| `effects` | operations that were performed across a boundary |
| `ckpts` | number of `checkpoint_metadata` rows, highest index, whether the latest is `run_completed` |
| `journal` | `persisted_events` of the run, see `RunJournal` |

A step is one access to a shared store, in the code's order. So `approve` is:
`Approve` (snapshot and checks, TR:442), `DecideRead` and `DecideWrite` (the two
transactions of `ApprovalStore.decide`), `ApplyDecision` (TR:473), `Grant`,
`ResumeApproved` (the checks of `resume_run`, on a new snapshot), `ClearCancellation`,
and then the execution: `Begin`, `Mark`, `Announce`, `Enter`, tool calls
(`PerformOperation`, `AskApproval`), `Yield` or `Break`, `Settle`, `WriteOutcome`,
`PublishOutcome`. `CancelRead`, `CancelWrite` and `PublishCancelled` are
`_transition_to_cancelled`, which both cancel and an execution call.

Two places of `_execute_run` are outside every `try`, and an exception there ends the thread,
which `_execute_run_in_thread` does not catch either. `Lose` is the set-up of the sandbox
(TR:986); `Strand` is what is stored between the harness and the look at the request to cancel
(TR:1123 to 1162): the agent's message, a compaction that asks a model to summarise, the
registration of output files that may be gone. Such a call rests in `lost` or `stranded`, with
the record as it was: executing. `Conversation` and `RunArtifacts` model the same ends
(`stranded`, `dead`) for what they leave behind there. A cancellation that the harness sees
before it invokes the agent (`Enter`) has nothing to store and goes past `Strand`.
That a write to SQLite fails is left out everywhere.

Abstracted: summaries, phases, todos, time stamps, objective and metadata; the agent,
whose every behaviour at the interface of the harness is allowed (any sequence of
tool calls, questions, answers, failures); the class of an operation, since the
policy is reduced to "this boundary needs approval unless it is granted".
Runs share no state (every store is keyed by task and run), so one run is modelled.

*The client's discipline.* `Overlap` is the set of methods a client may call while
another call is active. With all methods in it, anything may overlap; with
`{"interrupt"}`, the client sends the next call when the last one and its execution
are over, except that it may cancel an executing run, as one user at one screen
does. `Overlap` is a guard on arrivals only.

### RunJournal, EventScan and RunRecovery

`_status_from_events` and its helpers scan the event list backwards. They only ever
ask for four facts, so `RunJournal` keeps these and `AppendEvent` maintains them;
`EventScan` has the scans themselves and states that both rebuild the same record
(`RebuildsTheSame`). `RunRecovery.Crash` ends every call at any step, forgets `run`, `current`, `flag`, and rebuilds `run`.

### CheckpointAdapter and the code

`thread`, `marked` and `disk` are the tables `checkpoint_threads`, `checkpoint_metadata` and
`checkpoint_thread_state`; `savers` are the `PersistentInMemorySaver` objects of the process
with their lock, `cached` is `_checkpointers_by_thread`. The state of the agent library is
the set of the writes in it. `Look`, `Build`, `Install` and `Take` are
`_checkpointer_for_thread` between its accesses to the table; a miss reads the store and
makes an object. They are taken by the execution and by the handler of task.create or
task.cancel (`controller[r][c]`), which may be between any two of these steps at once.
`Put` and `Persist` are the two halves of put, put_writes, aput and aput_writes: the memory
changes and is frozen, then the row is overwritten; both under the lock, and the second may
fail. Of `RunLifecycle` only what decides who builds a controller is repeated here. That a
request finds a run in a status that allows it is left open: a run may be cancelled, or gone
on with, more often than the code lets it. Two executions of one run, which only a client
that repeats itself launches, are in `RunLifecycle` and not here.

### LogStream and the code

`bus`, `subscribers` and each stream's `queue` are the fields of `InMemoryEventBus`;
`rows` is the event store. `Publish`, `Put` and `Store` are the three parts of
`TaskRunner._publish`; `Open`, `Subscribe`, `List`, `Each`, `Loop`, `Get` and `TimeOut` are
`_serve_logs_stream` between its accesses to shared state: `List` copies what the bus has
(`listed`), `Each` is one round of the loop over the copy. The subscribers a publisher
still has to serve are a set: nothing relates their queues, so any order will do. An
element of `Streams` is a place for a request; when the request has ended another one may
take it. Events carry an identity, the thread that published them, and whether they are
terminal. `received` is what the client remembers, so it may resume from any event it
has seen, in the same process or after a restart.
Writing to stdout is not a step: only the stream's own thread writes its events, and
lines of different streams are independent.

### ProtocolClient and the code

Everything in the TUI runs on one event loop, so an action is what a task does between
two awaits. A member of `Workers` is a Textual worker group; its workers are exclusive,
so a new one cancels the one before it (`Cancel`, then `Request` or `Connect`).
`future`, `pending`, `process` and `readerTask` are the fields of the object;
`runtime` and `reader` are the processes and reader tasks that exist, which may be more
than the object knows. An await holds on to what it was given: `closer.on` is the
stream, task or process that `close()` awaits, and `reader[r].on` the process whose
output the reader waits for, while `process` may change (`Spawned`, `ProcessAwaited`).
The runtime answers requests in any order (one thread each). Three environment steps
are what the operating system and the runtime do in the long run: `Crash`, `Garble`
(a line that ends the reader: no JSON, or longer than the 64 KiB limit of a
`StreamReader`) and `FillLog` (the unread standard error is full).

### Session and the code

`Read` is one line of `RuntimeServer.serve`; `Handle`, `Register`, `StartWorker` and
`Write` are `_serve_request` with `_dispatch_request`, and the part of `_launch_run` that
writes the thread table before it starts the thread. `Leave` and `Pop` are the end of
`_execute_run_in_thread`, whose `finally` removes whatever entry the run has. `Snapshot` (the
table in any order), `Join` and `JoinRequests` are `wait_for_all_runs` and the end of `serve`; joining a thread
that is in the table but not yet started raises `RuntimeError` (`raised`). A JSON line
that is no object kills its thread (`Die`).

### PolicyEngine, ToolGateway and the code

An operation is a record with the fields the policy looks at; a path is the sequence of
its components. `Evaluate`, `Boundary`, `RequiresApproval` and `Denied` are the code's
functions, one arm for each type of operation. In `ToolGateway` a *slot* is one call of a
model turn. `todo[s]` is what is left of the body of its tool, in the order of that
tool: some are announced (`tool.called`) before they are performed, some after. `Govern`
is `InterruptBridge.authorize` with the policy; `Ask` is `_create_approval_request`;
`ReadStreak` and `WriteStreak` are the two halves of
`_record_recoverable_tool_rejection`. `Settle` is what the agent library does when all
calls have come to an end: it raises the first exception in the order of the turn.
`RunLifecycle` has what the record and the client see of it, for one call at a time.

### SkillInstall, RemoteMcpAuth, RunArtifacts, Conversation and the code

* `SkillInstall`: `source`, `target` and `staging` are directories as sets of files;
  `Clear`, `Make`, `Copy`, `Remove` and `Rename` are the five calls of `execute_install`,
  the first, third and fourth a step for each file. `Decide` asks `PolicyEngine`.
* `RemoteMcpAuth`: `grants` and `pending` are the two tables. A run walks through the
  configured servers (`Connect`, `Headers`, `Refresh`, `SaveRefreshed`); the token endpoint
  is called between the reading and the writing of a row and may answer with or without a
  refresh token, or fail.
* `RunArtifacts`: `records` and `hosts` are the store; `Prepare` and `Register` are
  `register_artifact` before and under its lock; `Load`, `Restore` and `Loaded` are
  `_ensure_artifacts_loaded`, an event at a time. A file is the number of the write it holds.
* `Conversation`: a record of a compaction is its cutoff and the messages its summary was
  made of; `given` is what `projected_messages` gave the latest execution.

### The TUI and the code

* `TuiStore`: all workers are coroutines of one thread, so an action is what a worker does
  between two awaits: `Sync` and `Decide` continue when `AnswerSync` and `AnswerDecide`
  have answered, which may be any time later. `log` is the runtime's event log of each
  task, reduced to what the store makes of an event; `feeds` are the streams of the
  runtime, which nobody stops when their consumer is replaced.
* `TuiScreens`: `stack` is Textual's, `active` and `palette` are the store's. A handler is
  an operator from a state to the states it may leave; which one depends on contents
  (is something selected, is an approval pending) that are left open.
* `Requests`: `order` is what the user typed, `wire` the params object, `effect` what the
  handler goes on with. `Forms` gives the arguments that each client offers, the
  parameter classes give what `from_dict` demands, allows and defaults to.

### Composition

`RunRecovery` composes the run with the recovery service; `RunRefinement` relates it to
`GovernedRun`; `ToolGateway`, `SkillInstall` and `RemoteMcpAuth` are composed with
`PolicyEngine`, and `TuiStore` with the runtime's log and streams. `MCServices` and
`MCViews` put components side by side that share no variable: `part` names the one that
takes the steps. A property of such a run speaks of one component's variables only, so a
violation in the full interleaving projects to one in which only this component moves,
which is a behaviour of the run; the variables of the others are fixed.

The constants of both modules are open: a configuration gives them the values of an instance, and
the theorems hold for all. Both get the same assumptions, which TLC evaluates for its instance:

| Assumption | Says | Because |
|---|---|---|
| `NamedAssumption` | no approval is called as none is | an id is a uuid, none is `None` |
| `BufferAssumption` | a buffer holds one event at least | it is a positive literal of the store (`reducers.py`) |
| `ServersAssumption`, `OwnerAssumption` | the configured servers are a list; each run has one user or none | types of the configuration and of the run's record |
| `ThreadAssumption` | 0, which stands for no thread id, is none | the code has `None` there |
| `RunsAssumption`, `TasksAssumption` | there is a run; the tasks are finitely many | a question needs a run to belong to; the store is a dictionary |
| `SlotsAssumption` | the calls of a turn are numbered from 1 | they are a list |
| `MenuAssumption` | write_file asks for a file.write | `tool_bindings.py` builds no other operation for it |
| `CountsAssumption`, `LimitsAssumption`, `RequestsAssumption` | the bounds are numbers, the longest conversation and stack not 0 | bounds of the models |

## 3. What is checked

Every passing run terminates without a bound on the depth; the bounds are the CONSTANTS.
`CHECK_DEADLOCK FALSE` everywhere: when the calls, events or restarts of the bound are
used up the system legitimately rests.

| Run | Instance | Shows |
|---|---|---|
| `concurrent` | 2 calls of any method overlap, fair, 1 approval, 1 boundary and the skill boundary | `ExecutingIsResumable`, `ResumableHasCheckpoint`, `AwaitingNamesApproval`, `EffectsWereAsked`, `CancellationTakesEffect` in every interleaving, with threads that die |
| `sequential` | 5 calls, interrupt may overlap, 2 approvals | `TypeOK`, `NoDeadEnd`, `RecoveryFaithful`, `TerminalIsFinal`, `DecisionIsFinal`, and that `RunLifecycle` implements `GovernedRun` |
| `crash` | 4 calls, 2 approvals, up to 2 crashes at any step | `SafeAcrossCrashes` (checkpoints, waiting and effects across restarts), `RecoveryIdempotent`, `CompletedSurvives` |
| `client` | 2 worker groups, 2 requests, 2 runtimes, 3 mishaps (reconnects, crashes, garbage, full logs), fair | `TypeOK`, `AnswersAreFaithful`, `EveryRequestReturns`, `ReconnectEnds` |
| `services` | the ten components of `MCServices` (table below) | one or two properties of each |
| `views` | `LogStream`: 2 publishers, 3 events, one stream after the other, 1 restart; `Session`: 3 lines, 2 run threads of one run; fair | `StreamFaithful`, `CaughtUp`, `AnsweredOnce`, `AllEnd` |

| Component in `services` | Bounds | Properties |
|---|---|---|
| `EventScan` | histories of up to 4 events, 2 approvals | `RebuildsTheSame` |
| `ToolGateway` | 2 parallel calls, 12 kinds of calls in the first slot and 2 in the second, 2 approvals, threshold 3 | `WaitsForOpenQuestion`, `EffectsWereConsented`, `NeverAskedTwice` |
| `RunArtifacts` | one output, one report, 3 writes, 3 events, 1 restart | `ListIsFaithful` |
| `RemoteMcpAuth` | 2 runs of 2 users, 2 servers (one imported, with OAuth), 2 tokens, 1 authorization that two clients complete | `OwnTokens`, `StaysRefreshable` |
| `Conversation` | 4 messages, 2 compactions by a client and the execution | `NothingForgotten` |
| `SkillInstall` | 3 kinds of bundles, one change of what is staged, 1 question, 1 crash, one installation at a time | `NeverHalfInstalled`, `ChangedWithConsent` |
| `TuiStore` | 2 tasks with 4 and 1 events, 2 streams, a buffer of 2, a queue of 2, 3 inputs | `NoRecordTwice`, `NeverDecidesStale` |
| `Requests` | every method of both clients, each argument present, blank or left out | `ClientsAreUnderstood` |
| `TuiScreens` | stacks of up to 3 screens, one worker out at a time | `AScreenIsLeft` |
| `CheckpointAdapter` | one run, 2 writing threads, 3 writes, 2 savers in a process, 1 crash | `ResumesWithEverything` |

*Why these bounds.* A call of `RunLifecycle` is a request together with the execution it
launches, so two of them already give two executions of one run, or an execution and the call
that races it; the four invariants of `concurrent` are proved for any number of calls (section
4). Sequentially, five calls reach create, ask, reject or approve, ask again, approve, resume,
with an interrupt. A second approval is needed for an approval of an earlier execution to be
decided late. Two crashes are needed for a recovery that reads the event of a recovery. In the
event scan, the longest dependency is approval, answer, approval, pause: four events. In the log
stream an event in each of rows, bus and queue needs three, and streams do not see one another
(what the run checks of one is proved of any number). In the session, a run thread that ends, a
newer one of the same run, and a request beside them make three lines. In the client, a request
that is stranded and the one that strands it make two, and a reconnect that is cancelled by
another on a broken connection takes three mishaps. Two tool calls of a turn interfere in pairs;
that a second one asks for what the first one has asked is the worst they do (the three
properties are proved for any number). A third write of a path is one after a restart and one
during the restoring. Three writes and a crash are a write on each side of the crash and one
that overwrites; the race of a cancellation with a resumption takes two savers. A second token
is a refresh during another authorization. Four messages are a summary, a message during it, and
a later summary of both; a client and the execution are two that compact at once. One question
is enough to install something and replace it with what nobody was asked about. In the TUI's
store, four events are a question, its answer by another client, and a second question while the
operator decides the first; they overflow a buffer of two twice, and what it dropped is
replayed. One worker's answer at a time meets every stack, since an answer touches the screens
alone. The properties of these components, all but
`ClientsAreUnderstood`, are proved for any bounds too (section 4). The mutants
listed in `PROJECT.json` confirm it for each property: the bound is large enough for a plausible
mistake to be found.

*Reductions.* Calls and approvals are interchangeable (no action tells two apart), so
`Symmetry` permutes them in `sequential` and `crash`, whose properties do not name
single calls; the runs that check liveness have none, and no run has a view.

*Fairness.* `WF_vars(Step(c))` for each call: the operating system schedules threads,
database transactions return, and the graph that the harness invokes has a recursion
limit, so the agent returns. Nothing is assumed about the client: no fairness for
requests, nor against an exception: `WF_vars(Step(c))` lets a call take `Strand` or `Lose`
as its step. `CancellationTakesEffect` needs it from the request to the written status, and
excepts the thread that dies. In `views` (`ThreadsGetOn`)
the streams' threads are fair, since `subscription.get` has
a timeout and so never waits for a publisher; and so are request threads, run threads
and `serve` itself after the end of its input. Publishers, clients and restarts are not.
In `ProtocolClient` the event loop runs
every task that can go on, and a runtime serves its requests and ends after its input
*unless its log is full*; crashes, cancellations, reconnects and new requests are not fair.
`services` checks safety only and assumes nothing.

### Findings

The six runs that expect a violation. Five of them are what a document promises and the
code does not do.

| Run | Property | What happens |
|---|---|---|
| `duplicate_decision` | `DecisionIsFinal` | two overlapping approve calls read the same pending row; the second overwrites the first |
| `cancelled_survives` | `CancelledSurvives` | recovery does not look at task.cancelled; the run comes back paused, or even completed |
| `awaiting_answerable` | `AwaitingIsAnswerable` | a crash between the decision and the resumption: the run waits for an approval that cannot be decided again |
| `skill_approval` | `ApprovedRunResumes` | approving a skill installation the agent asked for does not resume the run |
| `resumed_stream` | `ResumedStreamIsComplete` | after a restart the bus does not know the last durable event, and what is published before the subscription is lost |
| `live_runtime` | `LiveRuntimeAnswers` | every event and request is logged to standard error, which the TUI does not read while the runtime lives: once the buffers are full the runtime stands still |

Properties that the passing runs state carry the conditions under which they hold
(`NoSkillApproval`, a cancelled run, the client's discipline); each condition is there
because of one of these findings or of the following, which were seen while modelling and
have no run. Where a definition is named, it is in the module and TLC refutes it.

Runs, recovery and streams:

* cancel may overwrite a status that became completed after it was read (TR:771 and 812);
  hence `TerminalIsFinal` is for the disciplined client, who may only interrupt.
* A cancel without a reason does not show in the harness' probe (TR:1051): the agent goes
  on until it ends, and is cancelled then.
* A run that failed and had a skill installed afterwards is rebuilt as paused or awaiting
  (`recovery_service.py:160`), hence the last condition of `RecoveryFaithful`.
* A crash before the first checkpoint leaves an executing run that cannot be resumed
  (`recovery_service.py:178`).
* A run that is left executing by a thread that died in `Strand` is refused by no check of
  task.resume, since its checkpoint made it resumable, or waits for the approval it asked for:
  that is all that `ExecutingIsResumable` and `NoDeadEnd` promise of it. If such a run
  was asked to stop it never is `cancelled`, which the protocol specification (line 630) gives as
  the state after a successful interrupt; task.cancel goes on answering `cancel_requested`.
  If the agent had succeeded, a restart rebuilds the run as completed and the client that
  goes on before the restart executes it again: the last case of `RecoveryFaithful`.
* A run whose sandbox cannot be set up (`Lose`) is executing and not resumable: no call moves it,
  and a restart rebuilds it as it is. `NoDeadEnd` excepts it (`Lost`), and `ExecutingIsResumable` lists its place.
* `include_history=false`, or resuming from the last event there is, makes the history
  empty, and the stream then sends everything the bus has (`runtime_server.py:411`).
* A stream that resumes from an event may be sent older ones again, after newer ones: where
  two threads have made their events durable in another order than the bus has them, the
  event resumed from is not the last that the client has seen. The client gets every event
  once per request (`StreamFaithful`), but those in `Earlier` are excepted from the order.
  The protocol specification (section 17.1) allows for it: order "whenever practical".
* A stream of a cancelled run, or one whose history has a terminal event that is not the
  last, ends only with the session.
* `NoRunLeftBehind` (`Session`): `serve` may return while a run is executed, because the end
  of an older thread removed the newer one from the table (TR:907), or because a request
  launched it after the last look. Joining a registered thread before it starts raises.
* A JSON line that is no object is never answered (`AttributeError` in `from_dict`).

Tools and services:

* The rejection count is read and written in two transactions (TR:1508): parallel rejections
  count once, and a threshold that is exceeded is hidden when another call of the turn asked.
  A second question of a turn leaves an approval row that nobody waits for.
* The web tools do not turn a rejection into an answer, so a denial ends the run; an MCP tool
  is announced before it is called, which resets the count, so that its failures never
  reach the threshold.
* `ArtifactIdIsStable` (`RunArtifacts`): a path written again after a restart, before the records
  are restored, gets another id; the protocol specification calls it stable.
* Files written before a pause are never registered: an interrupted execution returns no
  artifacts. `artifact_count` is overwritten from the value read when the execution ended, so two
  threads that register may count one artifact less, or a thread count one whose event is not
  published yet. Proving the bound of the count corrected it: with both threads it may
  exceed the events by two, which the instance of TLC is too small to show.
* `TokenCallsAreGoverned` (`RemoteMcpAuth`): README.md:426 says completion and refresh are
  governed; `bootstrap.py:100` passes no `governed_operation`, and `_govern` returns.
* A revocation between the reading and the writing of a refresh is undone; a refresh token that
  the provider rejects fails the run, where README.md:435 promises a new authorization.
* `SkillInstall` with `Overlap = TRUE` and two threads violates both of its properties: the
  staging directory is shared and has a fixed name. A crash between `rmtree` and `replace`
  loses the skill that was installed.
* That a run never goes on with an older state than it saved rests on the order in `_execute_run`
  (TR:920): it looks at the request to cancel after it has its saver. The request is
  set before the handler of task.cancel asks for a saver, so an execution that races it
  and gets a saver of its own does not use it. Looking first would lose writes (the mutant
  `StartsAnyway`).
* conversation.compacted names an id that is not the id of the stored record.

Clients:

* `ReaderLost` in `EveryRequestReturns`: a worker that is cancelled while it waits leaves
  its cancelled future in `_pending`, and its answer ends the reader with
  `InvalidStateError` (`protocol_client.py:335`); so does a line that cannot be read.
  Nobody fails the other requests, and the client stays `connected`.
* `OneRuntime`: two workers that call `connect()` before the first process is there start
  two (`protocol_client.py:64`); their readers then compete for one stream.
* The exception in `ReconnectEnds`: asking to reconnect while `close()` waits for the
  reader cancels the reader (`protocol_client.py:83`), and awaiting it again raises
  `CancelledError`, which is no `Exception`: the client is never replaced any more.
* `ConfirmedIsDecided` (`TuiStore`): the confirmation names one approval, and what is submitted
  is the one selected by then (`app.py:1690`).
* A late answer to task.get, and a replayed history, put an older status over a newer one; two
  events of the same second, type and summary are taken for one (`reducers.py:648`).
* After a reconnect the task that was selected is not streamed any more: `_stream_key` keeps its
  value (`app.py:2141`).
* `ShownIsActive` (`TuiScreens`): priority bindings and late answers change the screen under a
  dialog, and keys are then taken for a screen that is not shown. Escape from an inspector
  opened from an inspector goes back and forth.
* JSON null for a required text is read as the text "None"; no client sends it, which is what
  `ClientsAreUnderstood` shows.

## 4. What is proved

`RunLifecycleProofs` proves, for any finite or infinite sets of calls, approvals and
boundaries, and any `Overlap`:

* `TypeCorrect`: `Spec => []TypeOK`.
* `SafeUnderAnyClient`: `Spec => [](ExecutingIsResumable /\ ResumableHasCheckpoint /\
  AwaitingNamesApproval /\ EffectsWereAsked)`, and from it `ResumableAlways`,
  `AwaitingAlwaysNames` and `EffectsAlwaysAsked`, one for each property.

Assumptions: `NoApproval` is no approval, `Boot` no call, `SkillInstall` no boundary.

*The argument.* None of the four is inductive: each depends on what a call remembers
between two steps. The inductive invariant `IInv` adds

* `JobOK(c)`: the local variables that a step reads have been set by the steps before;
* `AskedOK(c)`: the approval a call is about exists, and is decided once the call is
  past `DecideWrite`, whatever other calls do, because the store never forgets a row
  (`StoresGrow`);
* `CkptOK(c)`: an execution past its first checkpoint, and a call about to write
  cancelled, has a checkpoint row, because rows are never deleted.

`TypeOK` is preserved action by action in three lemmas (`RequestTyped`,
`HandleTyped`, `ExecuteTyped`). For the rest the proof goes by writer rather than by
action: `RunWriters` and `StoreWriters` name the few actions that change the record
and the stores; `OwnStep` is the effect of a call's step on its own facts,
`Frame` that it leaves other calls alone, `ResumableStep` the executing status,
`RecordStep` and `EffectsStep` the record and the grants.
The interesting case of `ExecutingIsResumable` is two executions of one run: one marks it while
the other is past its checkpoint. The first is then on its way to a checkpoint of its own and
stays among the places the property names (`StartStep`), until it has noted that checkpoint, which
makes the record resumable; and who writes another status than executing needs no witness.
A thread that dies behind the harness is past them all.

`ToolGatewayProofs` proves of the policy engine, for every configuration, operation and set of grants:
`ApprovalHasBoundary` (what requires approval can be granted: the two functions are written
apart and agree on every type of operation), `GrantSuffices`, `DenialIsFinal` and
`AllowedStaysAllowed` (grants only ever allow more, and never what is denied).

It also proves, of the tool calls, for any number of slots and any menu of calls:
`QuestionsAreOpen` (`Spec => []WaitsForOpenQuestion`), `WritesAreConsented`
(`Spec => []EffectsWereConsented`) and `NobodyIsAskedTwice` (`Spec => NeverAskedTwice`).
*The argument*: between a decision of the policy engine and the effect other
calls of the turn move. `IInv` says of each slot that a writing call still has to ask the
policy engine or its operation is consented to (`WriterOK`, where grants only grow), and that a
question that is about to be put, or has been put in this turn, is not granted
(`QuestionOK`, where grants do not change while the run works, since an answer needs a
waiting run and a waiting run has no call under way: the last conjunct of `Shape`). `Settle`
raises the exception of the first slot that has one, and that there is a first one is the
well-ordering of the numbers. `Bounded` adds what the types need: each call of a turn adds
at most one to the rejection count that it has read, so the count together with the slots that may
still add to it stays below the bound of the model (`CountsOK`).

`CheckpointAdapterProofs` proves, for any number of runs, writing threads, writes, savers and
crashes: `PastIsMet` (`Spec => []ResumesWithEverything`), where 0, which stands for no thread
id, is none. *The argument*: `IInv` says that no two runs have one thread id
(`ThreadsDiffer`); that the saver in the table, and one that is about to be put there, is of
the run's thread and has every write that has returned (`SaversOK`); that an execution goes on with
the saver of the table, and that a request asks for a saver only after it has asked for the
cancellation, so that none is on its way to the table while an execution uses the one there
(`CallersOK`); that who writes holds the lock and has frozen all the memory (`WorkersOK`); and
that a run without a thread id has written nothing, and an unbound id has no saver
(`NothingUnbound`). The hard step is `Install`, which may replace the saver in the table
while an execution is about to read it.

### With a client that waits for its calls

`SequentialProofs` proves, for any sets of calls, approvals and boundaries, what the run
`sequential` checks for five calls: `SequentialTerminal` (`TerminalIsFinal`),
`SequentialDecision` (`DecisionIsFinal`), `SequentialEffects` (`EffectsAreApproved`),
`SequentialNoDeadEnd` (`NoDeadEnd`), `SequentialRecovery` (`RecoveryFaithful`) and
`SequentialRefinement`: `Spec => ImplementsGovernedRun`. They assume
`Overlap \subseteq {"interrupt"}`, the discipline of that run's client. It cannot be left out: the
finding `duplicate_decision` and the overwritten status of section 3 are behaviours of a
client without it. It says nothing about threads: an interrupt arrives at any step
of an execution.

*The argument.* `Alone`: of the calls that do more than set a cancellation object there is
one at a time, because the next one arrives only when all are over. So a step is
that of the sole acting call or changes nothing but a flag (`SoleStep`), and what is said of a
place in the code may speak of the record. The invariant comes in two layers, for a crash
keeps only the first:

* `SInv` is about what the database keeps. `StoresOK`: what was crossed was granted, what was
  granted was approved, and no later decision takes that back. `RecordOK`: the record against
  the history and the checkpoints; in particular a completed run can be told from its rows.
  `StageOK(c)`: what a call knows at each place, from the handler (`LaunchOK`, `DecideOK`) over
  the execution (`ExecuteOK`: the run is executing, its history is closed, the latest
  checkpoint is the final one just when the agent has succeeded) to the outcome (`EndOK`).
* `XInv` adds what a living process knows: `ExecutingIsResumable`; `StatusOK`, for each
  status in which a run may rest the approval, checkpoint or event that lets it go on, or the
  call that is about to supply it; `AnswerOK(c)`, what is going to be published. A run may rest
  in executing too, when its thread has died: then it waits for an open approval, or its last event
  is that of a checkpoint or a tool, which `StatusOK` takes from what `ExecuteOK` says of
  every place where a thread can die.

`RequestStep`, `HandleStep` and `ExecuteStep` preserve both, a step for each action and a leaf
for each conjunct. `NoDeadEnd` and `RecoveryFaithful` are `XInv` with the calls gone.
The refinement maps each writer of the record and of the stores: a step that writes a status is `Go`,
`Stop`, `Finish` or a stutter by its place (`StepMaps`), asking is `Ask` (`AskMaps`), a
grant `Consent`, since a decision is about what a stopped run waits for or about a skill. An
executing run in nobody's hands (`Deserted`) is mapped to a stopped one: the death of its
thread is a `Stop`, and the next thread that works on it a `Go` (`Stutter`, `SamePhase`).

### Across crashes

`SequentialProofs` proves for any number of crashes, at any step:

* `SafeUnderAnyClientAndCrash`, for any client: `ResumableHasCheckpoint`,
  `AwaitingNamesApproval` and `EffectsWereAsked`. The invariant `Kept` of `RunLifecycleProofs`
  says of the history that the approval it has open is in the store (`HistoryOK`), which is
  what recovery needs to name it.
* With the client's discipline, from `SInv`: `SafeAlways` (`SafeAcrossCrashes`), `RecoveryAgain`
  (`RecoveryIdempotent`) and `CompletedStays` (`CompletedSurvives`). That the event a recovery
  appends does not change what the next one reads needs that a run whose history ends with a pause
  has no final checkpoint (`RecoveredTwice`); that a run stays completed needs the final
  checkpoint to be written before the record (`RecordOK`).

A crash restores no call, so `XInv` does not survive it: a run may be left executing
with no thread, or waiting for an approval that is decided (the findings of section 3).

### What a stream sends

`ViewsProofs` proves, for any number of publishers, requests, events and restarts:
`StreamTypes` (`TypeOK`), `StreamsAreFaithful` (`StreamFaithful`) and `StreamsCatchUp`
(`CaughtUp`). It assumes only that the bounds are numbers and that recovery is no publisher. *The
argument*: `LInv` says that ids are fresh and name one event (`IdsOK`); that the bus has the events
in the order of their ids, the rows those of one thread in that order (`BusOK`, `RowsOK`); that an
event on the bus is a row or in the hands of its thread, which publishes no other one before it
is (`StoredOK`, `HandOK`); that only who is subscribed is served (`SubscribersOK`); and of each
request: its history is a piece of the rows (`HistoryOK`), what it has written is what it remembers
(`WrittenOK`), what it has still to look at of the list, and what is or will be in its queue, is
later than all that its author has in what was written, or has been written already
(`ListedOK`, `QueueOK`), and nothing on the bus after its history is in none of them
(`CaughtUpOK`). The hard steps are `List`, where the copy of the bus meets events that are in the
queue already, and `Open`, where the history is cut from rows that are not in the order of the bus.
The first attempt failed there: with a second request in one process the order did not hold as it was
stated, and TLC then found the behaviour of section 3 that `Earlier` excepts.

### Whom an answer reaches

`ProtocolClientProofs` proves, for any number of workers, requests, runtimes and mishaps:
`ClientTypes` (`TypeOK`) and `AnswersReachTheirOwners` (`AnswersAreFaithful`). *The
argument*: `PInv` says that an answered future has the answer to its own request and is sent to a
process that exists (`FuturesOK`), that a worker that has returned has an answered one and that
no later event takes it back (`WorkersOK`), that close() always holds a process and its reader
(`ClientOK`, `ReadersOK`), and that a failed request's process has ended, since no process comes to
life again (`QuietStep`, `SettleStep`). That the model's bounds are kept needs the workers counted
that are about to start a process (`SpawnsOK`).

### That a request is answered once

`ViewsProofs` proves, for any number of lines, threads and runs: `AnsweredExactlyOnce`
(`ViewsSpec => []AnsweredOnce`). *The argument*: an answer does not say which thread wrote it, and
those to lines that cannot be read have no id at all. `SessionInv` says of each thread that its place
shows whether its request has been answered (`PlaceOK`), that no two answers have one id
(`NoneTwice`), and that there are as many answers without an id as such lines whose thread has ended
(`Rejected`). When `serve` returns all threads have ended, so every line that could not be read is in
that count. A line that is JSON but no object is in none: its thread ends unanswered, as in the code.

`ViewsTyped` (`ViewsSpec => []ViewsTypeOK`) is the types of both components. `NamesOK` is what
makes them inductive: the table, the list that is joined and the requests name run threads
that have been made, and threads are never taken from the list of all. The proof does not need the
order in which `wait_for_all_runs` copies the table, so `Snapshot` leaves it open.

### That histories, savers, conversations and artifacts are whole

`ServicesProofs` proves of `MCServices`, and so for every value of the constants and whatever the
other components are:

* `HistoryIsKept` (`RebuildsTheSame`): the four facts of `RunJournal` are what the scans of the
  recovery find in a list of events of any length. This carries the model of the
  life cycle over to the list that the database has. *The argument*: a scan returns the last place
  of a set of places, so no induction is needed. `ScanInv` has the last question, answer and pause
  as places in the list (`Keeps`); appending an event makes its place the last of those
  it belongs to and leaves the others. What `RebuildRunState` computes from these is then what
  `RecoveredRun` does.
* `PastIsComplete` (`ResumesWithEverything`): `PastIsMet` of `CheckpointAdapterProofs`, for the
  instance in the composition.
* `ConversationIsWhole` (`NothingForgotten`). `TalkInv` says that a summary was made of exactly the
  messages up to its cutoff, none beyond the end, although whoever made it read the messages
  before waiting for the model and wrote after it: messages are only appended.
* `ConnectedWithOwnTokens` (`OwnTokens`) and `RefreshableForGood` (`StaysRefreshable`). `McpInv` says
  that a token, wherever it is held, was issued for the key it is held under: in a row (`RowsOK`),
  with a client that is about to save it (`ClientOK`), with a run that refreshes or has connected
  (`RunOK`). Rows change between the reading and the writing; that the copy is of the right user
  does not depend on the row any more. An answer without a refresh token keeps the old one.
* `InstalledWhole` (`NeverHalfInstalled`) and `InstalledWithConsent` (`ChangedWithConsent`), if
  installations do not overlap (`Overlap = FALSE`, which `MCServices` fixes: without it both are
  false, see section 3). `SkillsInv` says of the one job under way (`OneJob`) what has been copied,
  that the operation was granted or needed no grant, and that a skill is there only if it may be
  replaced (`JobOK`). A death of the process leaves the directories and no job.
* `ArtifactsAreListed` (`ListIsFaithful`). `IdsOK` says of all records there are (in the list, in the
  events, in the hands of a thread that registers, on the way back from the events) that an id was
  issued for one path; `ArtifactOK`, of a thread, that a path it is going to announce is listed. The
  hard step is `Restore`, which puts back an older record of a path that has been registered since.

### What the screens show

`TuiProofs` proves, also of `MCServices`:

* `TimelineHasNoRepeats` (`NoRecordTwice`) and `DecisionsAreNotStale` (`NeverDecidesStale`).
  `StoreInv` says that a buffer has no event twice and no more than the limit (`BufferOK`: an event is
  appended only if the buffer does not have it, and cutting a list without repeats at the front leaves
  one without; an event that was cut off may come again, and is shown once then), and that the
  answer to task.get, when it comes, is what the run wanted at some moment since the
  confirmation (`DecideOK`): between the log's length then and its length now.
* `AlwaysAScreen` (`AScreenIsLeft`), for a stack of any depth and any number of workers out. The property is not inductive:
  closing the palette pops whatever is on top. `Good` adds that the first of the stack is a screen, and that while the
  palette is flagged there is a screen or the palette above the first. Each handler is a
  relation between states, so there is a lemma for each kind of change of the stack
  and a step for each handler.

### Types

`ServicesTyped` (`ServicesSpec => []ServicesTypeOK`) is a conjunction of eight: `Bounded` of the tools,
`StoreBounded` and `Good` of the TUI, `TalkTyped`, `McpBounded`, `SkillsBounded` and `ArtifactsBounded`, and
`CheckpointsTypeOK`. Most of the work is in the bounds, since the counters of the models are part of the
types: that every token in a row, with a client or with a run has been issued (`HeldOf`), that the artifacts
counted never exceed the events published and those that the two threads are about to publish
(`Reckoned`), and that an approval has the number of its event, which is at most the length of the longest log
(`LongestLog`: there is one, because the tasks are finitely many).

### Only model-checked

* Liveness (`CancellationTakesEffect`, `EveryRequestReturns`, `ReconnectEnds`,
  `AllEnd`): out of TLAPS' reach.
* `ClientsAreUnderstood`: `Requests` has no constant, so the run goes through every request there is,
  and a proof would say no more. Its records are also built with the operators `:>` and `@@` of the module
  TLC, which the provers do not know.

TLC has found every inductive invariant true on the instances of section 3 or on smaller ones:
`ServicesInv` and `ScanInv` on that of `services`, `LInv`, `SessionInv` and `NamesOK` on that of `views`
(with the `Nat` of a quantifier replaced by an interval).

## 5. What is not modelled

`PROJECT.json` lists every component with its status. Left out for good:

* what is only shown: the selectors and widgets of the TUI that format rows, the printing of
  the CLI, summaries, phases and todo lists. They have no state, and their correctness is a
  matter of wording;
* configuration files, identity bundles, the web service, processes and files of the
  sandbox: read once, or calls to the operating system and to the network. The path policy
  of the sandbox is in `ToolGateway`;
* metrics and diagnostics: rows that no decision reads. `_write_metrics` loses increments when
  two threads write (TR:2323), and no document says what the counters promise;
* the agent library, the OAuth protocol with the provider, and the model that summarises:
  external, and allowed to do anything at the interface;
* subagents, whose tools are those of `ToolGateway` with narrower scopes; search and
  promotion of memory records;
* rows of different runs: every store is keyed by task and run.

## 6. Where it could go on

* *Model*: subagents as further slots of `ToolGateway`, and the queue of `ProtocolClient`
  composed with `TuiStore`.
* *Proofs*: what is left of the runs' properties is liveness and `ClientsAreUnderstood`, see the end
  of section 4. `NeverHalfInstalled` and `ChangedWithConsent` for installations that overlap would need
  a change of the code.

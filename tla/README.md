# Formal models of oatty

TLA+ modules, model-checking runs and proofs for the parts of
[oatty](../src/README.md) whose correctness depends on the order in which things
happen: planning and running a workflow while a user pauses or cancels it, the terminal
UI that starts, watches, leaves and repeats runs, the gateway and the engine that
start and stop MCP plugins, the values that providers offer, the catalogs of commands and
their files, the workflow files that agents and the UI change, and a command on its way from
the palette to its answer. The modules are
translated from the Rust sources under `src/crates`; `PROJECT.json` names, for every
definition, the lines it stands for.

## The system

oatty turns OpenAPI documents and MCP plugins into commands, and lets a user (in
a terminal UI, on the command line) or an agent (over MCP) run them one at a time
or chained into workflows. About 69 000 lines of Rust:

| Crate | Component | State it keeps | Operations | Talks to |
|---|---|---|---|---|
| engine | step planner (`executor/planning.rs`) | in-degrees, adjacency, queue of one call | order the steps or refuse them | called by every way of executing a workflow |
| engine | asynchronous run (`workflow/runner.rs`) | `statuses`, `RunContext`, `any_failed`, `ControlState` | start, drain and process commands, skip, fail, execute, complete | control channel from the UI, event channel to the UI |
| engine | step execution (`executor/{repeat,step_once,prepare}.rs`) | attempts of one step | prepare, run, repeat | command runner (HTTP or MCP tool) |
| engine | synchronous execution (`executor/execute_plan.rs`) | results so far | execute all steps | CLI, MCP workflow tools |
| engine | documents, bindings, templates, conditions | none beyond a `WorkflowRunState` | parse, resolve, evaluate | everything above |
| engine | provider value cache (`provider/registry.rs`) | cached values with lifetime, keys being fetched, choices | look up or plan, complete a fetch | palette and collector of the UI |
| tui | workflow session (`workflows/state.rs`, `app.rs`, `cmd.rs`, `ui/runtime.rs`) | the active draft, run view, run id, control handle; queued effects; one event receiver | open, run, control, leave, review, rerun, receive events | run tasks, history store, route changes |
| tui | run view (`workflows/run/*.rs`) | one row per step, run status | mark rows, offer buttons | session |
| tui | workflow inputs and collector (`workflows/input`, `workflows/collector`) | the selector that waits for values | open, retry, apply, close, receive values | provider values, session |
| tui | command palette (`palette/*.rs`, `cmd.rs`) | input, suggestions, `is_destructive`, pending command and its hash, history | edit, suggest, run, confirm, receive an answer | provider values, command registry, request tasks |
| tui | browser, library, plugins, logs, results views | state of the view | keys and mouse | their engines |
| tui | log persistence | bounded queue to a writer thread | enqueue, rotate | log view |
| mcp | client gateway (`client/gateway.rs`) | active clients, `starting`, `stopping`, config, under a lock each | start, stop, restart, status, call tool | plugin processes, broadcast of events |
| mcp | plugin lifecycle and engine (`plugin/*.rs`) | status per plugin, registry, tool cache, synthetic commands, listener task | start and stop with timeouts, update the configuration, shut down | gateway, command registry, UI |
| mcp | server catalog tools (`server/catalog.rs`) | none beyond the registry and its files | import, patch, configure, enable, remove | command registry |
| mcp | workflow tools (`server/workflow/`) | the workflow files; versions are hashes of them | get, save, delete, rename, run, save and run | engine, registry, one call per request and thread |
| mcp | server host | HTTP sessions | dispatch of tool calls | catalog and workflow tools |
| registry | command registry and catalogs (`models.rs`, `config.rs`, `catalog_persistence.rs`) | catalogs and commands in memory, `registry.json`, manifest files | insert, replace, toggle, configure, remove, load, save | TUI and MCP server, both under one mutex |
| registry-gen | generator of a manifest from an OpenAPI document | none | import, patch, search | registry |
| util, types, api, cli | helpers, declarations, HTTP client, command line | history and preference files | | |

### What is hard about it

- **Commands against steps.** A step blocks the run task; pause, resume and cancel
  are queued meanwhile and looked at only at two places of the loop. A paused run
  waits for a command without a timeout.
- **Channels that break.** Either side may go away: the UI drops the control sender
  in several places, and every new run replaces the one event receiver.
- **Deferred effects.** A key press changes the state at once and queues effects
  that a later tick carries out, view changes before anything else. Between the two,
  run events, answers and provider values change the same state.
- **A session that outlives its view.** Leaving a view may or may not end the
  session, depending on whether a control handle is held.
- **Repeating part of a run.** A rerun executes a subset of the steps over the outputs
  of the others, without the dependencies that lead out of the subset.
- **Plugins.** Starting and stopping a plugin takes several locks one after the
  other, with timeouts that drop a future half way; a listener follows a bounded
  broadcast channel and writes the same statuses as the callers do. The tool cache has a second
  writer, the loads of a plugin's details, which hold a copy of the tools between two locks.
- **Provider values.** A fetch outlives the view that asked for it, two consumers ask for
  the same provider with other arguments, and a cached value expires between two ticks.
- **Answers.** An answer comes back to a palette whose input has changed since; it is told
  apart by a hash of the input, and the spinner counts requests with an atomic counter. Whether an input is
  destructive is looked up when it is typed, in a registry that changes until Enter is pressed.
- **Files that are written in steps.** A catalog lives in memory, in `registry.json` and in its
  own manifest; every write can fail or be cut short, the one that puts a manifest back after
  another failed as well. A save turns secrets in memory into tokens, and back if it succeeds. The TUI
  changes the registry under one lock and saves it under another.
- **A directory shared without a lock.** Workflow files are looked up by scanning and parsing
  all of them, then written, renamed or removed, by several MCP sessions and the TUI at once.

`PROJECT.json` lists these as hazards, each at its line, with the properties that
would catch it going wrong.

### What makes each component correct

- Planner: refuses only what has to be refused; an accepted order has every step once,
  after its dependencies.
- Run: a step executes only after all it depends on succeeded; a cancel is final; a pause
  holds; the result agrees with what was reported; the run ends when it is cancelled or
  abandoned.
- Session: the run under control is the one shown and listened to; control is given up
  only for a reason; a result on screen is true; no run is left waiting for somebody who
  cannot answer.
- Run view and rerun: rows tell what happened; a rerun repeats exactly the failed step
  and what follows from it, loses no output and repeats no success.
- Plugins: every connected client has one owner; starts exclude one another; the registry
  ends up agreeing with the gateway; the shutdown leaves nothing behind.
- Provider values: no key is fetched twice at a time, none stays locked; values are shown
  to the request they belong to; what is loading is waiting for something.
- Catalogs: the commands offered are those of the enabled catalogs; what was reported as
  saved survives; a replacement that fails is undone, in memory but for the header values of other
  catalogs, and on the disk if restoring the manifest file does not fail as well.
- Workflow store: files are whole, whatever fails; what is reported as saved is found, and the
  registry holds it; a save replaces only what it may, and a call touches only its workflow.
- Palette: what the registry called a DELETE when it was typed is asked about first; the spinner
  tells whether something is out; only what was run is remembered.

## The modules

| Module | Models | Notes |
|---|---|---|
| `StepPlanning` | `order_steps_for_execution` | one action per turn of one of its loops |
| `PlanOrder` | the order it returns, as a function | used where the order matters and its computation does not; `planning` checks that the two agree, `OrderOfDeclaration` proves it |
| `WorkflowRun` | `drive_workflow_run` and the executor it calls | task, control channel, event channel, caller |
| `RunLifecycle` | no code: the promise of a run | abstract specification, without channels, loop or events |
| `WorkflowRunRefinement` | | the refinement mapping from `WorkflowRun` |
| `WorkflowSession` | the UI session, its event loop, effects, and run tasks | run tasks are `WorkflowRun`'s cut down to counted steps |
| `WorkflowRerun` | run view rows and reruns | extends `WorkflowRun` and `PlanOrder` |
| `PluginGateway` | `client/gateway.rs`: tasks that start, stop and restart plugins, and the events they broadcast | one action per section under a lock; no specification of its own |
| `PluginEngine` | `plugin/engine.rs`, `plugin/lifecycle.rs`: listener, reload, user actions, shutdown | extends `PluginGateway` |
| `ProviderValues` | the value cache, its fetches, the palette's popup and the collector's selector | fetch tasks and event loop in one module |
| `CatalogRegistry` | the command registry and its files, as the TUI and the MCP server change them | one action per critical section |
| `PaletteExecution` | the palette from typing to the answer, and the request tasks | |
| `WorkflowStore` | the workflow files, the MCP tools on them, import and removal in the TUI | one action per file operation |
| `StepPlanningProofs`, `WorkflowRunProofs`, `WorkflowSessionProofs`, `PluginProofs`, `ProviderProofs`, `CatalogProofs`, `PaletteProofs`, `WorkflowStoreProofs` | | theorems; `WorkflowRunProofs` also holds the refinement |
| `MC*` | | constants for TLC |

### `StepPlanning`

Variables are the locals of the function (`seen_dependencies`, `in_degrees`,
`adjacency`, `queue`, `ordered`), `phase` is the loop it is in, `i` and `j` its
cursors. `IndexStep` fills `lookup`, `AddEdge` checks and counts one dependency,
`SeedQueue`, `PopFront` and `ReleaseChild` are Kahn's algorithm, `Return` compares
lengths. Error messages are left out, and so is the list of the steps in a cycle.

### `WorkflowRun`

`phase` is the place in `drive_workflow_run`: `top` and `after` are the two
`drain_pending_commands`, `waitTop` and `waitAfter` the two `wait_for_resume`,
`prepare` everything from the dependency check to `StepStarted`, `execute` the step.
A workflow carries its steps as `declared` and in the `order` the planner returned.
A step's data is reduced to what control depends on: its output is absent, null or a
value, an `if` or an `until` is a choice of how it comes out, templates are the set of
outputs they mention. `SkipBlocked`, `SkipByCondition`, `FailUnresolved` and `StartStep`
are the four ways out of `prepare`, `RunStep`, `RepeatAgain` and `RepeatEnd` the ways
through `execute`. Each send of the code is an element appended to `events`; when the
receiver is gone, a send that the code checks with `?` ends the run (`aborted`).
`SendCommand`, `DropControl` and `DropEvents` are the caller, unconstrained.

### `WorkflowSession`

`session` is `WorkflowState`, cut down to the draft, whether its inputs are open, the
status in the run view, the run id and the control handle. Key presses (`Navigate`,
`OpenInputs`, `RunActive`, `PressControl`, `ReviewInputs`, `RerunFailed`) change the
session and queue effects; `Tick` takes the queue and puts navigation first
(`handle_navigation_effects`), the other effects following in the order they were queued
in; `DoSwitch`, `DoRunRequested` and `DoRunControl` carry one effect out. `ReceiveEvent` is `process_workflow_run_event` and `apply_run_event`,
`CloseStream` the end of the receiver. The control handle is the only sender of a run's
control channel, so a run has lost its caller exactly when `session.control` is another;
the event receiver is the only one, so a run is heard exactly when `stream` is it.

### `WorkflowRerun`

`WorkflowRun` with the view attached: `ReceiveEvent` applies one event to `rows`,
`shown` and `context`; `Rerun` builds the next request (`Impacted` is
`collect_impacted_steps`, each of whose passes is a `Swept`; `RerunOf` is `build_failed_rerun_state`) and
starts the run task over. `original` and `settled` are history variables the properties speak about.
`Workflows` holds what users run (`Definitions`, as the planner orders them) and what reruns make of it:
`RerunAssumption` says so, and with `RunAssumption` that the planner accepts it all, which
`RerunIsAccepted` proves.

### `PluginGateway` and `PluginEngine`

A task is one call of `start_plugin`, `stop_plugin` or `restart_plugin`, spawned by the autostart, by
the TUI or by the engine (`via`). `pc` stands between two lock sections: `Check` and `Claim`
are the two halves of "Prevent duplicates", `Connect`, `Release`, `Publish` and three sends
the rest of a start; `Take`, `Mark`, `Disconnect`, `AnnounceStopped` and `AnnounceNoTools` a
stop. A client is named by the task that connected it, so that two clients of one plugin are
two things. `TimeOut` is `lifecycle.rs` dropping the future of a task the engine supervises
where it waits for the plugin. `Send` is a broadcast channel: when full, it drops its oldest
event.

`PluginEngine` adds the listener (`Hear` sets the status and the cached tools,
`SynthesizeCommands` is the second half of a tools event, under another lock),
`update_config` from `BeginUpdate` to `EndUpdate` (one action per lock it takes, and per
supervised task it awaits) and the shutdown. The user's actions go to the gateway directly,
as `cmd.rs` sends them. `CopyTools` and `InsertTools` are `load_tool_summaries`, the other writer of the
tool cache, at the two of its three lock sections that matter: what it saw in the cache under the first
is a choice, so the copy of the client's tools is taken whatever the cache has. `load` is what a load
carries between the two. Two history variables: `alone` has the plugins of which no two operations ever
overlapped, `stale` those whose tools a load cached after their client had gone.

### `ProviderValues`

`jobs` counts the fetches of a key at each stage: queued as an effect, fetching in a blocking
task, stored or failed but not finished (the key is still in `inFlight`), and its outcome
waiting for the event loop. `Fetch`, `Finish` and `Expire` are the registry and the clock. The
event loop handles one event at a time: `todo` is the rest of the event at hand, `Lookup` and
`Begin` are a cache lookup that hits or plans a fetch, `ProcessEffects` the effects of a tick;
`ValuesReady` and `FetchFailed` deliver an outcome to the view that is current then. `Edit`,
`Complete`, `SelectFromPalette`, `SelectForInput`, `Retry`, `Apply`, `Close`, `SwitchView` and the like are keys.

### `CatalogRegistry`

`catalogs` and `commands` are the registry in memory, `tokens` the catalogs whose secret header values
are tokens there, `config` is `registry.json`, `files` the manifest files. A command carries `at`, its `catalog_identifier`: the position of its catalog when it
was inserted. `Inserted`, `Disabled`, `Enabled`, `Removed` and `Reindexed` are the operations of
`models.rs`; `SaveDone` and `SaveFailed` every way a save can go, write by write, with the file
torn where the write was cut short and the catalogs it reached tokenized (`Tokenized`); `Loaded` reads what the next process reads, one catalog
after the other from the last to the first (`LoadCatalog` is a turn of that loop).
`InsertAndPersist` and `ReplaceAndPersist` are `catalog_persistence.rs`. Whatever failed in a
replacement, `RollBack` writes the old manifest over the file (`Restored`), fails to (`NotRestored`: the file
stays as the failure left it, or is torn; the code does not notice), or dies on the way. An MCP tool is one action, since it holds the mutex to the end of the
save; a change of the TUI is two (`TuiToggle` and the like, then `TuiSave`), with other
operations in between, and `TuiRefused` when the lock is taken.

### `PaletteExecution`

`offers` is what the command registry has under the words of each input; `ChangeRegistry` is a catalog or
a plugin joining or leaving it. `input`, `flag` and `popup` are the input line, `is_destructive` and the suggestions; `hash`,
`pending` and `saved` what the palette remembers of the command sent last; `queue` holds effects until
`Tick` makes them `batch`, which is carried out one by one: navigation first, then effects in the order
they were queued in. `Enter` asks or queues a run, `Confirm` queues what the confirmation
modal sends back, `Run` and `Refuse` carry a run out with the input *as it is then*. A request is an
element of `tasks`; `Answered` decrements the counter, `Join` is the answer arriving at the loop,
where `Finalize` runs if the palette is on screen with no modal over it and the hash is the
one expected. `Judge` looks an input up in `offers` when it is typed, `Run` when it is carried out. History
variables: `known` says that what is typed was a DELETE when it was typed, `unasked` of an effect that it
runs such an input on Enter alone, `sent` what was sent.

### `WorkflowStore`

`file` and `temp` are the contents of the manifest files and of the temporary files beside them,
`registry` the workflows in memory. `call` is what each agent's tool call holds between two file
operations: its request, the directory as far as it has scanned it (`todo`, `seen`), the text and
the path it writes, the path it removes, its open handle. `Begin` is a request, `List` and `Read`
the scan that every lookup is (`goal` says what for), `Get`, `Save`, `Delete`, `RenameSource` and
`RenameTarget` what is decided from it; `Open` truncates, `Fill` writes, `Commit` renames the temporary file
into place, `Remove` removes, `Publish` puts a scan into the registry; `ResolveInputs` and `Run`
end `workflow_author_and_run` and `workflow_repair_and_rerun`. `workflow_import` is `workflow_save` of what a
file holds. The TUI's calls take the same steps, except that they write in place and that their search
passes over what it cannot read. A handle follows its file when that is renamed (`WithMoved`).
`Fail` is a file operation that fails, `Restart` the death of the process. `requests` is what each agent
may ask, fixed from the start. `over` and `shown`
record what a rename replaced, for the properties; nothing is decided by them.

## The runs

| Run | Bounds | Shows |
|---|---|---|
| `planning` | every declaration of two steps with up to two dependencies each, repeated, unknown and duplicate names included; every graph over three steps; one dependency each over four | `ReturnIsSound` (an accepted declaration repeats no identifier and its order is complete and topological, a refusal is justified), `AgreesWithPlanOrder` |
| `run` | workflows of none to two steps with conditions and repeats, one the planner refuses; dependency graphs over three steps with conditions, templates and seeded outputs; 3 commands, 3 attempts | `CancelIsFinal`, `CompletionIsTruthful`, `AttemptsAccounted`, `DependenciesHonoured`, `PauseHoldsWhileControlled`, `CancelStopsAtTheStep`, `EndIsReached`, `ImplementsLifecycle` |
| `session` | 2 drafts, 2 runs of 2 steps, 3 queued effects, 1 control button | `ControlledRunIsShown`, `ResultShownIsTrue`, `SuccessIsSaved`, `ControlIsKept` |
| `session_live` | 2 drafts, 2 runs of 1 step, 2 queued effects, 1 control button | `NoRunIsStranded`, `CancelComesToAResult` |
| `rerun` | every graph over three steps in three declaration orders, with a condition, with templates and with a step that is repeated (2 attempts); 2 reruns, 1 command | `RowsTellOutcomes`, `RerunScopeIsClosure`, `RerunReadsWhatSucceeded`, `NoSuccessRepeated` |
| `plugins` | one plugin, two versions of its configuration, disabled as well and absent after a reload; 3 tasks, 2 of the user at once, 1 reload, 1 load of details at a time, a channel of 4 | `NoClientIsLost`, `StartIsExclusive`, `RegistryFollowsGateway`, `ShutdownClosesAutostarted` |
| `provider` | two keys of one provider, 1 outcome of a key waiting, 1 expiry | `FetchIsOwned`, `ValuesBelong`, `LoadingIsServed` |
| `provider_live` | one key, the rest as `provider` | `PopupSettles` |
| `catalog` | two titles, one command each in two versions, two settings, one with a secret; 1 operation that fails, its rollback with it, restarts at any time | `CommandsFollowCatalogs`, `SavedSurvives`, `FailedReplaceIsUndone`, `ReplaceSetsPositions` |
| `palette` | a DELETE whose catalog comes and goes and whose headers may be unresolved, an MCP command, the empty input; 2 requests, 2 queued effects | `DeletesAreAsked`, `SpinnerTellsTruth`, `HistoryIsOfRuns` |
| `store` | one agent with every tool, or two that save and rename and the TUI that imports and removes, over 2 identifiers, 2 formats, 2 bodies and 8 directories; 3 calls, 1 failure or death | `ManifestsWhole`, `SuccessIsTrue`, `ReplacesOnlyWhatItMay`, `BodiesSurvive`, `OthersUntouched` |
| `session_paused` | 1 draft, 1 run of 2 steps, 1 control button | violation of `PausedStartsNoStep` |

The type invariants of `WorkflowRun` and `WorkflowStore` are proved, for all constants, and not run.

**Why the bounds are enough.** Three steps hold a chain, a fork, a join and two unrelated
steps, which is all that `dependency_block`, Kahn's queue and the closure tell apart;
four steps with one dependency each add two chains that interleave and cycles of every
length up to four. Three commands are enough for pause, resume and cancel in any order
and for each of them to be ignored. Two drafts and two runs let one run be
superseded by another, which is the case the run ids are there for; a third would only
repeat it. Three queued effects hold the two effects a Run key queues and one before or after
them. Two reruns let a rerun start from a rerun; a third over three steps has a scope one of them had.
Plugins share no state but the locks, and no lock is held across an await: the operations of
one plugin interleave with each other whatever another does, so one plugin is enough, and the
proofs are for any number. Three tasks are an autostart and two operations that overlap it; a
channel of 4 instead of 64 lets the listener lag within these three tasks. One load of details at a
time is enough for a stop, a start or a reload to fall between its copy and its insertion. The plugin is
configured, enabled or disabled, when the program starts (`FirstConfigs`); absent, it can do nothing
before the first reload, and what follows a reload is the same from there.
Two keys are one more than the one the selector waits for; one expiry is what it takes for a value to
be fresh at the lookup and gone at the delivery. Two catalogs are what a wrong position
takes; since a disk that fails once may be left in any state the save can leave it
in, and a restart starts from whatever is there, one failure reaches the torn and the missing
files. `MaxFaults` is the number of failures after which no operation may fail any more: the operation
that fails may fail a second time, when it puts a manifest back. Two requests are one that is answered while another is pending.
In the store, two workflows and two formats hold the twin, the source and the target of a rename,
and a file that comes before another; three calls are a get, a guarded save, and something between or
after them. What the agents may ask is a choice of the initial state (`Workloads`): one agent with every
tool, or three callers with a few requests each. All but `OthersUntouched` are claimed where one agent works alone
(`ToolsOfOne`), because the code does not keep them for two, and `OthersUntouched` says what it does keep.
The counters `commandsSent`, `drafts`, `runs`, `presses`, `reruns`, `updates`, `expiries`, `faults`,
`calls` and `started`, and the number of loads, exist only for these bounds (`MaxCommands`, `MaxDrafts`, `MaxRuns`, `MaxControls`,
`MaxReruns`, `MaxUpdates`, `MaxLoads`, `MaxExpiries`, `MaxFaults`, `MaxCalls`, `MaxRuns` of the palette); `MaxEffects` and
`MaxQueue` bound the queue between two ticks, `MaxTasks` and `MaxInFlight` the plugin tasks, `MaxReady` the
outcomes that wait for the event loop; `Capacity` and `MaxRepeatAttempts` stand for constants of
the code.

**Symmetry** is used where the values are interchangeable (versions of a configuration, keys,
titles, agents) and only in runs of safety properties.

**Deadlock.** A finished run, a refused workflow, a planned order, an engine that has shut down and a
user or an agent who does nothing are states in which the program really may stop; all runs but those of
the catalogs say `CHECK_DEADLOCK FALSE`, and the liveness properties say what must not stop.

**Fairness.** `StepPlanning` is sequential code: weak fairness of `Next`. A run is a Tokio task on
a runtime that polls it, and a command returns or times out: weak fairness of `RunTask`.
The event loop is one `tokio::select!`, which polls its ready branches in random order: weak
fairness of what it does once it has begun, strong fairness of `ReceiveEvent`, and in
`ProviderValues` of `Tick` and of a delivery (they are disabled while another event is handled,
but ready again and again). A provider fetch is a blocking task whose HTTP call times out after 30 seconds:
weak fairness of `Fetch`, strong of `Finish`, which the bound on waiting outcomes can disable
for a while. Nothing is assumed of users and callers: a paused run that nobody resumes waits for
ever, which `NoRunIsStranded` allows only while it is offered to be resumed. The
specifications of plugins, catalogs, the store and the palette state no fairness, since what is claimed of
them is safety; `RegistryFollowsGateway` and `SpinnerTellsTruth` speak of the states in which nothing
is under way.

**Refinement.** `ImplementsLifecycle` says that a run, seen through `WorkflowRunRefinement`'s
mapping, behaves as `RunLifecycle`: a step is running while the task executes it, the result is
known when `RunCompleted` is sent, and a run that lost its listener is abandoned.

## What is proved

Every theorem holds for all values of the constants, from the assumptions the modules name
(`PlanningAssumption`, `RunAssumption`, `RerunAssumption`, `GatewayAssumption`, `EngineAssumption`, `ProviderAssumption`,
`PaletteAssumption`, `StoreAssumption`, `GuardAssumption`, `SessionAssumption`, `ManifestsAssumption`). Each proof is laid out as: the initial state satisfies the invariant, every
action preserves it (one step or lemma per action), the invariant implies the property, and one
temporal step.

`StepPlanningProofs`, of `StepPlanning!Spec`, for declarations of any length over any identifiers:

- `PlanningIsSound`: `Spec => []ReturnIsSound`, that is `OrderIsSound` and `RefusalIsJustified`. The
  invariant (`PlanInv`) says what the bookkeeping of the function means. The recorded edges are
  the dependencies looked at so far, one for each (`EdgeInv`). The in-degree of a step is the number
  of the steps it waits for, a set defined from the edges and the order (`CountInv`). The
  ordered steps followed by the queued ones form one line: nobody stands in it twice, and everybody
  stands behind all it depends on (`LineInv`); `PopFront` does not change the line. In it stand exactly
  the steps that wait for nothing (`QueueInv`). Hence an order as long as the declaration is
  complete, since the identifiers are distinct (`AsManyAsDeclared`, `AsLongAsItsElements`), and
  otherwise each step left out waits for another one left out: the cycle.
- `OrderOfDeclaration`: `Spec => []AgreesWithPlanOrder`, that is, the order returned is a function of the
  declaration, `PlanOrder`. `OrderInv` follows the turns of the loop: after each, what is
  ordered and queued is what `Turns` has after as many turns (`PopStartsTurn`, `ReleaseGoesOn`,
  `TurnIsDone`). The dependents of a step stand in `adjacency` in the order they are declared in, since
  the edges are read in that order (`DependentsRanked`), so those a turn frees join in that order, and
  there is only one such sequence of given elements (`RankedIsUnique`). That the recursive functions of
  `PlanOrder` have a value is proved as well (`AmongRuns`, `TurnsRun`).

`WorkflowRunProofs`, of `WorkflowRun!Spec`; `RunAssumption` says that the workflows are well formed
and that the order of an accepted one is sound, which `PlanningIsSound` establishes of the planner:

- `TypeCorrect`: `Spec => []TypeOK`. The invariant is `TypeInv`, which adds that a run not
  yet begun stands at its first step; without it, entering the loop could not be shown to have a
  step at hand.
- `CancelSafety`: `Spec => []CancelIsFinal`. `CancelInv` says where the run can be once a cancel was
  announced, namely on its way out (draining, waiting to leave, or completing), that
  an accepted cancel and an announced one are the same, and that a run that has ended adds
  nothing. `CancelIsFinal` alone is not inductive: it does not say that the loop is left.
- `DependencySafety`: `Spec => []DependenciesHonoured`. `DependencyInv` adds that `status` never says
  Succeeded of a step whose success was not reported (`Reported`), so that the check of `status` in
  `dependency_block` is a check of the event stream.

- `ProgressInvariant`: `Spec => []ProgressInv`, how far a run is: what was planned runs, the steps
  before the cursor are settled and no others, `anyFailed` agrees with their statuses, a cancel
  leaves the loop, and the stream is empty exactly before the run begins.
- `CompletionSafety`: `Spec => []CompletionIsTruthful`. `RecordInv` says that while the run is under
  way what it remembers (a cancel, a failure, a settled step) is exactly what it has said, and that
  `RunCompleted` is not said before the end; with `ProgressInv` the last event can then only be true.
- `PauseSafety`: `Spec => PauseHoldsWhileControlled`. The property speaks of the last status announced,
  the code of its flag `paused`: `StatusSaid` ties the two in the loop, and `PauseInv` says that a run
  about to start a step is not paused unless nobody is left to resume it.
- `CancelStops`: `Spec => CancelStopsAtTheStep`, a property with a `[]` inside a `[]`. `LettingGo` is closed under
  steps: from a step executing with a cancel in the channel, the run only finishes that step,
  drains and completes.
- `AttemptSafety`: `Spec => []AttemptsAccounted`. `AttemptInv` counts the attempts announced for the step at
  hand, none for a step not yet reached, and bounds them by the limit before the last.
- `RunImplementsLifecycle`: `Spec => ImplementsLifecycle`. Each action is shown to be one step of
  `RunLifecycle` under the mapping, or a stutter (one lemma per action). The mapping reads the result
  and the running step from the place the task is at, so the proof needs `ProgressInv`.

The module also proves what `WorkflowRerun!RerunSpec` promises, for any workflows and any number of reruns.
`RerunInv`, checked by TLC before it was proved, has four parts: the task under the view, which takes
`WorkflowRun`'s own steps (`TaskStays`) or is a new run (`CreatedTask`); the view; what is remembered over
reruns; their scope. A step of the task is one of three kinds (`StepKinds`): it starts the step at hand, settles it,
or is an aside that does neither.

- `RowsSafety`: `RerunSpec => []RowsTellOutcomes`. The stream tells each settled step's outcome, a start stands at
  its place in the plan and never after the end of the same step (`StreamInv`). So a row shows what has been heard
  of its step (`ViewInv`), and a view that shows a result has heard everything (`ShownOver`).
- `ScopeSafety`: `RerunSpec => []RerunScopeIsClosure`. `ImpactedIs` says that as many passes as there are steps
  find the least closed set around a step, for a declaration of any length: a pass that finds nothing has
  found a closed set, and the others make the set larger. `ScopeInv` carries this over reruns of reruns: the scope is
  closed in the workflow first run, and has its dependencies among itself.
- `ReadSafety`: `RerunSpec => []RerunReadsWhatSucceeded`, and `NoRepetition`: `RerunSpec => NoSuccessRepeated`. A step that
  succeeded had all it depends on succeed (`StepsInv`), so the steps that have not are closed under dependents, and
  what is impacted by a failed step is among them (`ImpactedHasNotSucceeded`). The others' outputs were heard
  before the rerun could be asked for, so the context has them (`RerunKeepsHistory`).
- `RerunIsAccepted`: the planner accepts what a rerun makes of a workflow it has accepted, whichever step failed and
  whatever was read. `PlanOrderIs` says that `PlanOrder` orders every step of a declaration without a cycle: after each turn
  the steps ordered or queued are those that wait for nothing else (`TurnFits`, kept by `TurnedFits`), so an empty queue
  means that all are ordered, and of those left out the one of least rank would have been queued. The rank of a step in a
  rerun is its place in the plan before.

`WorkflowSessionProofs`, of `WorkflowSession!Spec`, for any number of drafts, runs and steps:

- `SessionInvariant`: `Spec => []SessionInv`, from which the next three follow (`ControlSafety`:
  `ControlledRunIsShown`; `ResultSafety`: `ResultShownIsTrue`; `HistoryOfSuccess`: `SuccessIsSaved`). What a
  result is worth is carried from the task (`TaskInv`) over the events it sent (`EventInv`) to the screen
  (`ScreenInv`), so a late event of an earlier run cannot lie. `RequestInv` says that at most one run is
  requested, in one of the two queues, and that the switch to its view is ahead of it: without that a
  request could be carried out under another view. `ControlInv` is what a controlled run needs to stay the
  one on screen; its `EndIsSaid` says that the end of a run that is over is on its way in the stream.
- `ControlIsNotLost`: `Spec => ControlIsKept`, from the same invariant.

The step of a run task is reduced to what the others see of it (`TaskStep`), so that its phases are
looked at once.

`PluginProofs`, of `PluginEngine!Spec`, for any number of plugins, tasks and configurations:

- `TaskTyping`: tasks and the engine's own work keep their types, and a task that was spawned has a
  plugin (`TaskTypes`).
- `StartSafety`: `Spec => []StartIsExclusive`, which is inductive over `TaskTypes`. A step of a task changes the marks of its own
  plugin only, and the other actions none (`OtherStepsKeepMarks`, `SpawnKeepsMarks`).
- `ClientSafety`: `Spec => []NoClientIsLost`. `ClientInv` adds `HandsAreFull`: a task that is about to publish or to
  disconnect has a connected client to do it with. Without it, the client a task publishes could be
  one that is closed. `FewClientsChange` reduces a step to the one or two clients it touches.
- `ShutdownSafety`: `Spec => []ShutdownClosesAutostarted`. `ShutdownInv` follows the shutdown: it begins only when
  everything was autostarted, no autostart task runs once they are joined, and a client that becomes
  active after the drain is one the user asked for.
- `RegistrySafety`: `Spec => []RegistryFollowsGateway`. The property speaks of the states in which nothing is
  under way, so `RegistryInv` has to say what the registry will be: `WillRun` and `WillCache` read the
  status and the tools off the events of a plugin still on the bus, after what the registry holds now, and
  `PluginFits` ties them to the place of the plugin's task (`TaskFits`), to its client (`ClientFits`), to a tools
  event half handled (`ListingFits`) and to a reload (`ReloadFits`). It holds for plugins in `alone`, without
  lost events: two operations that overlap can announce themselves in the other order. A load of details
  writes the cache at any moment: what it inserts is either what the client has, which fits, or it
  makes the plugin `stale` until the next tools event or reload (`LoadFits`).

`ProviderProofs`, of `ProviderValues!Spec`:

- `FetchSafety`: `Spec => []FetchIsOwned`. `FetchInv` adds that every count is a natural number;
  `OwnersFollow` says what moving a job from one stage to another does to the number of owners.
- `ValuesSafety`: `Spec => []ValuesBelong`, and `LoadingSafety`: `Spec => []LoadingIsServed`, by one invariant
  (`ConsumerInv`). `WaitInv` adds to the two that a selector awaits no key but its own and that a lookup
  that missed is still the first thing the event loop has to do. Between the miss and the fetch it plans,
  nothing else serves the selector, and without the latter conjunct it could wait for ever.

`CatalogProofs`, of `CatalogRegistry!Spec`, for any number of catalogs, manifests and failures. All four are about
catalogs that are apart (`CatalogsAreApart`: no two titles share a command name), the first by its own
statement, the others as a hypothesis; commands are withdrawn by name, and the properties are false
without it:

- `CommandsSafety`: `Spec => []CommandsFollowCatalogs`, `SavedSafety`: `[]SavedSurvives`, `RollBackSafety`:
  `FailedReplaceIsUndone`, `PositionSafety`: `ReplaceSetsPositions`. The invariant (`RegistryInv`) says that the
  registry in memory is `Sound` (each title once, the commands offered are those of the enabled catalogs), that what is on the disk
  can be loaded, torn or not (`FilesFit`, `ConfigFits`), and that after an operation that answered "ok" the
  disk holds the catalogs as they are and memory no token (`Saved`). Each operation of `models.rs` has a lemma saying that it takes a
  sound registry to a sound one (`InsertIsSound`, `DisableIsSound`, `RemoveIsSound`, `ReindexIsSound`, ...), each way an
  operation can end another (`SaveAsKeeps`, `RebootKeeps`, `ReplaceKeeps`), so an action is one or two citations.
- A restart runs a loop over catalogs of any number. `LoopKeeps` (what every turn keeps holds after
  every turn) rests on the least turn at which it would not (`LeastNumber`, from `WFMin`); with it
  `LoadIsSound` says that whatever the disk holds a sound registry is loaded, although the walk swaps catalogs
  while it goes, and `LoadIsSame` that what was saved is loaded again. `LoopRuns` is the existence of the
  loop's function.
- A replacement that is undone ends with `Append(RemoveAt(catalogs, i), catalogs[i])` (`RollBackIsSound`, `TakeBack`): the same catalogs
  in another order, hence the same commands (`ServedByThoseThere`). Its header values are those of before: of the
  tokens a failed save left, its own go with the new catalog (`RollBackDoes`). Its manifest file is the one there
  was if restoring it did not fail: the count of failures tells the two apart (`FailuresAreCounted`). Restored
  or not, what is on the disk can be loaded (`RestoredFits`, `NotRestoredFits`, `RollBackKeeps`).

`PaletteProofs`, of `PaletteExecution!Spec`:

- `HistorySafety`: `Spec => []HistoryIsOfRuns`. `OnlyRunsAreKept` adds that what is pending was
  sent, too: an answer saves what is pending, not what it is the answer of.
- `DeleteSafety`: `Spec => []DeletesAreAsked`, for a registry that changes at any time. `AskedInv` is
  about what is still typed and what may still be sent: the flag is up while what is typed was known to be a
  DELETE when it was typed (`TypedTells`), so that Enter asks, and of such an input no effect in the two
  queues runs it but one that was confirmed. It needs nothing of the registry after the typing.
- `SpinnerSafety`: `Spec => []SpinnerTellsTruth`. `SpinnerInv` says that the count that keeps the spinner turning is the
  number of requests under way, when everything can be sent; a new request has a number of its own
  (`FreshId`), so that one more and one fewer are exactly that (`OneMore`, `OneFewer`).

`WorkflowStoreProofs`, of `WorkflowStore!Spec`, for any number of agents, workflows and formats:

- `StoreTyping`: `Spec => []TypeOK`. `TypeInv` adds that a call that has begun has a request, a
  text and a path, and that one that will remove a file knows which (`Shaped`).
- `CallsKeepToTheirWorkflows`: `Spec => OthersUntouched` if the directory starts with files named after their
  workflows (`NamedAfterWorkflows`). `NameInv` says that files stay so, and that a call's path, source,
  handle and scan bear the name of a workflow the call is about. A rename of a shared temporary file
  and a handle that moves along with it keep this (`CommitNames`, `MovedNamed`), since both are named
  after their target. What a lookup answers depends only on the files of that name (`AnswerOfNamed`).
- For one agent that works alone: `WholeManifests` (`Spec => []ManifestsWhole`), `TruthOfSuccess` (`Spec => []SuccessIsTrue`) and, if the directory
  starts with files named after their workflows, `ReplacingSafety` and `BodySafety`
  (`Spec => []ReplacesOnlyWhatItMay` and `Spec => BodiesSurvive`). `SoleInv` says where a call can stand between two file operations,
  in the order they are made in: what it aims at (`AimFits`), what its scan has seen is what is there
  (`ScanFits`), what is in its temporary file (`TempFits`), what it is about to put or has put in place (`WorkFits`), the
  file a rename leaves (`SourceFits`) and the right it has to replace something (`RightFits`). One lemma per step says
  that a call that fits still does.

## What is only model-checked

Liveness (`EndIsReached`, `NoRunIsStranded`, `CancelComesToAResult`, `PopupSettles`) is out of the prover's reach,
as is what depends on `ENABLED`.

No invariant and no action property of a run is only model-checked. What the theorems about runs assume of
the workflows is itself proved: that the order of an accepted one is sound (`RunAssumption`) by `PlanningIsSound`, that
reruns are accepted (`RerunAssumption`) by `RerunIsAccepted`. The link is by reading: `StepPlanning` and `WorkflowRun` have
variables of the same names, and no module composes the two.

## Where code and documentation disagree

One statement of a comment is not what the code does, in a run that TLC finds violated
(`PROJECT.json`, `findings`):

- **A paused run may go on** (`session_paused`). A step that fails while a pause is waiting in
  the channel makes the UI drop the control handle; the run sees that no sender is left and
  continues, paused. `types/src/workflow.rs:532` says that no new steps will start.

Seen while modelling, not stated as a property:

*Workflows*

- Review inputs opens empty: the session prepared for the review is ended by the exit handler of
  the run view it is opened from (`app.rs:757`).
- `StepStarted.index` is the position in the planned order, though `types/src/workflow.rs:593`
  says in the definition, and the run view marks another step's row as running; `RowsTellOutcomes`
  is therefore about workflows declared in the order they run in. Such a row can hide a failed
  step, and the rerun is then not offered.
- A rerun drops dependencies on steps outside its scope, also on steps that failed
  (`app.rs:799`), though `executor/types.rs:16` says that they must complete successfully before.
  It succeeds when the steps in its scope do, even if another step failed and is not in it.
- After a step has failed the run is no longer `is_running`, so leaving the run view ends the session
  of a run that goes on (`workflows/state.rs:244`), although the comment above says the session
  is retained; it has the same cause as the first finding.
- `app.rs:602` saves the history of a run that completed with the inputs of the draft at hand, before it
  looks whether the event belongs to the session; after a new draft is opened these are another's.
- The run view keeps `null` as the output of a skipped step, the engine keeps none; a rerun is seeded
  from the former.

*Plugins*

- A second start may connect a second client although `gateway.rs:145` says "Prevent duplicates":
  between its two locks the first start can publish. The first client is then closed
  (`NoClientIsLost` holds); what it had announced stays.
- Where operations of one plugin overlap, registry and gateway can disagree until the next one;
  so they can after a lagging listener lost an event, and after a stop that timed out, which leaves
  the status and the cached tools as they were. `RegistryFollowsGateway` says so in its conditions.
- Loading a plugin's details while it is stopped can leave the tools of the stopped plugin in the
  cache: `load_tool_summaries` (`engine.rs:485`) copies them, lets go of the client and inserts them when the
  empty tools event has been handled. They stay until the next tools event or reload
  (`stale`; `RegistryFollowsGateway` excepts them), and the details show them.
- A start that timed out leaves its name in `starting`, and no later start gets past `Claim`.
  The timeouts are those of the lifecycle manager, which only `update_config` goes through: the TUI
  acts on the gateway, and `engine.restart_plugin` has no caller in it.
- `update_config` clears `synthetic_specs` (`engine.rs:442`) before the listener handles the empty
  tools event of the stop; the commands of the stopped plugin are then never removed from the
  registry, though `specs/PLUGINS.md:19` says they are.

*Provider values*

- A failure that is delivered while another view is current leaves the selector loading
  (`LoadingIsServed` excepts it), and so does a retry that comes back empty over earlier rows.
- A failure names no key: it marks whichever selector is waiting. The inputs view takes
  "Provider fetch failed" for a failed file read while a file is being picked by hand.
- `reduce_clear_all` does not reset `provider_loading`; the selector compares the provider id as
  written with the canonical one; a fetch that panics would leave its key locked; a provider
  that keeps failing is asked again at every tick while its popup is open under a modal.

*Catalogs*

- `remove_catalog` moves the catalogs behind the removed one up, and their commands keep the old
  position (`models.rs:338`): their base URL and headers are those of another catalog, or none, until the
  next replacement or restart, though `models.rs:183` promises those of the command's own.
  `CommandsKnowTheirCatalog` says what they should be, and `ReplaceSetsPositions` that a replacement heals it.
- An unreadable manifest is taken out of the list with `swap_remove` at the next start, which moves the last
  catalog to its place; `catalog` covers it.
- Two catalogs with commands of one name withdraw each other's (`CatalogsAreApart` excludes it),
  and two titles of one snake case share a manifest file.
- Removing a catalog in the TUI whose manifest file is missing fails after the catalog has left the memory,
  and is not saved. A failed insert is not rolled back. A torn `registry.json` loads as an empty registry, and the next save
  overwrites it.
- `restore_manifest_backup` (`catalog_persistence.rs:152`) truncates and writes the file, also when only the temporary
  file failed and the file is intact, and ignores the error: a rollback can tear the manifest it should
  restore, or leave the new one. A file that could not be read has no backup and is not restored.
  The answer is the same "failed" each time. `FailedReplaceIsUndone` excepts a second failure.
- A save that fails leaves the header values of the catalogs it reached tokenized in memory (`config.rs:35`, expanded
  only after a success): until a save succeeds or the program restarts, requests of these
  catalogs are sent with the tokens. A replacement that is undone puts back the values of its own catalog only.

*Workflow store*

- Two saves of one version may both succeed: `expected_version`, the "optimistic concurrency version" of
  `tools/types.rs:84`, is compared at the lookup, and the file is written later.
- A save may replace a file without `overwrite`: the code asks whether the identifier exists,
  `tools/types.rs:82` whether the target file does. A file put there by hand under another name is
  replaced; hence `NamedAfterWorkflows`.
- A repair may run what it repaired: saved in YAML, the default, the repaired workflow lies behind the JSON file
  that was there, which is found and run, though `orchestration.rs:163` says "Validate, persist, and
  execute a repaired workflow manifest". `SuccessIsTrue` excepts a file that comes before.
- The registry may miss a saved workflow: `sync.rs:16` scans the directory before it takes the lock, and
  the older of two scans may be published last.
- Two calls that write one workflow in one format share its temporary file: one may rename what the
  other has not finished, so that a file is torn until that other ends, and the other then fails.
- One file that does not parse, or is gone between listing and reading, fails every lookup and
  every synchronization. The TUI writes in place and can leave such a file.
- A rename that cannot remove its source answers with an error and leaves both files, and the registry
  as it was.

*Palette*

- The confirmation names the input at Enter; what is run is the input when the effect is carried
  out, up to a tick later.
- `is_destructive` is judged when an input is typed and left as it was when the registry is locked at that
  moment, has no such command, or one that is no HTTP command (`palette/state.rs:387`). A DELETE typed
  while its catalog is disabled, and run once the library or an MCP tool has enabled it, is sent
  without being asked about. `DeletesAreAsked` speaks of what the registry called a DELETE when it was typed.
- Enter pressed twice before the tick runs the command twice, and so does a double Confirm. An answer
  clears what is being typed meanwhile, and is dropped if a modal or another view is up. The hash is
  set even when the confirmation is called off.
- A request whose base URL or headers are unresolved never decrements `active_exec_count`
  (`cmd.rs:1190`), and its status 218 counts as a success: it is saved in the history and the spinner stays.
- The answer of one command arriving while another is pending saves the other one.

## Not modelled

The map covers about 5 400 of 69 000 lines. The rest is mostly code a state machine says nothing about: rendering
and layout, parsing and validating documents and arguments, formatting, search, the generator,
command-line handling, HTTP and process I/O. It is sequential, and tested as
such; the models take its results as a choice of outcomes. In particular:

- **Data**: the values in templates, conditions and bindings (a choice of how they come out), request and
  response bodies, header values and secrets (of a catalog, only whether memory has the tokens), hash collisions, provider contracts.
- **Rest of the UI**: log view, library, browser, plugin editor, results, theme and focus;
  of the palette the choice and layout of suggestions; of the collector the filter and the table.
- **Log persistence**: a queue of one writer thread, whose loss of lines when full is intended.
- **Rest of the workflow tools**: validation, previews and exports, which change no state of the program;
  task-backed runs; the import of a workflow by the CLI, another process on the same directory.
- **Synchronous execution** (`execute_plan.rs`) runs the same planner and steps without channels.
- **Plugin transports, OAuth, logs of a plugin, health counters**: external processes and counters nothing
  is decided by.
- **Crashes of the process** in the middle of a run or a plugin: neither is persisted, so a restart
  starts afresh. For catalogs and workflow files they are modelled.

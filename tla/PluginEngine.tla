---------------------------- MODULE PluginEngine ----------------------------
(***************************************************************************)
(* The plugin engine over the gateway: the listener that turns broadcast   *)
(* events into registry statuses, cached tools and synthetic commands, the *)
(* reload of the configuration, which stops and restarts plugins through   *)
(* the lifecycle manager, the actions of the TUI, which go to the gateway  *)
(* directly, the loads of a plugin's details, which fill the tool cache    *)
(* beside the listener, and the shutdown.                                  *)
(* Source: src/crates/mcp/src/plugin/engine.rs, plugin/lifecycle.rs,       *)
(* plugin/registry.rs, src/crates/tui/src/cmd.rs, src/crates/cli/src/main.rs. *)
(***************************************************************************)
EXTENDS PluginGateway

CONSTANTS
    Configs,      \* the configurations a reload may install
    FirstConfigs, \* those of them the program may start with
    MaxUpdates,   \* bound on reloads
    MaxInFlight,  \* bound on the tasks the user has in progress at once
    MaxLoads      \* bound on the loads of details that hold tools at once

ASSUME EngineAssumption ==
    /\ Configs \subseteq [Plugins -> Entries] /\ FirstConfigs \subseteq Configs
    /\ MaxUpdates \in Nat /\ MaxInFlight \in Nat /\ MaxLoads \in Nat

VARIABLES
    status,      \* PluginRegistry: the status of each plugin, "absent" if not registered
    cache,       \* tool_cache: the version whose tools are cached, or "none"
    specs,       \* synthetic_specs: the version whose commands were inserted last
    commands,    \* the shared command registry: versions with commands, by plugin
    hearing,     \* the tools event the listener is in the middle of
    autostart,   \* plugins that gateway.start has still to spawn
    eng,         \* the engine's own work: a reload or the shutdown
    updates,     \* counts reloads up to MaxUpdates
    alone,       \* the plugins of which no two operations ever overlapped
    load,        \* the loads of plugin details that hold tools not yet cached
    stale        \* the plugins whose tools a load cached after their client had gone

engineVars == <<status, cache, stale, specs, commands, hearing, autostart, eng, updates, alone>>
vars == <<gatewayVars, engineVars, load>>

NoEvent == Event("none", "none", "none")
Idle == [pc |-> "idle", todo |-> {}, restart |-> {}, plugin |-> "none", task |-> 1]
Registered(p) == status[p] # "absent"
Enabled(c) == {p \in Plugins : c[p] \in Versions}
ToolsOf(p) == IF active[p] = None THEN "none" ELSE task[active[p]].version
Loads == 1 .. MaxLoads
NoLoad == [plugin |-> "none", version |-> "none"]

\* After prepare_registry: every configured plugin is registered as stopped,
\* the listener is subscribed, and gateway.start has a snapshot of the
\* configuration to spawn the enabled plugins from.
Init ==
    /\ GatewayInit
    /\ config \in FirstConfigs
    /\ status = [p \in Plugins |-> IF config[p] = "absent" THEN "absent" ELSE "Stopped"]
    /\ cache = [p \in Plugins |-> "none"]
    /\ specs = [p \in Plugins |-> "none"]
    /\ commands = [p \in Plugins |-> {}]
    /\ hearing = NoEvent
    /\ autostart = Enabled(config)
    /\ eng = Idle
    /\ updates = 0
    /\ alone = Plugins
    /\ load = [l \in Loads |-> NoLoad]
    /\ stale = {}

-----------------------------------------------------------------------------
(* Spawning tasks *)

Spawn(p, op, via) ==
    /\ FreeTasks # {}
    /\ task' = Spawned(NextTask, p, op, via)
    /\ alone' = IF \E t \in Tasks : Running(t) /\ task[t].plugin = p THEN alone \ {p} ELSE alone
    /\ UNCHANGED <<config, active, starting, stopping, conn, bus, listening, lagged>>

Autostart ==
    /\ \E p \in autostart : Spawn(p, "start", "autostart") /\ autostart' = autostart \ {p}
    /\ UNCHANGED <<status, cache, stale, specs, commands, hearing, eng, updates>>

\* spawn_execute_plugin_action for a plugin of the list.  The event loop does
\* nothing else while a reload is awaited.
UserAction ==
    /\ eng.pc = "idle" /\ autostart = {}
    /\ Cardinality({t \in Tasks : Running(t)}) < MaxInFlight
    /\ \E p \in Plugins, op \in {"start", "stop", "restart"} :
           Registered(p) /\ Spawn(p, op, "user")
    /\ UNCHANGED <<status, cache, stale, specs, commands, hearing, autostart, eng, updates>>

Task == \E t \in Tasks : TaskStep(t) /\ UNCHANGED engineVars

-----------------------------------------------------------------------------
(* The status listener *)

StatusOf(type) ==
    [Starting |-> "Starting", Started |-> "Running", StartFailed |-> "Error",
     Stopping |-> "Stopping", Stopped |-> "Stopped"][type]

\* set_plugin_status fails, with a warning, for a plugin that is not registered.
HearStatus(e) ==
    /\ status' = IF Registered(e.plugin) THEN [status EXCEPT ![e.plugin] = StatusOf(e.type)] ELSE status
    /\ UNCHANGED <<cache, stale, hearing>>

KeepCachedTools(e) ==                                             \* mutant
    /\ cache' = IF e.version = "none" THEN cache ELSE [cache EXCEPT ![e.plugin] = e.version]
    /\ stale' = stale \ {e.plugin}
    /\ hearing' = e
    /\ UNCHANGED status

CacheTools(e) ==
    /\ cache' = [cache EXCEPT ![e.plugin] = e.version]
    /\ stale' = stale \ {e.plugin}
    /\ hearing' = e
    /\ UNCHANGED status

Hear ==
    /\ listening /\ bus # <<>> /\ hearing = NoEvent
    /\ bus' = Tail(bus)
    /\ IF Head(bus).type = "ToolsUpdated" THEN CacheTools(Head(bus)) ELSE HearStatus(Head(bus))
    /\ UNCHANGED <<config, active, starting, stopping, conn, task, listening, lagged>>
    /\ UNCHANGED <<specs, commands, autostart, eng, updates, alone>>

\* The other half of a tools event, under the lock of the synthetic specs: new
\* commands are inserted, and an empty list removes those recorded for the plugin.
SynthesizeCommands ==
    LET p == hearing.plugin v == hearing.version IN
    /\ hearing # NoEvent
    /\ commands' = [commands EXCEPT ![p] = IF v = "none" THEN @ \ {specs[p]} ELSE @ \cup {v}]
    /\ specs' = [specs EXCEPT ![p] = v]
    /\ hearing' = NoEvent
    /\ UNCHANGED <<gatewayVars, status, cache, stale, autostart, eng, updates, alone>>

-----------------------------------------------------------------------------
(* load_tool_summaries, for get_plugin_detail and list_plugins *)

\* A load that found no tools in the cache copies those of the client and lets
\* go of it.  It looked at the cache under a lock of its own, perhaps before
\* anything was cached, so that what the cache has by now does not matter.
CopyTools(l) ==
    /\ load[l] = NoLoad
    /\ \E p \in Plugins :
           /\ active[p] # None
           /\ load' = [load EXCEPT ![l] = [plugin |-> p, version |-> ToolsOf(p)]]
    /\ UNCHANGED <<gatewayVars, engineVars>>

\* The copy goes into the cache, whatever became of the client since.
InsertTools(l) ==
    LET p == load[l].plugin v == load[l].version IN
    /\ load[l] # NoLoad
    /\ cache' = [cache EXCEPT ![p] = v]
    /\ stale' = IF v = ToolsOf(p) THEN stale \ {p} ELSE stale \cup {p}
    /\ load' = [load EXCEPT ![l] = NoLoad]
    /\ UNCHANGED <<gatewayVars, status, specs, commands, hearing, autostart, eng, updates, alone>>

Load == \E l \in Loads : CopyTools(l) \/ InsertTools(l)

-----------------------------------------------------------------------------
(* update_config *)

Proceed(pc) == eng' = [eng EXCEPT !.pc = pc]

\* The engine awaits a task it supervises: the status is set only on success.
Awaited(st, next) ==
    /\ ~Running(eng.task)
    /\ status' = IF task[eng.task].pc = "done" /\ Registered(eng.plugin)
                 THEN [status EXCEPT ![eng.plugin] = st] ELSE status
    /\ Proceed(next)
    /\ UNCHANGED <<gatewayVars, cache, stale, specs, commands, hearing, autostart, updates, alone>>

BeginUpdate ==
    /\ eng.pc = "idle" /\ autostart = {}
    /\ updates < MaxUpdates
    /\ Cardinality(FreeTasks) >= 2 * Cardinality(Plugins)
    /\ updates' = updates + 1
    /\ eng' = [Idle EXCEPT !.pc = "stopNext", !.todo = {p \in Plugins : Registered(p)}]
    /\ UNCHANGED <<gatewayVars, status, cache, stale, specs, commands, hearing, autostart, alone>>

StopNext ==
    /\ eng.pc = "stopNext"
    /\ \E p \in eng.todo :
           /\ Spawn(p, "stop", "engine")
           /\ eng' = [eng EXCEPT !.pc = "stopWait", !.todo = @ \ {p}, !.plugin = p, !.task = NextTask,
                                 !.restart = IF status[p] = "Running" THEN @ \cup {p} ELSE @]
    /\ UNCHANGED <<status, cache, stale, specs, commands, hearing, autostart, updates>>

StopAwaited == eng.pc = "stopWait" /\ Awaited("Stopped", "stopNext")

ClearCache ==
    /\ eng.pc = "stopNext" /\ eng.todo = {}
    /\ cache' = [p \in Plugins |-> "none"] /\ stale' = {}
    /\ Proceed("clearSpecs")
    /\ UNCHANGED <<gatewayVars, status, specs, commands, hearing, autostart, updates, alone>>

ClearSpecs ==
    /\ eng.pc = "clearSpecs"
    /\ specs' = [p \in Plugins |-> "none"]
    /\ Proceed("install")
    /\ UNCHANGED <<gatewayVars, status, cache, stale, commands, hearing, autostart, updates, alone>>

InstallConfig ==
    /\ eng.pc = "install"
    /\ config' \in Configs
    /\ Proceed("rebuild")
    /\ UNCHANGED <<active, starting, stopping, conn, task, bus, listening, lagged>>
    /\ UNCHANGED <<status, cache, stale, specs, commands, hearing, autostart, updates, alone>>

\* registry.clear and sync_registry.
RebuildRegistry ==
    /\ eng.pc = "rebuild"
    /\ status' = [p \in Plugins |-> IF config[p] = "absent" THEN "absent" ELSE "Stopped"]
    /\ Proceed("startNext")
    /\ UNCHANGED <<gatewayVars, cache, stale, specs, commands, hearing, autostart, updates, alone>>

StartNext ==
    /\ eng.pc = "startNext"
    /\ \E p \in eng.restart \cap Enabled(config) :
           /\ Spawn(p, "start", "engine")
           /\ eng' = [eng EXCEPT !.pc = "startWait", !.restart = @ \ {p}, !.plugin = p, !.task = NextTask]
    /\ UNCHANGED <<status, cache, stale, specs, commands, hearing, autostart, updates>>

StartAwaited == eng.pc = "startWait" /\ Awaited("Running", "startNext")

EndUpdate ==
    /\ eng.pc = "startNext" /\ eng.restart \cap Enabled(config) = {}
    /\ eng' = Idle
    /\ UNCHANGED <<gatewayVars, status, cache, stale, specs, commands, hearing, autostart, updates, alone>>

Update ==
    \/ StopNext \/ StopAwaited \/ ClearCache \/ ClearSpecs \/ InstallConfig
    \/ RebuildRegistry \/ StartNext \/ StartAwaited \/ EndUpdate

-----------------------------------------------------------------------------
(* engine.stop and gateway.stop, once the TUI has returned *)

\* The listener is aborted before the gateway is stopped.
BeginShutdown ==
    /\ eng.pc = "idle" /\ autostart = {}
    /\ eng' = [eng EXCEPT !.pc = "join"]
    /\ listening' = FALSE /\ bus' = <<>> /\ hearing' = NoEvent
    /\ UNCHANGED <<config, active, starting, stopping, conn, task, lagged>>
    /\ UNCHANGED <<status, cache, stale, specs, commands, autostart, updates, alone>>

DrainAtOnce ==                                                    \* mutant
    /\ eng.pc = "join"
    /\ eng' = [eng EXCEPT !.pc = "close", !.todo = {active[p] : p \in Plugins} \ {None}]
    /\ active' = [p \in Plugins |-> None]
    /\ UNCHANGED <<config, starting, stopping, conn, task, bus, listening, lagged>>
    /\ UNCHANGED <<status, cache, stale, specs, commands, hearing, autostart, updates, alone>>

\* The autostart tasks are joined, then the active clients are drained.
Drain ==
    /\ eng.pc = "join"
    /\ \A t \in Tasks : task[t].via = "autostart" => ~Running(t)
    /\ eng' = [eng EXCEPT !.pc = "close", !.todo = {active[p] : p \in Plugins} \ {None}]
    /\ active' = [p \in Plugins |-> None]
    /\ UNCHANGED <<config, starting, stopping, conn, task, bus, listening, lagged>>
    /\ UNCHANGED <<status, cache, stale, specs, commands, hearing, autostart, updates, alone>>

CloseNext ==
    /\ eng.pc = "close"
    /\ \E c \in eng.todo :
           /\ stopping' = stopping \cup {task[c].plugin}
           /\ conn' = [conn EXCEPT ![c] = "closed"]
           /\ eng' = [eng EXCEPT !.todo = @ \ {c}, !.restart = @ \cup {task[c].plugin}]
    /\ UNCHANGED <<config, active, starting, task, bus, listening, lagged>>
    /\ UNCHANGED <<status, cache, stale, specs, commands, hearing, autostart, updates, alone>>

EndShutdown ==
    /\ eng.pc = "close" /\ eng.todo = {}
    /\ stopping' = stopping \ eng.restart
    /\ eng' = [Idle EXCEPT !.pc = "halted"]
    /\ UNCHANGED <<config, active, starting, conn, task, bus, listening, lagged>>
    /\ UNCHANGED <<status, cache, stale, specs, commands, hearing, autostart, updates, alone>>

Shutdown == Drain \/ CloseNext \/ EndShutdown

Next ==
    \/ Load
    \/ /\ \/ Autostart \/ UserAction \/ Task \/ Hear \/ SynthesizeCommands
          \/ BeginUpdate \/ Update \/ BeginShutdown \/ Shutdown
       /\ UNCHANGED load

Spec == Init /\ [][Next]_vars

-----------------------------------------------------------------------------
(* What the engine promises *)

Quiet ==
    /\ eng.pc = "idle" /\ autostart = {} /\ bus = <<>> /\ hearing = NoEvent
    /\ \A t \in Tasks : ~Running(t)

Hung(p) == \E t \in Tasks : task[t].plugin = p /\ task[t].pc \in {"startTimedOut", "stopTimedOut"}

\* When nothing is under way, the registry lists a plugin as running if and only
\* if the gateway has a client for it, with the tools of that client, and that
\* client has the configuration in force; for a plugin whose operations never
\* overlapped and never timed out, as long as the listener lost no event.  Only
\* a load of the details that ended after the client it asked had gone caches
\* other tools, until the next tools event.
RegistryFollowsGateway ==
    Quiet /\ ~lagged => \A p \in alone : ~Hung(p) =>
        /\ status[p] = "Running" <=> active[p] # None
        /\ cache[p] = ToolsOf(p) \/ p \in stale
        /\ active[p] # None => config[p] = ToolsOf(p)

\* The shutdown closes every client that the autostart connected, or leaves it
\* in the hands of a stop that the user asked for.
ShutdownClosesAutostarted ==
    eng.pc = "halted" => \A t \in Tasks :
        task[t].via = "autostart" /\ conn[t] = "up" => \E u \in Tasks : Holds(u, t)

\* Whatever the interleaving of starts, stops, restarts, reloads and shutdown,
\* every connected client has exactly one owner (see ClientsAreOwned).
NoClientIsLost == ClientsAreOwned(IF eng.pc = "close" THEN eng.todo ELSE {})
=============================================================================

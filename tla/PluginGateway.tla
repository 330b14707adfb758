--------------------------- MODULE PluginGateway ---------------------------
(***************************************************************************)
(* The client gateway of the plugin engine: the tasks that start, stop and *)
(* restart plugins, each taking one lock at a time and letting the others  *)
(* in between, and the status events they broadcast.                       *)
(* Source: src/crates/mcp/src/client/gateway.rs, and client/core.rs for    *)
(* what connecting and disconnecting leave behind.                         *)
(*                                                                         *)
(* A client is named by the task that connected it, a configuration entry  *)
(* by its version, and the tools of a plugin by the version they are of.   *)
(***************************************************************************)
EXTENDS Naturals, Sequences, FiniteSets

CONSTANTS
    Plugins,     \* plugin names
    Versions,    \* versions of a plugin's configuration entry
    MaxTasks,    \* bound on the tasks ever spawned
    Capacity     \* broadcast::channel capacity (64 in the code)

ASSUME GatewayAssumption ==
    /\ MaxTasks \in Nat
    /\ Capacity \in Nat \ {0}
    /\ Versions \cap {"absent", "disabled", "none"} = {}

Tasks == 1 .. MaxTasks
None  == 0                          \* no client
Entries == Versions \cup {"absent", "disabled"}

VARIABLES
    config,      \* config.mcp_servers: the entry of each plugin
    active,      \* active_clients: the client of each plugin
    starting,    \* the plugins whose start has been claimed
    stopping,
    conn,        \* the connection of each client: "none", "up", "closed"
    task,        \* the tasks, spawned and to be spawned
    bus,         \* status events the listener has not received
    listening,   \* a receiver is subscribed
    lagged       \* the receiver lost an event because the channel was full

gatewayVars == <<config, active, starting, stopping, conn, task, bus, listening, lagged>>

StartPcs == {"check", "claim", "connect", "release", "publish", "announce", "tools", "failed"}
StopPcs  == {"take", "mark", "disconnect", "stopped", "cleared"}
OverPcs  == {"done", "refused", "startTimedOut", "stopTimedOut"}

FreeTask == [pc |-> "free", plugin |-> "none", op |-> "none", via |-> "none",
             version |-> "none", taken |-> None]

Free(t)    == task[t].pc = "free"
Running(t) == task[t].pc \in StartPcs \cup StopPcs
NextTask   == CHOOSE t \in Tasks : Free(t)
FreeTasks  == {t \in Tasks : Free(t)}

GatewayInit ==
    /\ active = [p \in Plugins |-> None]
    /\ starting = {} /\ stopping = {}
    /\ conn = [t \in Tasks |-> "none"]
    /\ task = [t \in Tasks |-> FreeTask]
    /\ bus = <<>> /\ listening = TRUE /\ lagged = FALSE

-----------------------------------------------------------------------------
(* The pieces a task is made of *)

Event(type, p, v) == [type |-> type, plugin |-> p, version |-> v]

\* event_tx.send: a full channel drops its oldest event.
Send(e) ==
    IF listening
    THEN /\ bus' = (IF Len(bus) < Capacity THEN Append(bus, e) ELSE Append(Tail(bus), e))
         /\ lagged' = (lagged \/ Len(bus) >= Capacity)
    ELSE UNCHANGED <<bus, lagged>>

Goto(t, pc) == task' = [task EXCEPT ![t].pc = pc]

Spawned(t, p, op, via) ==
    [task EXCEPT ![t] = [pc |-> IF op = "start" THEN "check" ELSE "take", plugin |-> p,
                         op |-> op, via |-> via, version |-> "none", taken |-> None]]

-----------------------------------------------------------------------------
(* start_plugin *)

\* "Prevent duplicates: if already running or in progress, bail", first half.
Check(t) ==
    LET p == task[t].plugin IN
    /\ task[t].pc = "check"
    /\ \/ /\ config[p] \in {"absent", "disabled"} \/ active[p] # None
          /\ Goto(t, "refused")
       \/ /\ config[p] \in Versions /\ active[p] = None
          /\ task' = [task EXCEPT ![t].pc = "claim", ![t].version = config[p]]
    /\ UNCHANGED <<config, active, starting, stopping, conn, bus, listening, lagged>>

ClaimAnyway(t) ==                                                 \* mutant
    /\ task[t].pc = "claim"
    /\ starting' = starting \cup {task[t].plugin}
    /\ Goto(t, "connect")
    /\ Send(Event("Starting", task[t].plugin, "none"))
    /\ UNCHANGED <<config, active, stopping, conn, listening>>

\* Second half: the insertion into `starting` decides who goes on.
Claim(t) ==
    LET p == task[t].plugin IN
    /\ task[t].pc = "claim"
    /\ \/ /\ p \in starting
          /\ Goto(t, "refused")
          /\ UNCHANGED <<starting, bus, lagged>>
       \/ /\ p \notin starting
          /\ starting' = starting \cup {p}
          /\ Goto(t, "connect")
          /\ Send(Event("Starting", p, "none"))
    /\ UNCHANGED <<config, active, stopping, conn, listening>>

\* McpClient::connect: the handshake and the list of tools, or neither.
Connect(t) ==
    /\ task[t].pc = "connect"
    /\ \E c \in {"up", "none"} : conn' = [conn EXCEPT ![t] = c]
    /\ Goto(t, "release")
    /\ UNCHANGED <<config, active, starting, stopping, bus, listening, lagged>>

Release(t) ==
    /\ task[t].pc = "release"
    /\ starting' = starting \ {task[t].plugin}
    /\ Goto(t, IF conn[t] = "up" THEN "publish" ELSE "failed")
    /\ UNCHANGED <<config, active, stopping, conn, bus, listening, lagged>>

\* active_clients.insert: a client that is replaced is dropped, and with it
\* its connection.
Publish(t) ==
    LET p == task[t].plugin IN
    /\ task[t].pc = "publish"
    /\ active' = [active EXCEPT ![p] = t]
    /\ conn' = [u \in Tasks |-> IF u = active[p] THEN "closed" ELSE conn[u]]
    /\ Goto(t, "announce")
    /\ UNCHANGED <<config, starting, stopping, bus, listening, lagged>>

\* One status event, and on to the next point of the task.
Announce(t, at, e, next) ==
    /\ task[t].pc = at
    /\ Send(e)
    /\ Goto(t, next)
    /\ UNCHANGED <<config, active, starting, stopping, conn, listening>>

AnnounceStarted(t) == Announce(t, "announce", Event("Started", task[t].plugin, "none"), "tools")
AnnounceTools(t)   == Announce(t, "tools", Event("ToolsUpdated", task[t].plugin, task[t].version), "done")
AnnounceFailure(t) == Announce(t, "failed", Event("StartFailed", task[t].plugin, "none"), "refused")

-----------------------------------------------------------------------------
(* stop_plugin, and restart_plugin, which starts the plugin afterwards *)

AfterStop(t) == IF task[t].op = "restart" THEN "check" ELSE "done"

TakeCopy(t) ==                                                    \* mutant
    LET p == task[t].plugin IN
    /\ task[t].pc = "take"
    /\ task' = [task EXCEPT ![t].taken = active[p],
                            ![t].pc = IF active[p] = None THEN AfterStop(t) ELSE "mark"]
    /\ UNCHANGED <<config, active, starting, stopping, conn, bus, listening, lagged>>

\* A plugin that is not active, a starting one as well, is stopped already.
Take(t) ==
    LET p == task[t].plugin IN
    /\ task[t].pc = "take"
    /\ active' = [active EXCEPT ![p] = None]
    /\ task' = [task EXCEPT ![t].taken = active[p],
                            ![t].pc = IF active[p] = None THEN AfterStop(t) ELSE "mark"]
    /\ UNCHANGED <<config, starting, stopping, conn, bus, listening, lagged>>

Mark(t) ==
    /\ task[t].pc = "mark"
    /\ stopping' = stopping \cup {task[t].plugin}
    /\ Goto(t, "disconnect")
    /\ Send(Event("Stopping", task[t].plugin, "none"))
    /\ UNCHANGED <<config, active, starting, conn, listening>>

\* McpClient::disconnect ignores what cancelling the service returns.
Disconnect(t) ==
    /\ task[t].pc = "disconnect"
    /\ conn' = [conn EXCEPT ![task[t].taken] = "closed"]
    /\ Goto(t, "stopped")
    /\ UNCHANGED <<config, active, starting, stopping, bus, listening, lagged>>

AnnounceStopped(t) ==
    /\ task[t].pc = "stopped"
    /\ stopping' = stopping \ {task[t].plugin}
    /\ Send(Event("Stopped", task[t].plugin, "none"))
    /\ Goto(t, "cleared")
    /\ UNCHANGED <<config, active, starting, conn, listening>>

AnnounceNoTools(t) ==
    Announce(t, "cleared", Event("ToolsUpdated", task[t].plugin, "none"), AfterStop(t))

\* The lifecycle manager's timeout drops the future of a start or a stop it
\* supervises where it waits for the plugin: nothing after that point is done.
TimeOut(t) ==
    /\ task[t].via = "engine"
    /\ \/ task[t].pc = "connect" /\ Goto(t, "startTimedOut") /\ UNCHANGED conn
       \/ /\ task[t].pc = "disconnect"
          /\ conn' = [conn EXCEPT ![task[t].taken] = "closed"]
          /\ Goto(t, "stopTimedOut")
    /\ UNCHANGED <<config, active, starting, stopping, bus, listening, lagged>>

TaskStep(t) ==
    \/ Check(t) \/ Claim(t) \/ Connect(t) \/ Release(t) \/ Publish(t)
    \/ AnnounceStarted(t) \/ AnnounceTools(t) \/ AnnounceFailure(t)
    \/ Take(t) \/ Mark(t) \/ Disconnect(t) \/ AnnounceStopped(t) \/ AnnounceNoTools(t)
    \/ TimeOut(t)

-----------------------------------------------------------------------------
(* What the locks have to keep *)

\* Task t has the client of task c in its hands: it connected it and has not
\* published it yet, or it took it to stop it.
Holds(t, c) ==
    \/ t = c /\ task[t].pc \in {"release", "publish"}
    \/ task[t].taken = c /\ task[t].pc \in {"mark", "disconnect"}

\* No client is lost and none is shared: a client that is connected is either
\* the active one of its plugin, or drained by the shutdown, or in the hands of
\* one task that will publish or disconnect it, and never two of these; and a
\* client that is active is connected.
ClientsAreOwned(drained) ==
    /\ \A c \in Tasks : conn[c] = "up" =>
           LET isActive == active[task[c].plugin] = c
               isHeld == \E t \in Tasks : Holds(t, c)
           IN  /\ isActive \/ isHeld \/ c \in drained
               /\ isActive => ~isHeld
               /\ c \in drained => ~isActive /\ ~isHeld
               /\ \A t, u \in Tasks : Holds(t, c) /\ Holds(u, c) => t = u
    /\ \A p \in Plugins : active[p] # None => conn[active[p]] = "up" /\ task[active[p]].plugin = p

Connects(t, p)  == task[t].plugin = p /\ task[t].pc \in {"connect", "release"}
GivenUp(t, p)   == task[t].plugin = p /\ task[t].pc = "startTimedOut"

\* A plugin is marked as starting exactly while one task connects it, never two
\* at once; the mark is left behind only by a start that timed out, and then no
\* task ever connects that plugin again.
StartIsExclusive ==
    \A p \in Plugins :
        /\ \A t, u \in Tasks : Connects(t, p) /\ Connects(u, p) => t = u
        /\ p \in starting <=> \E t \in Tasks : Connects(t, p) \/ GivenUp(t, p)
        /\ \A t, u \in Tasks : ~(Connects(t, p) /\ GivenUp(u, p))
=============================================================================

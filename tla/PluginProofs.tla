---------------------------- MODULE PluginProofs ----------------------------
(***************************************************************************)
(* Theorems about PluginGateway under PluginEngine, for every set of       *)
(* plugins, every configuration and every number of tasks.                 *)
(***************************************************************************)
EXTENDS PluginEngine, TLAPS

Pcs == StartPcs \cup StopPcs \cup OverPcs \cup {"free"}

TaskType == [pc : Pcs, plugin : Plugins \cup {"none"}, op : {"start", "stop", "restart", "none"},
             via : {"autostart", "user", "engine", "none"}, version : Versions \cup {"none"},
             taken : Tasks \cup {None}]

EngineType == [pc : {"idle", "stopNext", "stopWait", "clearSpecs", "install", "rebuild", "startNext",
                     "startWait", "join", "close", "halted"},
               todo : SUBSET (Plugins \cup Tasks), restart : SUBSET (Plugins \cup {"none"}),
               plugin : Plugins \cup {"none"}, task : Nat]

\* What the tasks and the engine work with has its type; a task that was spawned
\* has a plugin.
TaskTypes ==
    /\ config \in [Plugins -> Entries]
    /\ active \in [Plugins -> Tasks \cup {None}]
    /\ starting \subseteq Plugins
    /\ conn \in [Tasks -> {"none", "up", "closed"}]
    /\ task \in [Tasks -> TaskType]
    /\ \A t \in Tasks : task[t].pc # "free" => task[t].plugin \in Plugins
    /\ autostart \subseteq Plugins
    /\ eng \in EngineType
    /\ eng.pc \in {"stopNext", "stopWait"} => eng.todo \subseteq Plugins
    /\ eng.pc = "close" => eng.todo \subseteq Tasks

\* A task that goes on keeps what it is about, and leaves the others alone.
LEMMA GotoChanges ==
    ASSUME task \in [Tasks -> TaskType], NEW t \in Tasks, NEW pc \in Pcs, Goto(t, pc)
    PROVE  /\ task' \in [Tasks -> TaskType]
           /\ task'[t].pc = pc /\ task'[t].plugin = task[t].plugin
           /\ task'[t].op = task[t].op /\ task'[t].via = task[t].via
           /\ task'[t].taken = task[t].taken /\ task'[t].version = task[t].version
           /\ \A u \in Tasks \ {t} : task'[u] = task[u]
BY DEF Goto, TaskType

\* The next task is a free one.
LEMMA NextTaskIsFree ==
    ASSUME FreeTasks # {}
    PROVE  NextTask \in Tasks /\ Free(NextTask)
BY DEF NextTask, FreeTasks

\* Spawning a task takes a free one, and leaves the others alone.
LEMMA SpawnChanges ==
    ASSUME task \in [Tasks -> TaskType], NEW p \in Plugins,
           NEW op \in {"start", "stop", "restart"}, NEW via \in {"autostart", "user", "engine"},
           Spawn(p, op, via)
    PROVE  /\ task' \in [Tasks -> TaskType]
           /\ \E t \in Tasks :
                 /\ task[t].pc = "free" /\ task'[t].pc \in {"check", "take"}
                 /\ task'[t].plugin = p
                 /\ \A u \in Tasks \ {t} : task'[u] = task[u]
<1>1. NextTask \in Tasks /\ task[NextTask].pc = "free"
  BY NextTaskIsFree DEF Spawn, Free
<1> DEFINE new == [pc |-> IF op = "start" THEN "check" ELSE "take", plugin |-> p,
                   op |-> op, via |-> via, version |-> "none", taken |-> None]
<1>2. task' = [task EXCEPT ![NextTask] = new]
  BY DEF Spawn, Spawned
<1>3. new \in TaskType /\ new.pc \in {"check", "take"} /\ new.plugin = p
  BY DEF TaskType, Pcs, StartPcs, StopPcs, None
<1> HIDE DEF new
<1> QED BY <1>1, <1>2, <1>3

\* A step of a task moves on that task alone, which keeps its plugin and who
\* spawned it.
LEMMA TaskStepChanges ==
    ASSUME TaskTypes, NEW t \in Tasks, TaskStep(t)
    PROVE  /\ task' \in [Tasks -> TaskType]
           /\ task[t].pc \in StartPcs \cup StopPcs
           /\ task'[t].pc # "free" /\ task'[t].plugin = task[t].plugin
           /\ task'[t].via = task[t].via
           /\ \A u \in Tasks \ {t} : task'[u] = task[u]
           /\ config' = config
<1> USE DEF TaskTypes
<1>1. CASE Check(t)
  <2>1. task[t].pc = "check" /\ config' = config
    BY <1>1 DEF Check
  <2>2. CASE Goto(t, "refused")
    <3>1. "refused" \in Pcs
      BY DEF Pcs, OverPcs
    <3> QED BY <2>1, <2>2, <3>1, GotoChanges DEF StartPcs
  <2>3. CASE /\ config[task[t].plugin] \in Versions
             /\ task' = [task EXCEPT ![t].pc = "claim", ![t].version = config[task[t].plugin]]
    <3> DEFINE v == config[task[t].plugin]
    <3>1. v \in Versions /\ "claim" \in Pcs
      BY <2>3 DEF Pcs, StartPcs
    <3> HIDE DEF v
    <3>2. task' = [task EXCEPT ![t] = [task[t] EXCEPT !.pc = "claim", !.version = v]]
      BY <2>3 DEF v
    <3>3. [task[t] EXCEPT !.pc = "claim", !.version = v] \in TaskType
      BY <3>1 DEF TaskType
    <3> QED BY <2>1, <3>2, <3>3 DEF StartPcs, TaskType
  <2> QED BY <1>1, <2>2, <2>3 DEF Check
<1>2. CASE \/ Claim(t) \/ Connect(t) \/ Release(t) \/ Publish(t)
           \/ AnnounceStarted(t) \/ AnnounceTools(t) \/ AnnounceFailure(t)
  <2>1. task[t].pc \in StartPcs /\ config' = config
    BY <1>2 DEF Claim, Connect, Release, Publish, AnnounceStarted, AnnounceTools, AnnounceFailure,
                Announce, StartPcs
  <2>2. \E pc \in {"refused", "connect", "release", "publish", "failed", "announce", "tools", "done"} :
            Goto(t, pc)
    BY <1>2 DEF Claim, Connect, Release, Publish, AnnounceStarted, AnnounceTools, AnnounceFailure,
                Announce
  <2>3. PICK pc \in {"refused", "connect", "release", "publish", "failed", "announce", "tools", "done"} :
            Goto(t, pc)
    BY <2>2
  <2>4. pc \in Pcs /\ pc # "free"
    BY DEF Pcs, StartPcs, OverPcs
  <2> QED BY <2>1, <2>3, <2>4, GotoChanges
<1>3. CASE Take(t)
  <2> DEFINE pc == IF active[task[t].plugin] = None THEN AfterStop(t) ELSE "mark"
             c == active[task[t].plugin]
  <2>1. task[t].pc = "take" /\ config' = config
    BY <1>3 DEF Take
  <2>2. task[t].plugin \in Plugins
    BY <2>1
  <2>3. pc \in {"check", "done", "mark"} /\ c \in Tasks \cup {None}
    BY <2>2 DEF AfterStop
  <2>4. task' = [task EXCEPT ![t].taken = c, ![t].pc = pc]
    BY <1>3 DEF Take
  <2> HIDE DEF pc, c
  <2>5. pc \in Pcs
    BY <2>3 DEF Pcs, StartPcs, StopPcs, OverPcs
  <2>6. task' = [task EXCEPT ![t] = [task[t] EXCEPT !.taken = c, !.pc = pc]]
    BY <2>4
  <2>7. [task[t] EXCEPT !.taken = c, !.pc = pc] \in TaskType
    BY <2>3, <2>5 DEF TaskType
  <2> QED BY <2>1, <2>3, <2>6, <2>7 DEF StopPcs, TaskType
<1>4. CASE Mark(t) \/ Disconnect(t) \/ AnnounceStopped(t) \/ AnnounceNoTools(t) \/ TimeOut(t)
  <2>1. task[t].pc \in StartPcs \cup StopPcs /\ config' = config
    BY <1>4 DEF Mark, Disconnect, AnnounceStopped, AnnounceNoTools, TimeOut, Announce, StopPcs, StartPcs
  <2>2. PICK pc \in {"disconnect", "stopped", "cleared", "check", "done", "startTimedOut", "stopTimedOut"} :
            Goto(t, pc)
    BY <1>4 DEF Mark, Disconnect, AnnounceStopped, AnnounceNoTools, TimeOut, Announce, AfterStop
  <2>3. pc \in Pcs /\ pc # "free"
    BY DEF Pcs, StartPcs, StopPcs, OverPcs
  <2> QED BY <2>1, <2>2, <2>3, GotoChanges
<1> QED BY <1>1, <1>2, <1>3, <1>4 DEF TaskStep

\* What a task does to the maps of the gateway keeps them maps.
LEMMA TaskStepKeepsMaps ==
    ASSUME TaskTypes, NEW t \in Tasks, TaskStep(t)
    PROVE  /\ active' \in [Plugins -> Tasks \cup {None}]
           /\ starting' \subseteq Plugins
           /\ conn' \in [Tasks -> {"none", "up", "closed"}]
<1> USE DEF TaskTypes
<1>1. task[t].plugin \in Plugins /\ active[task[t].plugin] \in Tasks \cup {None}
  BY TaskStepChanges DEF StartPcs, StopPcs
<1>2. CASE Check(t) \/ AnnounceStarted(t) \/ AnnounceTools(t) \/ AnnounceFailure(t)
           \/ Mark(t) \/ AnnounceStopped(t) \/ AnnounceNoTools(t)
  BY <1>2 DEF Check, AnnounceStarted, AnnounceTools, AnnounceFailure, Mark, AnnounceStopped,
              AnnounceNoTools, Announce
<1>3. CASE Claim(t) \/ Release(t)
  BY <1>1, <1>3 DEF Claim, Release
<1>4. CASE Connect(t) \/ Disconnect(t) \/ TimeOut(t)
  BY <1>4 DEF Connect, Disconnect, TimeOut
<1>5. CASE Publish(t)
  BY <1>1, <1>5 DEF Publish
<1>6. CASE Take(t)
  BY <1>1, <1>6 DEF Take
<1> QED BY <1>2, <1>3, <1>4, <1>5, <1>6 DEF TaskStep

\* Spawning a task keeps the types, when what it does besides does.
LEMMA SpawnKeepsTypes ==
    ASSUME TaskTypes, NEW p \in Plugins,
           NEW op \in {"start", "stop", "restart"}, NEW via \in {"autostart", "user", "engine"},
           Spawn(p, op, via), autostart' \subseteq Plugins, eng' \in EngineType,
           eng'.pc \in {"stopNext", "stopWait"} => eng'.todo \subseteq Plugins,
           eng'.pc = "close" => eng'.todo \subseteq Tasks
    PROVE  TaskTypes'
<1>1. task' \in [Tasks -> TaskType]
  BY SpawnChanges DEF TaskTypes
<1>2. \A t \in Tasks : task'[t].pc # "free" => task'[t].plugin \in Plugins
  BY SpawnChanges DEF TaskTypes
<1>3. UNCHANGED <<config, active, starting, conn>>
  BY DEF Spawn
<1> QED BY <1>1, <1>2, <1>3 DEF TaskTypes

\* A load of the details leaves all alone but the cache.
LEMMA LoadChanges ==
    ASSUME Load
    PROVE  /\ UNCHANGED <<config, active, starting, stopping, conn, task, bus, listening, lagged>>
           /\ UNCHANGED <<status, hearing, autostart, eng, updates, alone>>
BY DEF Load, CopyTools, InsertTools, gatewayVars, engineVars

\* The types are kept by every step of the engine and of its tasks.
THEOREM TaskTyping == Spec => []TaskTypes
<1>1. Init => TaskTypes
  <2> SUFFICES ASSUME Init PROVE TaskTypes
    OBVIOUS
  <2>1. FreeTask \in TaskType /\ FreeTask.pc = "free"
    BY DEF FreeTask, TaskType, Pcs
  <2>2. task \in [Tasks -> TaskType] /\ \A t \in Tasks : task[t].pc = "free"
    <3> HIDE DEF FreeTask
    <3> QED BY <2>1 DEF Init, GatewayInit
  <2>3. config \in [Plugins -> Entries]
    BY EngineAssumption DEF Init
  <2>4. eng \in EngineType /\ eng.pc = "idle"
    BY DEF Init, Idle, EngineType
  <2>5. autostart \subseteq Plugins
    BY DEF Init, Enabled
  <2> QED BY <2>2, <2>3, <2>4, <2>5 DEF Init, GatewayInit, TaskTypes
<1>2. TaskTypes /\ [Next]_vars => TaskTypes'
  <2> SUFFICES ASSUME TaskTypes, [Next]_vars PROVE TaskTypes'
    OBVIOUS
  <2>1. CASE Autostart
    <3>1. PICK p \in autostart : Spawn(p, "start", "autostart") /\ autostart' = autostart \ {p}
      BY <2>1 DEF Autostart
    <3>2. p \in Plugins /\ autostart' \subseteq Plugins /\ eng' = eng
      BY <2>1, <3>1 DEF Autostart, TaskTypes
    <3> QED BY <3>1, <3>2, SpawnKeepsTypes DEF TaskTypes
  <2>2. CASE UserAction
    <3>1. PICK p \in Plugins, op \in {"start", "stop", "restart"} : Spawn(p, op, "user")
      BY <2>2 DEF UserAction
    <3>2. autostart' = autostart /\ eng' = eng
      BY <2>2 DEF UserAction
    <3> QED BY <3>1, <3>2, SpawnKeepsTypes DEF TaskTypes
  <2>3. CASE Task
    <3>1. PICK t \in Tasks : TaskStep(t) /\ UNCHANGED engineVars
      BY <2>3 DEF Task
    <3>2. \A u \in Tasks : task'[u].pc # "free" => task'[u].plugin \in Plugins
      BY <3>1, TaskStepChanges DEF TaskTypes, StartPcs, StopPcs
    <3>3. autostart' = autostart /\ eng' = eng
      BY <3>1 DEF engineVars
    <3> QED BY <3>1, <3>2, <3>3, TaskStepChanges, TaskStepKeepsMaps DEF TaskTypes
  <2>4. CASE Hear \/ SynthesizeCommands
    BY <2>4 DEF Hear, SynthesizeCommands, gatewayVars, TaskTypes
  <2>15. CASE Load
    BY <2>15, LoadChanges DEF TaskTypes
  <2>5. CASE BeginUpdate
    <3>1. eng' \in EngineType /\ eng'.pc = "stopNext" /\ eng'.todo \subseteq Plugins
      BY <2>5 DEF BeginUpdate, Idle, EngineType
    <3> QED BY <2>5, <3>1 DEF BeginUpdate, gatewayVars, TaskTypes
  <2>6. CASE StopNext
    <3>1. PICK p \in eng.todo :
              /\ Spawn(p, "stop", "engine")
              /\ eng' = [eng EXCEPT !.pc = "stopWait", !.todo = @ \ {p}, !.plugin = p, !.task = NextTask,
                                    !.restart = IF status[p] = "Running" THEN @ \cup {p} ELSE @]
      BY <2>6 DEF StopNext
    <3>2. p \in Plugins /\ autostart' = autostart
      BY <2>6 DEF StopNext, TaskTypes
    <3>3. NextTask \in Nat
      BY <3>1, NextTaskIsFree DEF Spawn, Tasks
    <3>4. eng' \in EngineType /\ eng'.pc = "stopWait" /\ eng'.todo \subseteq Plugins
      BY <2>6, <3>1, <3>2, <3>3 DEF EngineType, TaskTypes, StopNext
    <3> QED BY <3>1, <3>2, <3>4, SpawnKeepsTypes DEF TaskTypes
  <2>7. CASE StartNext
    <3>1. PICK p \in eng.restart \cap Enabled(config) :
              /\ Spawn(p, "start", "engine")
              /\ eng' = [eng EXCEPT !.pc = "startWait", !.restart = @ \ {p}, !.plugin = p,
                                    !.task = NextTask]
      BY <2>7 DEF StartNext
    <3>2. p \in Plugins /\ autostart' = autostart
      BY <2>7 DEF StartNext, Enabled
    <3>3. NextTask \in Nat
      BY <3>1, NextTaskIsFree DEF Spawn, Tasks
    <3>4. eng' \in EngineType /\ eng'.pc = "startWait"
      BY <2>7, <3>1, <3>2, <3>3 DEF EngineType, TaskTypes
    <3> QED BY <3>1, <3>2, <3>4, SpawnKeepsTypes DEF TaskTypes
  <2>8. CASE StopAwaited \/ StartAwaited \/ ClearCache \/ ClearSpecs \/ RebuildRegistry \/ EndUpdate
    <3>1. eng' \in EngineType /\ eng'.pc # "close"
      BY <2>8 DEF StopAwaited, StartAwaited, ClearCache, ClearSpecs, RebuildRegistry, EndUpdate,
                  Awaited, Proceed, Idle, EngineType, TaskTypes
    <3>2. eng'.pc \in {"stopNext", "stopWait"} => eng'.todo \subseteq Plugins
      BY <2>8 DEF StopAwaited, StartAwaited, ClearCache, ClearSpecs, RebuildRegistry, EndUpdate,
                  Awaited, Proceed, Idle, EngineType, TaskTypes
    <3>3. UNCHANGED <<gatewayVars, autostart>>
      BY <2>8 DEF StopAwaited, StartAwaited, ClearCache, ClearSpecs, RebuildRegistry, EndUpdate, Awaited
    <3> QED BY <3>1, <3>2, <3>3 DEF TaskTypes, gatewayVars
  <2>9. CASE InstallConfig
    <3>1. eng' \in EngineType /\ eng'.pc = "rebuild"
      BY <2>9 DEF InstallConfig, Proceed, EngineType, TaskTypes
    <3> QED BY <2>9, <3>1, EngineAssumption DEF InstallConfig, TaskTypes
  <2>10. CASE BeginShutdown
    <3>1. eng' \in EngineType /\ eng'.pc = "join"
      BY <2>10 DEF BeginShutdown, EngineType, TaskTypes
    <3> QED BY <2>10, <3>1 DEF BeginShutdown, TaskTypes
  <2>11. CASE Drain
    <3>1. {active[p] : p \in Plugins} \ {None} \subseteq Tasks
      BY DEF TaskTypes
    <3>2. eng' \in EngineType /\ eng'.pc = "close" /\ eng'.todo \subseteq Tasks
      BY <2>11, <3>1 DEF Drain, EngineType, TaskTypes
    <3> QED BY <2>11, <3>2 DEF Drain, TaskTypes
  <2>12. CASE CloseNext
    <3>1. PICK c \in eng.todo :
              /\ conn' = [conn EXCEPT ![c] = "closed"]
              /\ eng' = [eng EXCEPT !.todo = @ \ {c}, !.restart = @ \cup {task[c].plugin}]
      BY <2>12 DEF CloseNext
    <3>2. c \in Tasks /\ task[c].plugin \in Plugins \cup {"none"}
      BY <2>12 DEF CloseNext, TaskTypes, TaskType
    <3>3. eng' \in EngineType /\ eng'.pc = "close" /\ eng'.todo \subseteq Tasks
      BY <2>12, <3>1, <3>2 DEF CloseNext, EngineType, TaskTypes
    <3> QED BY <2>12, <3>1, <3>3 DEF CloseNext, TaskTypes
  <2>13. CASE EndShutdown
    <3>1. eng' \in EngineType /\ eng'.pc = "halted"
      BY <2>13 DEF EndShutdown, Idle, EngineType
    <3> QED BY <2>13, <3>1 DEF EndShutdown, TaskTypes
  <2>14. CASE UNCHANGED vars
    BY <2>14 DEF vars, gatewayVars, engineVars, TaskTypes
  <2> QED BY <2>1, <2>2, <2>3, <2>4, <2>5, <2>6, <2>7, <2>8, <2>9, <2>10, <2>11, <2>12, <2>13, <2>14,
             <2>15
          DEF Next, Update, Shutdown
<1> QED BY <1>1, <1>2, PTL DEF Spec

\* A step that neither brings a task to, nor takes one from, the points at which
\* a plugin is marked as starting keeps the marks exclusive.
LEMMA OtherStepsKeepMarks ==
    ASSUME StartIsExclusive, starting' = starting,
           \A p \in Plugins, u \in Tasks :
               (Connects(u, p)' <=> Connects(u, p)) /\ (GivenUp(u, p)' <=> GivenUp(u, p))
    PROVE  StartIsExclusive'
BY DEF StartIsExclusive

\* Spawning a task is such a step.
LEMMA SpawnKeepsMarks ==
    ASSUME TaskTypes, StartIsExclusive, NEW p \in Plugins,
           NEW op \in {"start", "stop", "restart"}, NEW via \in {"autostart", "user", "engine"},
           Spawn(p, op, via)
    PROVE  StartIsExclusive'
<1>1. PICK t \in Tasks :
          /\ task[t].pc = "free" /\ task'[t].pc \in {"check", "take"}
          /\ \A u \in Tasks \ {t} : task'[u] = task[u]
  BY SpawnChanges DEF TaskTypes
<1>2. \A q \in Plugins, u \in Tasks :
          (Connects(u, q)' <=> Connects(u, q)) /\ (GivenUp(u, q)' <=> GivenUp(u, q))
  BY <1>1 DEF Connects, GivenUp
<1>3. starting' = starting
  BY DEF Spawn
<1> QED BY <1>2, <1>3, OtherStepsKeepMarks

\* Every step of a task keeps the marks exclusive: the test and the insertion
\* under one lock decide who connects, and only who was let in takes the mark
\* away, or leaves it behind for ever.
LEMMA TaskStepKeepsMarks ==
    ASSUME TaskTypes, StartIsExclusive, NEW t \in Tasks, TaskStep(t)
    PROVE  StartIsExclusive'
<1> DEFINE p == task[t].plugin
<1>1. p \in Plugins /\ task'[t].plugin = p
  BY TaskStepChanges DEF TaskTypes, StartPcs, StopPcs
<1>2. \A u \in Tasks \ {t} : task'[u] = task[u]
  BY TaskStepChanges
<1>3. \A q \in Plugins, u \in Tasks \ {t} :
          (Connects(u, q)' <=> Connects(u, q)) /\ (GivenUp(u, q)' <=> GivenUp(u, q))
  BY <1>2 DEF Connects, GivenUp
<1>4. \A q \in Plugins \ {p} : ~Connects(t, q) /\ ~Connects(t, q)' /\ ~GivenUp(t, q) /\ ~GivenUp(t, q)'
  BY <1>1 DEF Connects, GivenUp
<1>5. CASE /\ starting' = starting
           /\ task[t].pc \notin {"connect", "release", "startTimedOut"}
           /\ task'[t].pc \notin {"connect", "release", "startTimedOut"}
  <2>1. \A q \in Plugins : ~Connects(t, q) /\ ~Connects(t, q)' /\ ~GivenUp(t, q) /\ ~GivenUp(t, q)'
    BY <1>5 DEF Connects, GivenUp
  <2> QED BY <1>3, <1>5, <2>1, OtherStepsKeepMarks
<1>6. CASE /\ p \notin starting /\ starting' = starting \cup {p}
           /\ task[t].pc = "claim" /\ task'[t].pc = "connect"
  <2>1. \A u \in Tasks : ~Connects(u, p) /\ ~GivenUp(u, p)
    BY <1>1, <1>6 DEF StartIsExclusive
  <2>2. Connects(t, p)' /\ ~GivenUp(t, p)' /\ \A u \in Tasks \ {t} : ~Connects(u, p)' /\ ~GivenUp(u, p)'
    BY <1>1, <1>3, <1>6, <2>1 DEF Connects, GivenUp
  <2> QED BY <1>1, <1>3, <1>4, <1>6, <2>2 DEF StartIsExclusive
<1>7. CASE starting' = starting /\ task[t].pc = "connect" /\ task'[t].pc = "release"
  <2>1. \A q \in Plugins : (Connects(t, q)' <=> Connects(t, q)) /\ (GivenUp(t, q)' <=> GivenUp(t, q))
    BY <1>1, <1>7 DEF Connects, GivenUp
  <2> QED BY <1>3, <1>7, <2>1, OtherStepsKeepMarks
<1>8. CASE /\ starting' = starting \ {p} /\ task[t].pc = "release"
           /\ task'[t].pc \in {"publish", "failed"}
  <2>1. Connects(t, p)
    BY <1>8 DEF Connects
  <2>2. \A u \in Tasks \ {t} : ~Connects(u, p) /\ ~GivenUp(u, p)
    BY <1>1, <2>1 DEF StartIsExclusive
  <2>3. \A u \in Tasks : ~Connects(u, p)' /\ ~GivenUp(u, p)'
    BY <1>1, <1>3, <1>8, <2>2 DEF Connects, GivenUp
  <2> QED BY <1>1, <1>3, <1>4, <1>8, <2>3 DEF StartIsExclusive
<1>9. CASE starting' = starting /\ task[t].pc = "connect" /\ task'[t].pc = "startTimedOut"
  <2>1. Connects(t, p) /\ ~Connects(t, p)' /\ GivenUp(t, p)'
    BY <1>1, <1>9 DEF Connects, GivenUp
  <2>2. \A u \in Tasks \ {t} : ~Connects(u, p)
    BY <1>1, <2>1 DEF StartIsExclusive
  <2> QED BY <1>1, <1>3, <1>4, <1>9, <2>1, <2>2 DEF StartIsExclusive
<1>10. CASE Claim(t)
  <2>1. task[t].pc = "claim"
    BY <1>10 DEF Claim
  <2>2. CASE Goto(t, "refused") /\ starting' = starting
    BY <1>5, <2>1, <2>2, GotoChanges DEF TaskTypes, Pcs, OverPcs
  <2>3. CASE p \notin starting /\ starting' = starting \cup {p} /\ Goto(t, "connect")
    BY <1>6, <2>1, <2>3, GotoChanges DEF TaskTypes, Pcs, StartPcs
  <2> QED BY <1>10, <2>2, <2>3 DEF Claim
<1>11. CASE Connect(t)
  BY <1>7, <1>11, GotoChanges DEF Connect, TaskTypes, Pcs, StartPcs
<1>12. CASE Release(t)
  BY <1>8, <1>12, GotoChanges DEF Release, TaskTypes, Pcs, StartPcs
<1>13. CASE TimeOut(t)
  <2>1. starting' = starting
    BY <1>13 DEF TimeOut
  <2>2. CASE task[t].pc = "connect" /\ Goto(t, "startTimedOut")
    BY <1>9, <2>1, <2>2, GotoChanges DEF TaskTypes, Pcs, OverPcs
  <2>3. CASE task[t].pc = "disconnect" /\ Goto(t, "stopTimedOut")
    BY <1>5, <2>1, <2>3, GotoChanges DEF TaskTypes, Pcs, OverPcs
  <2> QED BY <1>13, <2>2, <2>3 DEF TimeOut
<1>14. CASE Check(t)
  <2>1. task[t].pc = "check" /\ starting' = starting
    BY <1>14 DEF Check
  <2>2. task'[t].pc \in {"refused", "claim"}
    BY <1>14 DEF Check, Goto, TaskTypes, TaskType
  <2> QED BY <1>5, <2>1, <2>2
<1>15. CASE Take(t)
  <2>1. task[t].pc = "take" /\ starting' = starting
    BY <1>15 DEF Take
  <2>2. task'[t].pc \in {"check", "done", "mark"}
    BY <1>15 DEF Take, AfterStop, TaskTypes, TaskType
  <2> QED BY <1>5, <2>1, <2>2
<1>16. CASE Publish(t) \/ AnnounceStarted(t) \/ AnnounceTools(t) \/ AnnounceFailure(t)
            \/ Mark(t) \/ Disconnect(t) \/ AnnounceStopped(t) \/ AnnounceNoTools(t)
  <2>1. /\ starting' = starting
        /\ task[t].pc \in {"publish", "announce", "tools", "failed", "mark", "disconnect", "stopped", "cleared"}
    BY <1>16 DEF Publish, AnnounceStarted, AnnounceTools, AnnounceFailure, Mark, Disconnect,
                 AnnounceStopped, AnnounceNoTools, Announce
  <2>2. PICK pc \in {"announce", "tools", "done", "refused", "disconnect", "stopped", "cleared", "check"} :
            Goto(t, pc)
    BY <1>16 DEF Publish, AnnounceStarted, AnnounceTools, AnnounceFailure, Mark, Disconnect,
                 AnnounceStopped, AnnounceNoTools, Announce, AfterStop
  <2>3. task'[t].pc = pc
    BY <2>2, GotoChanges DEF TaskTypes, Pcs, StartPcs, StopPcs, OverPcs
  <2> QED BY <1>5, <2>1, <2>2, <2>3
<1> QED BY <1>10, <1>11, <1>12, <1>13, <1>14, <1>15, <1>16 DEF TaskStep

\* However starts, stops, restarts, reloads, timeouts and the shutdown interleave,
\* a plugin is marked as starting exactly while one task connects it, or for ever
\* once a start of it has timed out.
THEOREM StartSafety == Spec => []StartIsExclusive
<1>1. Init => StartIsExclusive
  <2> SUFFICES ASSUME Init PROVE StartIsExclusive
    OBVIOUS
  <2>1. \A t \in Tasks : task[t].pc = "free"
    BY DEF Init, GatewayInit, FreeTask
  <2>2. starting = {}
    BY DEF Init, GatewayInit
  <2> QED BY <2>1, <2>2 DEF StartIsExclusive, Connects, GivenUp
<1>2. TaskTypes /\ StartIsExclusive /\ [Next]_vars => StartIsExclusive'
  <2> SUFFICES ASSUME TaskTypes, StartIsExclusive, [Next]_vars PROVE StartIsExclusive'
    OBVIOUS
  <2>1. CASE Autostart
    <3>1. PICK p \in autostart : Spawn(p, "start", "autostart")
      BY <2>1 DEF Autostart
    <3> QED BY <3>1, SpawnKeepsMarks DEF TaskTypes
  <2>2. CASE UserAction
    <3>1. PICK p \in Plugins, op \in {"start", "stop", "restart"} : Spawn(p, op, "user")
      BY <2>2 DEF UserAction
    <3> QED BY <3>1, SpawnKeepsMarks
  <2>3. CASE Task
    BY <2>3, TaskStepKeepsMarks DEF Task
  <2>4. CASE StopNext
    <3>1. PICK p \in eng.todo : Spawn(p, "stop", "engine")
      BY <2>4 DEF StopNext
    <3>2. p \in Plugins
      BY <2>4 DEF StopNext, TaskTypes
    <3> QED BY <3>1, <3>2, SpawnKeepsMarks
  <2>5. CASE StartNext
    <3>1. PICK p \in eng.restart \cap Enabled(config) : Spawn(p, "start", "engine")
      BY <2>5 DEF StartNext
    <3> QED BY <3>1, SpawnKeepsMarks DEF Enabled
  <2>6. CASE UNCHANGED <<starting, task>>
    BY <2>6 DEF StartIsExclusive, Connects, GivenUp
  <2>7. CASE \/ Hear \/ SynthesizeCommands \/ BeginUpdate \/ StopAwaited \/ StartAwaited
             \/ ClearCache \/ ClearSpecs \/ InstallConfig \/ RebuildRegistry \/ EndUpdate
             \/ BeginShutdown \/ Shutdown \/ UNCHANGED vars
    BY <2>6, <2>7 DEF Hear, SynthesizeCommands, BeginUpdate, StopAwaited, StartAwaited, Awaited,
                      ClearCache, ClearSpecs, InstallConfig, RebuildRegistry, EndUpdate,
                      BeginShutdown, Shutdown, Drain, CloseNext, EndShutdown, vars, gatewayVars
  <2>8. CASE Load
    BY <2>6, <2>8, LoadChanges
  <2> QED BY <2>1, <2>2, <2>3, <2>4, <2>5, <2>7, <2>8 DEF Next, Update
<1> QED BY <1>1, <1>2, TaskTyping, PTL DEF Spec

-----------------------------------------------------------------------------
(* Clients *)

Drained == IF eng.pc = "close" THEN eng.todo ELSE {}

\* A task has no client before it connects, nor one of its own when it stops a
\* plugin; what it is about to publish or to disconnect, and what the shutdown
\* drains, is connected.
HandsAreFull ==
    /\ \A t \in Tasks :
          /\ task[t].pc \in {"free", "check", "claim", "connect"} \cup StopPcs => conn[t] = "none"
          /\ task[t].pc = "publish" => conn[t] = "up"
          /\ task[t].pc \in {"mark", "disconnect"} =>
                 task[t].taken \in Tasks /\ conn[task[t].taken] = "up"
    /\ \A c \in Drained : conn[c] = "up"

ClientInv == ClientsAreOwned(Drained) /\ HandsAreFull

\* A step that connects, takes and closes nothing keeps every client in the
\* hands it is in.
LEMMA OtherStepsKeepClients ==
    ASSUME TaskTypes, ClientInv, TaskTypes', conn' = conn, active' = active, Drained' = Drained,
           \A t \in Tasks :
               /\ conn[t] # "none" => task'[t].plugin = task[t].plugin
               /\ \A c \in Tasks : Holds(t, c)' <=> Holds(t, c)
               /\ task'[t].pc \in {"free", "check", "claim", "connect"} \cup StopPcs => conn[t] = "none"
               /\ task'[t].pc = "publish" => conn[t] = "up"
               /\ task'[t].pc \in {"mark", "disconnect"} =>
                      task'[t].taken \in Tasks /\ conn[task'[t].taken] = "up"
    PROVE  ClientInv'
<1>1. HandsAreFull'
  BY DEF ClientInv, HandsAreFull
<1>2. ASSUME NEW c \in Tasks, conn'[c] = "up"
      PROVE  /\ active'[task'[c].plugin] = c <=> active[task[c].plugin] = c
             /\ (\E t \in Tasks : Holds(t, c)') <=> \E t \in Tasks : Holds(t, c)
  BY <1>2
<1>3. \A p \in Plugins : active'[p] # None => conn'[active'[p]] = "up" /\ task'[active'[p]].plugin = p
  BY DEF ClientInv, ClientsAreOwned, TaskTypes, None
<1>4. ASSUME NEW c \in Tasks, conn'[c] = "up"
      PROVE  /\ active'[task'[c].plugin] = c \/ (\E t \in Tasks : Holds(t, c)') \/ c \in Drained'
             /\ active'[task'[c].plugin] = c => ~\E t \in Tasks : Holds(t, c)'
             /\ c \in Drained' => active'[task'[c].plugin] # c /\ ~\E t \in Tasks : Holds(t, c)'
             /\ \A t, u \in Tasks : Holds(t, c)' /\ Holds(u, c)' => t = u
  BY <1>2, <1>4 DEF ClientInv, ClientsAreOwned
<1> QED BY <1>1, <1>3, <1>4 DEF ClientInv, ClientsAreOwned

\* Spawning a task is such a step.
LEMMA SpawnKeepsClients ==
    ASSUME TaskTypes, ClientInv, TaskTypes', NEW p \in Plugins,
           NEW op \in {"start", "stop", "restart"}, NEW via \in {"autostart", "user", "engine"},
           Spawn(p, op, via), Drained' = Drained
    PROVE  ClientInv'
<1>1. PICK t \in Tasks :
          /\ task[t].pc = "free" /\ task'[t].pc \in {"check", "take"}
          /\ \A u \in Tasks \ {t} : task'[u] = task[u]
  BY SpawnChanges DEF TaskTypes
<1>2. conn[t] = "none"
  BY <1>1 DEF ClientInv, HandsAreFull
<1>3. \A c \in Tasks : ~Holds(t, c) /\ ~Holds(t, c)'
  BY <1>1 DEF Holds
<1>4. \A u \in Tasks \ {t}, c \in Tasks : Holds(u, c)' <=> Holds(u, c)
  BY <1>1 DEF Holds
<1>5. UNCHANGED <<conn, active>>
  BY DEF Spawn
<1> QED BY <1>1, <1>2, <1>3, <1>4, <1>5, OtherStepsKeepClients DEF ClientInv, HandsAreFull

\* So is every step of a task at a point where it has no client in its hands, and
\* between the two points at which it has.
LEMMA QuietStepsKeepClients ==
    ASSUME TaskTypes, ClientInv, TaskTypes', Drained' = Drained, NEW t \in Tasks,
           conn' = conn, active' = active,
           task'[t].plugin = task[t].plugin, task'[t].taken = task[t].taken,
           \A u \in Tasks \ {t} : task'[u] = task[u],
           \/ /\ task[t].pc \in {"check", "claim", "connect", "take", "stopped", "cleared"}
              /\ task'[t].pc \notin {"release", "publish", "mark", "disconnect"}
           \/ /\ task[t].pc \in {"announce", "tools", "failed"}
              /\ task'[t].pc \in {"tools", "done", "refused"}
           \/ task[t].pc = "mark" /\ task'[t].pc = "disconnect"
           \/ task[t].pc = "release" /\ task'[t].pc = "publish" /\ conn[t] = "up"
    PROVE  ClientInv'
<1>1. \A c \in Tasks : Holds(t, c)' <=> Holds(t, c)
  BY DEF Holds
<1>2. \A u \in Tasks \ {t}, c \in Tasks : Holds(u, c)' <=> Holds(u, c)
  BY DEF Holds
<1>3. /\ task'[t].pc \in {"free", "check", "claim", "connect"} \cup StopPcs => conn[t] = "none"
      /\ task'[t].pc = "publish" => conn[t] = "up"
      /\ task'[t].pc \in {"mark", "disconnect"} =>
             task'[t].taken \in Tasks /\ conn[task'[t].taken] = "up"
  BY DEF ClientInv, HandsAreFull, StopPcs
<1> QED BY <1>1, <1>2, <1>3, OtherStepsKeepClients DEF ClientInv, HandsAreFull

\* A client that is connected is in the hands of the task that connected it.
LEMMA ConnectKeepsClients ==
    ASSUME TaskTypes, ClientInv, TaskTypes', Drained' = Drained, NEW t \in Tasks, Connect(t)
    PROVE  ClientInv'
<1>1. /\ task[t].pc = "connect" /\ active' = active
      /\ \E c \in {"up", "none"} : conn' = [conn EXCEPT ![t] = c]
  BY DEF Connect
<1>2. /\ task'[t].pc = "release" /\ task'[t].plugin = task[t].plugin /\ task'[t].taken = task[t].taken
      /\ \A u \in Tasks \ {t} : task'[u] = task[u]
  BY GotoChanges DEF Connect, TaskTypes, Pcs, StartPcs
<1>3. conn[t] = "none"
  BY <1>1 DEF ClientInv, HandsAreFull
<1>4. \A p \in Plugins : active[p] # t
  BY <1>3 DEF ClientInv, ClientsAreOwned, None, Tasks
<1>5. t \notin Drained
  BY <1>3 DEF ClientInv, HandsAreFull
<1>6. \A u \in Tasks : ~Holds(u, t)
  BY <1>1, <1>3 DEF ClientInv, HandsAreFull, Holds
<1>7. /\ \A c \in Tasks : Holds(t, c)' <=> c = t
      /\ \A c \in Tasks : ~Holds(t, c)
  BY <1>1, <1>2 DEF Holds
<1>8. \A u \in Tasks \ {t}, c \in Tasks : Holds(u, c)' <=> Holds(u, c)
  BY <1>2 DEF Holds
<1>9. \A u \in Tasks \ {t} : conn'[u] = conn[u]
  BY <1>1 DEF TaskTypes
<1>10. task[t].plugin \in Plugins
  BY <1>1 DEF TaskTypes
<1>11. HandsAreFull'
  <2>1. ASSUME NEW u \in Tasks
        PROVE  /\ task'[u].pc \in {"free", "check", "claim", "connect"} \cup StopPcs => conn'[u] = "none"
               /\ task'[u].pc = "publish" => conn'[u] = "up"
    BY <1>2, <1>9 DEF ClientInv, HandsAreFull, StopPcs
  <2>2. ASSUME NEW u \in Tasks, task'[u].pc \in {"mark", "disconnect"}
        PROVE  task'[u].taken \in Tasks /\ conn'[task'[u].taken] = "up"
    <3>1. u # t
      BY <1>2, <2>2
    <3>2. task[u].taken \in Tasks /\ conn[task[u].taken] = "up" /\ task[u].taken # t
      BY <1>2, <1>3, <2>2, <3>1 DEF ClientInv, HandsAreFull
    <3> QED BY <1>2, <1>9, <3>1, <3>2
  <2>3. \A c \in Drained' : conn'[c] = "up"
    BY <1>5, <1>9 DEF ClientInv, HandsAreFull, Drained, TaskTypes
  <2> QED BY <2>1, <2>2, <2>3 DEF HandsAreFull
<1>12. ASSUME NEW c \in Tasks, conn'[c] = "up"
       PROVE  /\ active'[task'[c].plugin] = c \/ (\E u \in Tasks : Holds(u, c)') \/ c \in Drained'
              /\ active'[task'[c].plugin] = c => ~\E u \in Tasks : Holds(u, c)'
              /\ c \in Drained' => active'[task'[c].plugin] # c /\ ~\E u \in Tasks : Holds(u, c)'
              /\ \A v, u \in Tasks : Holds(v, c)' /\ Holds(u, c)' => v = u
  <2>1. CASE c = t
    BY <1>1, <1>2, <1>4, <1>5, <1>6, <1>7, <1>8, <1>10, <2>1
  <2>2. CASE c # t
    BY <1>1, <1>2, <1>7, <1>8, <1>9, <1>12, <2>2 DEF ClientInv, ClientsAreOwned
  <2> QED BY <2>1, <2>2
<1>13. ASSUME NEW p \in Plugins, active'[p] # None
       PROVE  conn'[active'[p]] = "up" /\ task'[active'[p]].plugin = p
  <2>1. active[p] \in Tasks /\ active[p] # t
    BY <1>1, <1>4, <1>13 DEF TaskTypes
  <2> QED BY <1>1, <1>2, <1>9, <1>13, <2>1 DEF ClientInv, ClientsAreOwned
<1> QED BY <1>11, <1>12, <1>13 DEF ClientInv, ClientsAreOwned

\* A step may do what it likes with the clients of K as long as each still has
\* one owner, if it does nothing to the others.
LEMMA FewClientsChange ==
    ASSUME TaskTypes, ClientInv, TaskTypes', HandsAreFull', NEW K,
           \A c \in Tasks \ K :
               /\ conn'[c] = conn[c] /\ task'[c].plugin = task[c].plugin
               /\ \A p \in Plugins : active'[p] = c <=> active[p] = c
               /\ \A t \in Tasks : Holds(t, c)' <=> Holds(t, c)
               /\ c \in Drained' <=> c \in Drained,
           \A c \in Tasks \cap K : conn'[c] = "up" =>
               /\ active'[task'[c].plugin] = c \/ (\E t \in Tasks : Holds(t, c)') \/ c \in Drained'
               /\ active'[task'[c].plugin] = c => ~\E t \in Tasks : Holds(t, c)'
               /\ c \in Drained' => active'[task'[c].plugin] # c /\ ~\E t \in Tasks : Holds(t, c)'
               /\ \A t, u \in Tasks : Holds(t, c)' /\ Holds(u, c)' => t = u,
           \A p \in Plugins : active'[p] \in Tasks \cap K =>
               conn'[active'[p]] = "up" /\ task'[active'[p]].plugin = p
    PROVE  ClientInv'
<1>1. ASSUME NEW c \in Tasks \ K, conn'[c] = "up"
      PROVE  /\ active'[task'[c].plugin] = c \/ (\E t \in Tasks : Holds(t, c)') \/ c \in Drained'
             /\ active'[task'[c].plugin] = c => ~\E t \in Tasks : Holds(t, c)'
             /\ c \in Drained' => active'[task'[c].plugin] # c /\ ~\E t \in Tasks : Holds(t, c)'
             /\ \A t, u \in Tasks : Holds(t, c)' /\ Holds(u, c)' => t = u
  <2>1. task[c].plugin \in Plugins
    BY <1>1 DEF ClientInv, HandsAreFull, TaskTypes
  <2>2. /\ active'[task'[c].plugin] = c <=> active[task[c].plugin] = c
        /\ (\E t \in Tasks : Holds(t, c)') <=> \E t \in Tasks : Holds(t, c)
        /\ \A t \in Tasks : Holds(t, c)' <=> Holds(t, c)
        /\ c \in Drained' <=> c \in Drained
        /\ conn[c] = "up"
    BY <1>1, <2>1
  <2> QED BY <2>2 DEF ClientInv, ClientsAreOwned
<1>2. ASSUME NEW p \in Plugins, active'[p] # None
      PROVE  conn'[active'[p]] = "up" /\ task'[active'[p]].plugin = p
  <2>1. active'[p] \in Tasks
    BY <1>2 DEF TaskTypes
  <2>2. CASE active'[p] \in K
    BY <2>1, <2>2
  <2>3. CASE active'[p] \notin K
    <3>1. active[p] = active'[p]
      BY <2>1, <2>3
    <3> QED BY <1>2, <2>1, <2>3, <3>1 DEF ClientInv, ClientsAreOwned
  <2> QED BY <2>2, <2>3
<1> QED BY <1>1, <1>2 DEF ClientInv, ClientsAreOwned

\* A client that is disconnected was in the hands of the task that took it.
LEMMA DisconnectKeepsClients ==
    ASSUME TaskTypes, ClientInv, TaskTypes', Drained' = Drained, NEW t \in Tasks,
           task[t].pc = "disconnect", NEW pc \in {"stopped", "stopTimedOut"}, Goto(t, pc),
           conn' = [conn EXCEPT ![task[t].taken] = "closed"], active' = active
    PROVE  ClientInv'
<1> DEFINE k == task[t].taken
<1>1. k \in Tasks /\ conn[k] = "up" /\ conn[t] = "none" /\ k # t
  BY DEF ClientInv, HandsAreFull, StopPcs
<1>2. Holds(t, k)
  BY DEF Holds
<1>3. /\ \A u \in Tasks \ {t} : ~Holds(u, k)
      /\ active[task[k].plugin] # k /\ k \notin Drained
  BY <1>1, <1>2 DEF ClientInv, ClientsAreOwned
<1>4. /\ task'[t].pc = pc /\ task'[t].plugin = task[t].plugin
      /\ \A u \in Tasks \ {t} : task'[u] = task[u]
  <2>1. pc \in Pcs
    BY DEF Pcs, StopPcs, OverPcs
  <2> QED BY <2>1, GotoChanges DEF TaskTypes
<1> HIDE DEF k
<1>5. conn'[k] = "closed" /\ \A u \in Tasks \ {k} : conn'[u] = conn[u]
  BY <1>1 DEF TaskTypes, k
<1>6. \A u \in Tasks \ {t}, c \in Tasks : Holds(u, c)' <=> Holds(u, c)
  BY <1>4 DEF Holds
<1>7. \A c \in Tasks : (Holds(t, c) <=> c = k) /\ ~Holds(t, c)'
  BY <1>4 DEF Holds, k
<1>8. HandsAreFull'
  <2>1. ASSUME NEW u \in Tasks
        PROVE  /\ task'[u].pc \in {"free", "check", "claim", "connect"} \cup StopPcs => conn'[u] = "none"
               /\ task'[u].pc = "publish" => conn'[u] = "up"
    <3>1. CASE u = t
      BY <1>1, <1>4, <1>5, <3>1
    <3>2. CASE u = k
      <4>1. task[k].pc \notin {"free", "check", "claim", "connect", "publish"} \cup StopPcs
        BY <1>1, <1>3 DEF ClientInv, HandsAreFull, Holds
      <4> QED BY <1>1, <1>4, <3>2, <4>1
    <3>3. CASE u # t /\ u # k
      BY <1>4, <1>5, <3>3 DEF ClientInv, HandsAreFull
    <3> QED BY <3>1, <3>2, <3>3
  <2>2. ASSUME NEW u \in Tasks, task'[u].pc \in {"mark", "disconnect"}
        PROVE  task'[u].taken \in Tasks /\ conn'[task'[u].taken] = "up"
    <3>1. u # t
      BY <1>4, <2>2
    <3>2. task[u].taken \in Tasks /\ conn[task[u].taken] = "up"
      BY <1>4, <2>2, <3>1 DEF ClientInv, HandsAreFull
    <3>3. task[u].taken # k
      BY <1>3, <1>4, <2>2, <3>1 DEF Holds
    <3> QED BY <1>4, <1>5, <3>1, <3>2, <3>3
  <2>3. \A c \in Drained' : conn'[c] = "up"
    BY <1>3, <1>5 DEF ClientInv, HandsAreFull, Drained, TaskTypes
  <2> QED BY <2>1, <2>2, <2>3 DEF HandsAreFull
<1>9. \A p \in Plugins : active'[p] # k
  BY <1>1, <1>3 DEF ClientInv, ClientsAreOwned, None, Tasks
<1>10. \A c \in Tasks \ {k} :
           /\ conn'[c] = conn[c] /\ task'[c].plugin = task[c].plugin
           /\ \A u \in Tasks : Holds(u, c)' <=> Holds(u, c)
  BY <1>4, <1>5, <1>6, <1>7
<1> DEFINE K == {k}
<1>11. \A c \in Tasks \ K :
           /\ conn'[c] = conn[c] /\ task'[c].plugin = task[c].plugin
           /\ \A p \in Plugins : active'[p] = c <=> active[p] = c
           /\ \A u \in Tasks : Holds(u, c)' <=> Holds(u, c)
           /\ c \in Drained' <=> c \in Drained
  BY <1>10
<1>12. \A c \in Tasks \cap K : conn'[c] # "up"
  BY <1>5
<1>13. \A p \in Plugins : active'[p] \notin Tasks \cap K
  BY <1>9
<1> HIDE DEF K
<1> QED BY <1>8, <1>11, <1>12, <1>13, FewClientsChange

\* A client that is taken was the active one of its plugin, and passes into the
\* hands of the task that takes it.
LEMMA TakeKeepsClients ==
    ASSUME TaskTypes, ClientInv, TaskTypes', Drained' = Drained, NEW t \in Tasks, Take(t)
    PROVE  ClientInv'
<1> DEFINE p == task[t].plugin
           k == active[p]
<1>1. /\ task[t].pc = "take" /\ conn' = conn /\ p \in Plugins /\ k \in Tasks \cup {None}
      /\ active' = [active EXCEPT ![p] = None]
  BY DEF Take, TaskTypes
<1>2. /\ task'[t].plugin = p /\ task'[t].taken = k
      /\ task'[t].pc = IF k = None THEN AfterStop(t) ELSE "mark"
      /\ \A u \in Tasks \ {t} : task'[u] = task[u]
  BY DEF Take, TaskTypes, TaskType
<1>3. \A u \in Tasks \ {t}, c \in Tasks : Holds(u, c)' <=> Holds(u, c)
  BY <1>2 DEF Holds
<1>4. \A c \in Tasks : ~Holds(t, c)
  BY <1>1 DEF Holds
<1>5. conn[t] = "none"
  BY <1>1 DEF ClientInv, HandsAreFull, StopPcs
<1> HIDE DEF p, k
<1>6. CASE k = None
  <2>1. task'[t].pc \in {"check", "done"}
    BY <1>2, <1>6 DEF AfterStop
  <2>2. active' = active
    BY <1>1, <1>6 DEF k, TaskTypes
  <2>3. \A c \in Tasks : ~Holds(t, c)'
    BY <2>1 DEF Holds
  <2> QED BY <1>1, <1>2, <1>3, <1>4, <1>5, <2>1, <2>2, <2>3, OtherStepsKeepClients
          DEF ClientInv, HandsAreFull, p
<1>7. CASE k # None
  <2>1. k \in Tasks /\ conn[k] = "up" /\ task[k].plugin = p /\ k # t
    BY <1>1, <1>5, <1>7 DEF ClientInv, ClientsAreOwned, k
  <2>2. (\A u \in Tasks : ~Holds(u, k)) /\ k \notin Drained
    BY <2>1 DEF ClientInv, ClientsAreOwned, k
  <2>3. task'[t].pc = "mark"
    BY <1>2, <1>7
  <2>4. \A c \in Tasks : Holds(t, c)' <=> c = k
    BY <1>2, <2>3 DEF Holds
  <2>5. HandsAreFull'
    BY <1>1, <1>2, <1>5, <2>1, <2>3 DEF ClientInv, HandsAreFull
  <2>6. \A q \in Plugins \ {p} : active'[q] = active[q] /\ active[q] # k
    BY <1>1, <1>7, <2>1 DEF TaskTypes, ClientInv, ClientsAreOwned
  <2>7. active'[p] = None /\ None \notin Tasks
    BY <1>1 DEF TaskTypes, None, Tasks
  <2>8. \A c \in Tasks \ {k} :
            /\ conn'[c] = conn[c] /\ task'[c].plugin = task[c].plugin
            /\ \A q \in Plugins : active'[q] = c <=> active[q] = c
            /\ \A u \in Tasks : Holds(u, c)' <=> Holds(u, c)
    BY <1>1, <1>2, <1>3, <1>4, <2>4, <2>6, <2>7 DEF k, p
  <2>9. \A q \in Plugins : active'[q] # k
    BY <1>7, <2>6, <2>7
  <2>10. \A c \in Tasks : c = k => \A u \in Tasks : Holds(u, c)' <=> u = t
    BY <1>3, <2>1, <2>2, <2>4
  <2> DEFINE K == {k}
  <2>11. \A c \in Tasks \ K :
             /\ conn'[c] = conn[c] /\ task'[c].plugin = task[c].plugin
             /\ \A q \in Plugins : active'[q] = c <=> active[q] = c
             /\ \A u \in Tasks : Holds(u, c)' <=> Holds(u, c)
             /\ c \in Drained' <=> c \in Drained
    BY <2>8
  <2>12. \A c \in Tasks \cap K :
             /\ active'[task'[c].plugin] # c /\ c \notin Drained'
             /\ \A u \in Tasks : Holds(u, c)' <=> u = t
    <3>1. task'[k].plugin = p
      BY <1>2, <2>1
    <3>2. active'[task'[k].plugin] # k
      BY <2>1, <2>7, <3>1
    <3> QED BY <2>2, <2>10, <3>2
  <2>13. \A q \in Plugins : active'[q] \notin Tasks \cap K
    BY <2>9
  <2> HIDE DEF K
  <2> QED BY <2>5, <2>11, <2>12, <2>13, FewClientsChange
<1> QED BY <1>6, <1>7

\* A client that is published passes from the hands of its task to the plugin,
\* and closes the one it replaces.
LEMMA PublishKeepsClients ==
    ASSUME TaskTypes, ClientInv, TaskTypes', Drained' = Drained, NEW t \in Tasks, Publish(t)
    PROVE  ClientInv'
<1> DEFINE p == task[t].plugin
           k == active[p]
<1>1. /\ task[t].pc = "publish" /\ p \in Plugins /\ k \in Tasks \cup {None}
      /\ active' = [active EXCEPT ![p] = t]
      /\ conn' = [u \in Tasks |-> IF u = k THEN "closed" ELSE conn[u]]
  BY DEF Publish, TaskTypes
<1>2. /\ task'[t].pc = "announce" /\ task'[t].plugin = p
      /\ \A u \in Tasks \ {t} : task'[u] = task[u]
  BY GotoChanges DEF Publish, TaskTypes, Pcs, StartPcs
<1>3. conn[t] = "up" /\ Holds(t, t)
  BY <1>1 DEF ClientInv, HandsAreFull, Holds
<1>4. /\ \A q \in Plugins : active[q] # t
      /\ t \notin Drained
      /\ \A u \in Tasks \ {t} : ~Holds(u, t)
  BY <1>3 DEF ClientInv, ClientsAreOwned, None, Tasks
<1> HIDE DEF p, k
<1>5. k # t
  BY <1>1, <1>4 DEF k
<1>6. \A c \in Tasks : (Holds(t, c) <=> c = t) /\ ~Holds(t, c)'
  BY <1>1, <1>2 DEF Holds
<1>7. \A u \in Tasks \ {t}, c \in Tasks : Holds(u, c)' <=> Holds(u, c)
  BY <1>2 DEF Holds
<1>8. k # None =>
          /\ k \in Tasks /\ conn[k] = "up" /\ task[k].plugin = p
          /\ (\A u \in Tasks : ~Holds(u, k)) /\ k \notin Drained
  <2> SUFFICES ASSUME k # None
               PROVE  /\ k \in Tasks /\ conn[k] = "up" /\ task[k].plugin = p
                      /\ (\A u \in Tasks : ~Holds(u, k)) /\ k \notin Drained
    OBVIOUS
  <2>1. k \in Tasks /\ conn[k] = "up" /\ task[k].plugin = p
    BY <1>1 DEF ClientInv, ClientsAreOwned, k
  <2> QED BY <2>1 DEF ClientInv, ClientsAreOwned, k
<1>9. /\ \A u \in Tasks \ {k} : conn'[u] = conn[u]
      /\ k # None => conn'[k] = "closed"
  BY <1>1, <1>8
<1>10. HandsAreFull'
  <2>1. ASSUME NEW u \in Tasks
        PROVE  /\ task'[u].pc \in {"free", "check", "claim", "connect"} \cup StopPcs => conn'[u] = "none"
               /\ task'[u].pc = "publish" => conn'[u] = "up"
    <3>1. CASE u = t
      BY <1>2, <3>1 DEF StopPcs
    <3>2. CASE u = k
      <4>1. k # None /\ k \in Tasks
        BY <1>8, <3>2 DEF None, Tasks
      <4>2. task[k].pc \notin {"free", "check", "claim", "connect", "publish"} \cup StopPcs
        BY <1>8, <4>1 DEF ClientInv, HandsAreFull, Holds
      <4> QED BY <1>2, <1>5, <3>2, <4>2
    <3>3. CASE u # t /\ u # k
      BY <1>2, <1>9, <3>3 DEF ClientInv, HandsAreFull
    <3> QED BY <3>1, <3>2, <3>3
  <2>2. ASSUME NEW u \in Tasks, task'[u].pc \in {"mark", "disconnect"}
        PROVE  task'[u].taken \in Tasks /\ conn'[task'[u].taken] = "up"
    <3>1. u # t
      BY <1>2, <2>2
    <3>2. task[u].taken \in Tasks /\ conn[task[u].taken] = "up" /\ Holds(u, task[u].taken)
      BY <1>2, <2>2, <3>1 DEF ClientInv, HandsAreFull, Holds
    <3>3. task[u].taken # k
      BY <1>8, <3>2 DEF None, Tasks
    <3> QED BY <1>2, <1>9, <3>1, <3>2, <3>3
  <2>3. \A c \in Drained' : conn'[c] = "up"
    <3>1. \A c \in Drained : c \in Tasks /\ conn[c] = "up" /\ c # k
      BY <1>8 DEF ClientInv, HandsAreFull, Drained, TaskTypes, None, Tasks
    <3> QED BY <1>9, <3>1
  <2> QED BY <2>1, <2>2, <2>3 DEF HandsAreFull
<1>11. active'[p] = t /\ \A q \in Plugins \ {p} : active'[q] = active[q]
  BY <1>1 DEF TaskTypes
<1>12. \A c \in Tasks \ {t, k} :
           /\ conn'[c] = conn[c] /\ task'[c].plugin = task[c].plugin
           /\ \A q \in Plugins : active'[q] = c <=> active[q] = c
           /\ \A u \in Tasks : Holds(u, c)' <=> Holds(u, c)
  BY <1>2, <1>6, <1>7, <1>9, <1>11 DEF k, p
<1>13. \A q \in Plugins : active'[q] \in Tasks \cap {t, k} => q = p
  <2> SUFFICES ASSUME NEW q \in Plugins \ {p}, active'[q] \in Tasks \cap {t, k}
               PROVE  FALSE
    OBVIOUS
  <2>1. active[q] = k /\ k # None
    BY <1>4, <1>11 DEF None, Tasks
  <2>2. task[active[q]].plugin = q
    BY <2>1 DEF ClientInv, ClientsAreOwned
  <2> QED BY <1>8, <2>1, <2>2
<1>14. \A c \in Tasks \cap {t, k} : conn'[c] = "up" => c = t
  BY <1>8, <1>9 DEF None, Tasks
<1>15. /\ conn'[t] = "up" /\ active'[task'[t].plugin] = t
       /\ \A u \in Tasks : ~Holds(u, t)'
       /\ t \notin Drained'
  BY <1>2, <1>3, <1>4, <1>5, <1>6, <1>7, <1>9, <1>11
<1> DEFINE K == {t, k}
<1>16. \A c \in Tasks \ K :
           /\ conn'[c] = conn[c] /\ task'[c].plugin = task[c].plugin
           /\ \A q \in Plugins : active'[q] = c <=> active[q] = c
           /\ \A u \in Tasks : Holds(u, c)' <=> Holds(u, c)
           /\ c \in Drained' <=> c \in Drained
  BY <1>12
<1>17. \A c \in Tasks \cap K : conn'[c] = "up" =>
           /\ active'[task'[c].plugin] = c /\ (\A u \in Tasks : ~Holds(u, c)') /\ c \notin Drained'
  BY <1>14, <1>15
<1>18. \A q \in Plugins : active'[q] \in Tasks \cap K =>
           conn'[active'[q]] = "up" /\ task'[active'[q]].plugin = q
  BY <1>2, <1>11, <1>13, <1>15
<1> HIDE DEF K
<1> QED BY <1>10, <1>16, <1>17, <1>18, FewClientsChange

\* A step of a task keeps the clients owned.
LEMMA TaskStepKeepsClients ==
    ASSUME TaskTypes, ClientInv, TaskTypes', Drained' = Drained, NEW t \in Tasks, TaskStep(t)
    PROVE  ClientInv'
<1>1. CASE Connect(t) \/ Take(t) \/ Publish(t)
  BY <1>1, ConnectKeepsClients, TakeKeepsClients, PublishKeepsClients
<1>2. CASE Disconnect(t) \/ (TimeOut(t) /\ task[t].pc = "disconnect")
  BY <1>2, DisconnectKeepsClients DEF Disconnect, TimeOut
<1>3. CASE Check(t)
  <2>1. conn' = conn /\ active' = active /\ task[t].pc = "check"
    BY <1>3 DEF Check
  <2>2. task'[t].pc \in {"refused", "claim"} /\ task'[t].taken = task[t].taken
    BY <1>3 DEF Check, Goto, TaskTypes, TaskType
  <2> QED BY <1>3, <2>1, <2>2, TaskStepChanges, QuietStepsKeepClients DEF TaskStep
<1>4. CASE Claim(t)
  <2>1. conn' = conn /\ active' = active /\ task[t].pc = "claim"
    BY <1>4 DEF Claim
  <2>2. PICK pc \in {"refused", "connect"} : Goto(t, pc)
    BY <1>4 DEF Claim
  <2>3. task'[t].pc = pc /\ task'[t].taken = task[t].taken
    BY <2>2, GotoChanges DEF TaskTypes, Pcs, StartPcs, OverPcs
  <2> QED BY <1>4, <2>1, <2>2, <2>3, TaskStepChanges, QuietStepsKeepClients DEF TaskStep
<1>5. CASE TimeOut(t) /\ task[t].pc # "disconnect"
  <2>1. conn' = conn /\ active' = active /\ task[t].pc = "connect" /\ Goto(t, "startTimedOut")
    BY <1>5 DEF TimeOut
  <2>2. task'[t].pc = "startTimedOut" /\ task'[t].taken = task[t].taken
    BY <2>1, GotoChanges DEF TaskTypes, Pcs, OverPcs
  <2> QED BY <1>5, <2>1, <2>2, TaskStepChanges, QuietStepsKeepClients DEF TaskStep
<1>6. CASE AnnounceStarted(t) \/ AnnounceTools(t) \/ AnnounceFailure(t)
  <2>1. conn' = conn /\ active' = active /\ task[t].pc \in {"announce", "tools", "failed"}
    BY <1>6 DEF AnnounceStarted, AnnounceTools, AnnounceFailure, Announce
  <2>2. PICK pc \in {"tools", "done", "refused"} : Goto(t, pc)
    BY <1>6 DEF AnnounceStarted, AnnounceTools, AnnounceFailure, Announce
  <2>3. task'[t].pc = pc /\ task'[t].taken = task[t].taken
    BY <2>2, GotoChanges DEF TaskTypes, Pcs, StartPcs, OverPcs
  <2> QED BY <1>6, <2>1, <2>2, <2>3, TaskStepChanges, QuietStepsKeepClients DEF TaskStep
<1>7. CASE AnnounceStopped(t) \/ AnnounceNoTools(t)
  <2>1. conn' = conn /\ active' = active /\ task[t].pc \in {"stopped", "cleared"}
    BY <1>7 DEF AnnounceStopped, AnnounceNoTools, Announce
  <2>2. PICK pc \in {"cleared", "check", "done"} : Goto(t, pc)
    BY <1>7 DEF AnnounceStopped, AnnounceNoTools, Announce, AfterStop
  <2>3. task'[t].pc = pc /\ task'[t].taken = task[t].taken
    BY <2>2, GotoChanges DEF TaskTypes, Pcs, StartPcs, StopPcs, OverPcs
  <2> QED BY <1>7, <2>1, <2>2, <2>3, TaskStepChanges, QuietStepsKeepClients DEF TaskStep
<1>8. CASE Mark(t)
  <2>1. conn' = conn /\ active' = active /\ task[t].pc = "mark" /\ Goto(t, "disconnect")
    BY <1>8 DEF Mark
  <2>2. task'[t].pc = "disconnect" /\ task'[t].taken = task[t].taken
    BY <2>1, GotoChanges DEF TaskTypes, Pcs, StopPcs
  <2> QED BY <1>8, <2>1, <2>2, TaskStepChanges, QuietStepsKeepClients DEF TaskStep
<1>9. CASE Release(t)
  <2>1. conn' = conn /\ active' = active /\ task[t].pc = "release"
    BY <1>9 DEF Release
  <2>2. CASE conn[t] = "up"
    <3>1. task'[t].pc = "publish" /\ task'[t].taken = task[t].taken
      BY <1>9, <2>2, GotoChanges DEF Release, TaskTypes, Pcs, StartPcs
    <3> QED BY <1>9, <2>1, <2>2, <3>1, TaskStepChanges, QuietStepsKeepClients DEF TaskStep
  <2>3. CASE conn[t] # "up"
    <3>1. task'[t].pc = "failed" /\ task'[t].taken = task[t].taken
      BY <1>9, <2>3, GotoChanges DEF Release, TaskTypes, Pcs, StartPcs
    <3>2. \A u \in Tasks \ {t} : task'[u] = task[u]
      BY <1>9, TaskStepChanges DEF TaskStep
    <3>3. HandsAreFull'
      BY <2>1, <3>1, <3>2 DEF ClientInv, HandsAreFull, Drained, StopPcs
    <3> DEFINE K == {t}
    <3>4. \A c \in Tasks \ K, u \in Tasks : Holds(u, c)' <=> Holds(u, c)
      BY <2>1, <3>1, <3>2 DEF Holds
    <3>5. task'[t].plugin = task[t].plugin
      BY <1>9, TaskStepChanges DEF TaskStep
    <3>6. \A c \in Tasks \cap K : conn'[c] # "up"
      BY <2>1, <2>3
    <3>7. \A q \in Plugins : active'[q] \notin Tasks \cap K
      BY <2>1, <2>3 DEF ClientInv, ClientsAreOwned, None, Tasks
    <3> HIDE DEF K
    <3>8. \A c \in Tasks : task'[c].plugin = task[c].plugin
      BY <3>2, <3>5
    <3> QED BY <2>1, <3>3, <3>4, <3>6, <3>7, <3>8, FewClientsChange
  <2> QED BY <2>2, <2>3
<1> QED BY <1>1, <1>2, <1>3, <1>4, <1>5, <1>6, <1>7, <1>8, <1>9 DEF TaskStep

\* The shutdown takes over the active clients,
LEMMA DrainKeepsClients ==
    ASSUME TaskTypes, ClientInv, TaskTypes', Drain
    PROVE  ClientInv'
<1> DEFINE K == {active[p] : p \in Plugins} \ {None}
<1>1. conn' = conn /\ task' = task /\ active' = [p \in Plugins |-> None]
  BY DEF Drain
<1>2. Drained = {} /\ Drained' = K
  BY DEF Drain, Drained, TaskTypes, EngineType
<1>3. \A c \in K : /\ c \in Tasks /\ conn[c] = "up"
                     /\ \A u \in Tasks : ~Holds(u, c)
  BY DEF TaskTypes, ClientInv, ClientsAreOwned
<1>4. \A t, c \in Tasks : Holds(t, c)' <=> Holds(t, c)
  BY <1>1 DEF Holds
<1>5. HandsAreFull'
  BY <1>1, <1>2, <1>3 DEF ClientInv, HandsAreFull
<1>6. \A p \in Plugins : active'[p] = None /\ active'[p] \notin Tasks
  BY <1>1 DEF None, Tasks
<1>7. \A c \in Tasks \ K, p \in Plugins : active[p] # c
  BY DEF None, Tasks
<1>8. \A c \in Tasks : conn[c] = "up" => task[c].plugin \in Plugins
  BY DEF TaskTypes, ClientInv, HandsAreFull
<1> HIDE DEF K
<1> QED BY <1>1, <1>2, <1>3, <1>4, <1>5, <1>6, <1>7, <1>8, FewClientsChange

\* and closes one after the other.
LEMMA CloseKeepsClients ==
    ASSUME TaskTypes, ClientInv, TaskTypes', CloseNext
    PROVE  ClientInv'
<1>1. PICK k \in eng.todo :
          /\ conn' = [conn EXCEPT ![k] = "closed"]
          /\ eng' = [eng EXCEPT !.todo = @ \ {k}, !.restart = @ \cup {task[k].plugin}]
  BY DEF CloseNext
<1>2. eng.pc = "close" /\ active' = active /\ task' = task
  BY DEF CloseNext
<1>3. Drained = eng.todo /\ Drained' = eng.todo \ {k} /\ k \in Tasks
  BY <1>1, <1>2 DEF Drained, TaskTypes, EngineType
<1>4. conn'[k] = "closed" /\ \A c \in Tasks \ {k} : conn'[c] = conn[c]
  BY <1>1, <1>3 DEF TaskTypes
<1>5. conn[k] = "up" /\ active[task[k].plugin] # k /\ \A u \in Tasks : ~Holds(u, k)
  BY <1>3 DEF ClientInv, HandsAreFull, ClientsAreOwned
<1>6. \A t, c \in Tasks : Holds(t, c)' <=> Holds(t, c)
  BY <1>2 DEF Holds
<1>7. \A p \in Plugins : active[p] # k
  BY <1>3, <1>5 DEF ClientInv, ClientsAreOwned, None, Tasks
<1>8. HandsAreFull'
  <2>1. ASSUME NEW u \in Tasks
        PROVE  /\ task[u].pc \in {"free", "check", "claim", "connect"} \cup StopPcs => conn'[u] = "none"
               /\ task[u].pc = "publish" => conn'[u] = "up"
    <3>1. CASE u = k
      <4>1. task[k].pc \notin {"free", "check", "claim", "connect", "publish"} \cup StopPcs
        BY <1>3, <1>5 DEF ClientInv, HandsAreFull, Holds
      <4> QED BY <3>1, <4>1
    <3>2. CASE u # k
      BY <1>4, <3>2 DEF ClientInv, HandsAreFull
    <3> QED BY <3>1, <3>2
  <2>2. ASSUME NEW u \in Tasks, task[u].pc \in {"mark", "disconnect"}
        PROVE  task[u].taken \in Tasks /\ conn'[task[u].taken] = "up"
    <3>1. task[u].taken \in Tasks /\ conn[task[u].taken] = "up" /\ Holds(u, task[u].taken)
      BY <2>2 DEF ClientInv, HandsAreFull, Holds
    <3> QED BY <1>4, <1>5, <3>1
  <2>3. \A c \in Drained' : conn'[c] = "up"
    BY <1>2, <1>3, <1>4 DEF ClientInv, HandsAreFull, TaskTypes
  <2> QED BY <1>2, <2>1, <2>2, <2>3 DEF HandsAreFull
<1> DEFINE K == {k}
<1>9. \A c \in Tasks \ K :
          /\ conn'[c] = conn[c] /\ task'[c].plugin = task[c].plugin
          /\ \A p \in Plugins : active'[p] = c <=> active[p] = c
          /\ \A u \in Tasks : Holds(u, c)' <=> Holds(u, c)
          /\ c \in Drained' <=> c \in Drained
  BY <1>2, <1>3, <1>4, <1>6
<1>10. \A c \in Tasks \cap K : conn'[c] # "up"
  BY <1>4
<1>11. \A p \in Plugins : active'[p] \notin Tasks \cap K
  BY <1>2, <1>7
<1> HIDE DEF K
<1> QED BY <1>8, <1>9, <1>10, <1>11, FewClientsChange

\* Every step keeps the clients owned and the hands full.
LEMMA ClientInvariant == Spec => []ClientInv
<1>1. Init => ClientInv
  <2> SUFFICES ASSUME Init PROVE ClientInv
    OBVIOUS
  <2>1. \A t \in Tasks : task[t].pc = "free" /\ conn[t] = "none"
    BY DEF Init, GatewayInit, FreeTask
  <2>2. (\A p \in Plugins : active[p] = None) /\ Drained = {}
    BY DEF Init, GatewayInit, Drained, Idle
  <2> QED BY <2>1, <2>2 DEF ClientInv, HandsAreFull, ClientsAreOwned
<1>2. TaskTypes /\ TaskTypes' /\ ClientInv /\ [Next]_vars => ClientInv'
  <2> SUFFICES ASSUME TaskTypes, TaskTypes', ClientInv, [Next]_vars PROVE ClientInv'
    OBVIOUS
  <2>1. CASE Autostart
    <3>1. PICK p \in autostart : Spawn(p, "start", "autostart")
      BY <2>1 DEF Autostart
    <3>2. Drained' = Drained /\ p \in Plugins
      BY <2>1 DEF Autostart, Drained, TaskTypes
    <3> QED BY <3>1, <3>2, SpawnKeepsClients
  <2>2. CASE UserAction
    <3>1. PICK p \in Plugins, op \in {"start", "stop", "restart"} : Spawn(p, op, "user")
      BY <2>2 DEF UserAction
    <3>2. Drained' = Drained
      BY <2>2 DEF UserAction, Drained
    <3> QED BY <3>1, <3>2, SpawnKeepsClients
  <2>3. CASE Task
    <3>1. Drained' = Drained
      BY <2>3 DEF Task, engineVars, Drained
    <3> QED BY <2>3, <3>1, TaskStepKeepsClients DEF Task
  <2>4. CASE StopNext
    <3>1. PICK p \in eng.todo : Spawn(p, "stop", "engine") /\ eng'.pc = "stopWait"
      BY <2>4 DEF StopNext, TaskTypes, EngineType
    <3>2. Drained' = Drained /\ p \in Plugins
      BY <2>4, <3>1 DEF StopNext, TaskTypes, Drained
    <3> QED BY <3>1, <3>2, SpawnKeepsClients
  <2>5. CASE StartNext
    <3>1. PICK p \in eng.restart \cap Enabled(config) :
              Spawn(p, "start", "engine") /\ eng'.pc = "startWait"
      BY <2>5 DEF StartNext, TaskTypes, EngineType
    <3>2. Drained' = Drained /\ p \in Plugins
      BY <2>5, <3>1 DEF StartNext, Drained, Enabled
    <3> QED BY <3>1, <3>2, SpawnKeepsClients
  <2>6. CASE UNCHANGED <<conn, active, task>> /\ Drained' = Drained
    BY <2>6 DEF ClientInv, ClientsAreOwned, HandsAreFull, Holds
  <2>7. CASE \/ Hear \/ SynthesizeCommands \/ BeginUpdate \/ StopAwaited \/ StartAwaited
             \/ ClearCache \/ ClearSpecs \/ InstallConfig \/ RebuildRegistry \/ EndUpdate
             \/ BeginShutdown \/ EndShutdown \/ UNCHANGED vars
    <3>1. UNCHANGED <<conn, active, task>>
      BY <2>7 DEF Hear, SynthesizeCommands, BeginUpdate, StopAwaited, StartAwaited, Awaited,
                  ClearCache, ClearSpecs, InstallConfig, RebuildRegistry, EndUpdate,
                  BeginShutdown, EndShutdown, vars, gatewayVars
    <3>2. CASE \/ Hear \/ SynthesizeCommands \/ UNCHANGED vars
      BY <2>6, <3>1, <3>2 DEF Hear, SynthesizeCommands, vars, engineVars, Drained
    <3>3. CASE \/ BeginUpdate \/ StopAwaited \/ StartAwaited \/ ClearCache \/ ClearSpecs
               \/ InstallConfig \/ RebuildRegistry \/ EndUpdate \/ BeginShutdown
      <4>1. eng.pc # "close" /\ eng'.pc # "close"
        <5>1. CASE BeginUpdate
          BY <5>1 DEF BeginUpdate, Idle, EngineType
        <5>2. CASE EndUpdate
          BY <5>2 DEF EndUpdate, Idle, EngineType
        <5>3. CASE BeginShutdown
          BY <5>3 DEF BeginShutdown, TaskTypes, EngineType
        <5>4. CASE \/ StopAwaited \/ StartAwaited \/ ClearCache \/ ClearSpecs
                   \/ InstallConfig \/ RebuildRegistry
          <6>1. eng.pc \in {"stopWait", "startWait", "stopNext", "clearSpecs", "install", "rebuild"}
            BY <5>4 DEF StopAwaited, StartAwaited, ClearCache, ClearSpecs, InstallConfig, RebuildRegistry
          <6>2. PICK pc \in {"stopNext", "startNext", "clearSpecs", "install", "rebuild"} : Proceed(pc)
            BY <5>4 DEF StopAwaited, StartAwaited, Awaited, ClearCache, ClearSpecs, InstallConfig,
                        RebuildRegistry
          <6> QED BY <6>1, <6>2 DEF Proceed, TaskTypes, EngineType
        <5> QED BY <3>3, <5>1, <5>2, <5>3, <5>4
      <4> QED BY <2>6, <3>1, <4>1 DEF Drained
    <3>4. CASE EndShutdown
      BY <2>6, <3>1, <3>4 DEF EndShutdown, Drained, Idle
    <3> QED BY <2>7, <3>2, <3>3, <3>4
  <2>8. CASE Drain \/ CloseNext
    BY <2>8, DrainKeepsClients, CloseKeepsClients
  <2>9. CASE Load
    BY <2>6, <2>9, LoadChanges DEF Drained
  <2> QED BY <2>1, <2>2, <2>3, <2>4, <2>5, <2>7, <2>8, <2>9 DEF Next, Update, Shutdown
<1> QED BY <1>1, <1>2, TaskTyping, PTL DEF Spec

\* However starts, stops, restarts, reloads, timeouts and the shutdown interleave,
\* no connected client is without an owner and none has two.
THEOREM ClientSafety == Spec => []NoClientIsLost
<1>1. ClientInv => NoClientIsLost
  BY DEF ClientInv, NoClientIsLost, Drained
<1> QED BY <1>1, ClientInvariant, PTL

-----------------------------------------------------------------------------
(* The shutdown *)

\* The engine leaves idleness only when everything was autostarted; once the
\* autostart tasks are joined and the clients drained, no autostarted task goes
\* on, and a client that becomes active after that is one the user asked for.
ShutdownInv ==
    /\ eng.pc # "idle" => autostart = {}
    /\ eng.pc \in {"close", "halted"} =>
           /\ \A t \in Tasks : task[t].via = "autostart" => ~Running(t)
           /\ \A p \in Plugins : active[p] # None => task[active[p]].via # "autostart"

\* A step of a task publishes that task, which is running, and nothing else.
LEMMA TaskStepPublishesItself ==
    ASSUME TaskTypes, NEW t \in Tasks, TaskStep(t)
    PROVE  \A p \in Plugins : active'[p] \in {active[p], t, None}
<1>1. CASE Publish(t)
  BY <1>1 DEF Publish, TaskTypes
<1>2. CASE Take(t)
  BY <1>2 DEF Take, TaskTypes
<1>3. CASE ~Publish(t) /\ ~Take(t)
  BY <1>3 DEF TaskStep, Check, Claim, Connect, Release, AnnounceStarted, AnnounceTools,
              AnnounceFailure, Announce, Mark, Disconnect, AnnounceStopped, AnnounceNoTools, TimeOut
<1> QED BY <1>1, <1>2, <1>3

\* After the shutdown no client of the autostart is left connected, but for one
\* that a stop of the user has in its hands.
THEOREM ShutdownSafety == Spec => []ShutdownClosesAutostarted
<1>1. Init => ShutdownInv
  BY DEF Init, Idle, ShutdownInv
<1>2. TaskTypes /\ ShutdownInv /\ [Next]_vars => ShutdownInv'
  <2> SUFFICES ASSUME TaskTypes, ShutdownInv, [Next]_vars PROVE ShutdownInv'
    OBVIOUS
  <2>1. CASE Autostart \/ UserAction
    <3>1. eng' = eng /\ eng.pc = "idle"
      BY <2>1 DEF Autostart, UserAction, ShutdownInv
    <3> QED BY <3>1 DEF ShutdownInv
  <2>2. CASE Task
    <3>1. PICK t \in Tasks : TaskStep(t) /\ UNCHANGED <<autostart, eng>>
      BY <2>2 DEF Task, engineVars
    <3>2. Running(t) /\ \A u \in Tasks : task'[u].via = task[u].via
      BY <3>1, TaskStepChanges DEF Running
    <3>3. \A u \in Tasks \ {t} : task'[u] = task[u]
      BY <3>1, TaskStepChanges
    <3>4. ASSUME eng.pc \in {"close", "halted"}
          PROVE  \A u \in Tasks : task'[u].via = "autostart" => ~Running(u)'
      BY <3>2, <3>3, <3>4 DEF ShutdownInv, Running
    <3>5. ASSUME eng.pc \in {"close", "halted"}, NEW p \in Plugins, active'[p] # None
          PROVE  task'[active'[p]].via # "autostart"
      <4>1. active'[p] \in {active[p], t} /\ active'[p] \in Tasks
        BY <3>1, <3>5, TaskStepPublishesItself DEF TaskTypes
      <4> QED BY <3>2, <3>5, <4>1 DEF ShutdownInv
    <3> QED BY <3>1, <3>4, <3>5 DEF ShutdownInv
  <2>3. CASE UNCHANGED <<active, task, autostart, eng>>
    BY <2>3 DEF ShutdownInv, Running
  <2>4. CASE Hear \/ SynthesizeCommands \/ UNCHANGED vars
    BY <2>3, <2>4 DEF Hear, SynthesizeCommands, vars, gatewayVars, engineVars
  <2>5. CASE BeginUpdate \/ Update \/ BeginShutdown
    <3>1. autostart = {} /\ autostart' = {} /\ eng.pc \notin {"close", "halted"}
      BY <2>5 DEF BeginUpdate, Update, BeginShutdown, StopNext, StopAwaited, ClearCache, ClearSpecs,
                  InstallConfig, RebuildRegistry, StartNext, StartAwaited, EndUpdate, Awaited,
                  ShutdownInv
    <3>2. eng'.pc \notin {"close", "halted"}
      <4>1. CASE BeginUpdate \/ EndUpdate
        <5>1. CASE BeginUpdate
          BY <5>1 DEF BeginUpdate, Idle
        <5>2. CASE EndUpdate
          BY <5>2 DEF EndUpdate, Idle
        <5> QED BY <4>1, <5>1, <5>2
      <4>2. CASE StopNext \/ StartNext \/ BeginShutdown
        BY <4>2 DEF StopNext, StartNext, BeginShutdown, TaskTypes, EngineType
      <4>3. CASE StopAwaited \/ StartAwaited \/ ClearCache \/ ClearSpecs \/ InstallConfig \/ RebuildRegistry
        BY <4>3 DEF StopAwaited, StartAwaited, Awaited, Proceed, ClearCache, ClearSpecs, InstallConfig,
                    RebuildRegistry, TaskTypes, EngineType
      <4> QED BY <2>5, <4>1, <4>2, <4>3 DEF Update
    <3> QED BY <3>1, <3>2 DEF ShutdownInv
  <2>6. CASE Drain
    <3>1. /\ \A t \in Tasks : task[t].via = "autostart" => ~Running(t)
          /\ task' = task /\ autostart' = autostart /\ eng.pc = "join"
          /\ \A p \in Plugins : active'[p] = None
      BY <2>6 DEF Drain
    <3> QED BY <3>1 DEF ShutdownInv, Running
  <2>7. CASE CloseNext \/ EndShutdown
    <3>1. eng.pc = "close" /\ UNCHANGED <<task, active, autostart>>
      BY <2>7 DEF CloseNext, EndShutdown
    <3> QED BY <3>1 DEF ShutdownInv, Running
  <2>8. CASE Load
    BY <2>3, <2>8, LoadChanges
  <2> QED BY <2>1, <2>2, <2>4, <2>5, <2>6, <2>7, <2>8 DEF Next, Shutdown
<1>3. TaskTypes /\ ClientInv /\ ShutdownInv => ShutdownClosesAutostarted
  <2> SUFFICES ASSUME TaskTypes, ClientInv, ShutdownInv, eng.pc = "halted",
                      NEW t \in Tasks, task[t].via = "autostart", conn[t] = "up"
               PROVE  \E u \in Tasks : Holds(u, t)
    BY DEF ShutdownClosesAutostarted
  <2>1. Drained = {}
    BY DEF Drained
  <2>2. task[t].plugin \in Plugins
    BY DEF ClientInv, HandsAreFull, TaskTypes
  <2>3. active[task[t].plugin] # t
    BY <2>2 DEF ShutdownInv, None, Tasks
  <2> QED BY <2>1, <2>3 DEF ClientInv, ClientsAreOwned
<1> QED BY <1>1, <1>2, <1>3, TaskTyping, ClientInvariant, PTL DEF Spec

-----------------------------------------------------------------------------
(* The registry and the gateway *)

\* The events on their way to the listener.
EventType == [type : {"Starting", "Started", "StartFailed", "Stopping", "Stopped", "ToolsUpdated"},
              plugin : Plugins, version : Versions \cup {"none"}]

StatusEvents(p) == {i \in 1 .. Len(bus) : bus[i].plugin = p /\ bus[i].type # "ToolsUpdated"}
ToolsEvents(p)  == {i \in 1 .. Len(bus) : bus[i].plugin = p /\ bus[i].type = "ToolsUpdated"}

\* Once the listener has heard what is on its way, plugin p is listed as running,
\* or the tools of version v are cached for it, or those of a late load.
WillRun(p) ==
    \/ StatusEvents(p) = {} /\ status[p] = "Running"
    \/ \E i \in StatusEvents(p) : bus[i].type = "Started" /\ \A j \in StatusEvents(p) : j <= i
WillCache(p, v) ==
    \/ ToolsEvents(p) = {} /\ (cache[p] = v \/ p \in stale)
    \/ \E i \in ToolsEvents(p) : bus[i].version = v /\ \A j \in ToolsEvents(p) : j <= i

\* The tasks spawned for plugin p, and those of them that are not over.
TasksOf(p) == {t \in Tasks : task[t].plugin = p /\ task[t].pc # "free"}
Busy(p)    == {t \in TasksOf(p) : Running(t)}
Still(p)   == active[p] = None /\ Busy(p) = {}

\* Where a task owes the listener a status event, and where a tools event.
OwesStatus == {"connect", "release", "publish", "failed", "announce", "mark", "disconnect", "stopped"}
OwesTools  == {"announce", "tools", "mark", "disconnect", "stopped", "cleared"}

\* One task at a time works on the plugin; what it does fits the active client
\* and the configuration in force.
TaskFits(p) ==
    \A t \in Busy(p) :
        /\ Busy(p) = {t}
        /\ task[t].pc \in {"claim", "connect", "release", "publish", "announce", "tools"}
              => task[t].version = config[p]
        /\ active[p] = IF task[t].pc \in {"announce", "tools"} THEN t
                       ELSE IF task[t].pc \in {"check", "take"} THEN active[p] ELSE None

\* The active client is one of the plugin's tasks and has the version in force.
ClientFits(p) ==
    active[p] # None => active[p] \in TasksOf(p) /\ task[active[p]].version = config[p]

\* What will be listed and cached is what is active, unless a task owes an event.
ListingFits(p) ==
    /\ (\A t \in Busy(p) : task[t].pc \notin OwesStatus) => (WillRun(p) <=> active[p] # None)
    /\ (\A t \in Busy(p) : task[t].pc \notin OwesTools) => WillCache(p, ToolsOf(p))

\* A plugin that is not registered has no client and no task; a reload leaves a
\* plugin that it has stopped so until the configuration is installed; and the
\* task the reload waits for is the only one of its plugin.
ReloadFits(p) ==
    /\ ~Registered(p) => Still(p)
    /\ eng.pc \in {"stopNext", "stopWait"} /\ p \notin eng.todo =>
           Still(p) \/ (eng.pc = "stopWait" /\ eng.plugin = p)
    /\ eng.pc \in {"clearSpecs", "install", "rebuild"} => Still(p)
    /\ eng.pc = "stopWait" /\ eng.plugin = p =>
           /\ eng.task \in TasksOf(p) /\ Busy(p) \subseteq {eng.task} /\ task[eng.task].op = "stop"
           /\ task[eng.task].pc \in StopPcs \cup {"done", "stopTimedOut"}
           /\ task[eng.task].pc = "done" => active[p] = None
    /\ eng.pc = "startWait" /\ eng.plugin = p =>
           /\ eng.task \in TasksOf(p) /\ Busy(p) \subseteq {eng.task}
           /\ task[eng.task].pc \in StartPcs \cup {"done", "refused", "startTimedOut"}
           /\ task[eng.task].pc = "done" => active[p] = eng.task

PluginFits(p) == TaskFits(p) /\ ClientFits(p) /\ ListingFits(p) /\ ReloadFits(p)

\* What is registered is what is configured, but for the moment between the two.
RegisteredFits ==
    /\ eng.pc # "rebuild" => \A p \in Plugins : Registered(p) <=> config[p] # "absent"
    /\ autostart \subseteq {p \in Plugins : Registered(p)}
    /\ eng.pc # "idle" => autostart = {}
    /\ eng.pc \in {"stopNext", "stopWait"} => eng.todo \subseteq {p \in Plugins : Registered(p)}

\* The events and the registry have their types; the listener hears until the
\* shutdown.
BusFits ==
    /\ bus \in Seq(EventType)
    /\ status \in [Plugins -> {"absent", "Starting", "Running", "Error", "Stopping", "Stopped"}]
    /\ cache \in [Plugins -> Versions \cup {"none"}]
    /\ load \in [Loads -> [plugin : Plugins \cup {"none"}, version : Versions \cup {"none"}]]
    /\ alone \subseteq Plugins
    /\ lagged \in BOOLEAN
    /\ listening <=> eng.pc \notin {"join", "close", "halted"}

\* As long as no event was lost, all this fits for a plugin whose operations
\* neither overlapped nor timed out.
RegistryInv ==
    /\ BusFits /\ RegisteredFits
    /\ listening /\ ~lagged => \A p \in alone : ~Hung(p) => PluginFits(p)

\* An event that is not lost comes last: it settles what will be listed or cached
\* for its plugin, and nothing else.
LEMMA SendTells ==
    ASSUME BusFits, listening, ~lagged', NEW e \in EventType, Send(e), UNCHANGED <<status, cache, stale>>,
           NEW p \in Plugins
    PROVE  /\ e.plugin = p /\ e.type # "ToolsUpdated" => (WillRun(p)' <=> e.type = "Started")
           /\ e.plugin # p \/ e.type = "ToolsUpdated" => (WillRun(p)' <=> WillRun(p))
           /\ e.plugin = p /\ e.type = "ToolsUpdated" => \A v : WillCache(p, v)' <=> e.version = v
           /\ e.plugin # p \/ e.type # "ToolsUpdated" => \A v : WillCache(p, v)' <=> WillCache(p, v)
<1> DEFINE n == Len(bus)
<1>1. bus \in Seq(EventType) /\ n \in Nat
  BY DEF BusFits
<1>2. bus' = Append(bus, e)
  <2>1. ~(Len(bus) >= Capacity)
    BY DEF Send
  <2>2. Len(bus) < Capacity
    BY <1>1, <2>1, GatewayAssumption
  <2> QED BY <2>2 DEF Send
<1>3. /\ Len(bus') = n + 1 /\ bus'[n + 1] = e
      /\ \A i \in 1 .. n : bus'[i] = bus[i]
  BY <1>1, <1>2
<1>4. StatusEvents(p)' = StatusEvents(p) \cup {i \in {n + 1} : e.plugin = p /\ e.type # "ToolsUpdated"}
  BY <1>1, <1>3 DEF StatusEvents
<1>5. ToolsEvents(p)' = ToolsEvents(p) \cup {i \in {n + 1} : e.plugin = p /\ e.type = "ToolsUpdated"}
  BY <1>1, <1>3 DEF ToolsEvents
<1>6. /\ \A i \in StatusEvents(p) \cup ToolsEvents(p) : i \in 1 .. n /\ bus'[i] = bus[i]
      /\ \A i \in 1 .. n : i \in Nat /\ ~(n + 1 <= i) /\ i <= n + 1
  BY <1>1, <1>3 DEF StatusEvents, ToolsEvents
<1> HIDE DEF n
<1>7. ASSUME e.plugin = p, e.type # "ToolsUpdated" PROVE WillRun(p)' <=> e.type = "Started"
  <2>1. n + 1 \in StatusEvents(p)'
    BY <1>4, <1>7
  <2> QED BY <1>1, <1>3, <1>4, <1>6, <1>7, <2>1 DEF WillRun
<1>8. ASSUME e.plugin = p, e.type = "ToolsUpdated", NEW v PROVE WillCache(p, v)' <=> e.version = v
  <2>1. n + 1 \in ToolsEvents(p)'
    BY <1>5, <1>8
  <2> QED BY <1>1, <1>3, <1>5, <1>6, <1>8, <2>1 DEF WillCache
<1>9. ASSUME e.plugin # p \/ e.type = "ToolsUpdated" PROVE WillRun(p)' <=> WillRun(p)
  <2>1. StatusEvents(p)' = StatusEvents(p)
    BY <1>4, <1>9
  <2> QED BY <1>6, <2>1 DEF WillRun
<1>10. ASSUME e.plugin # p \/ e.type # "ToolsUpdated", NEW v PROVE WillCache(p, v)' <=> WillCache(p, v)
  <2>1. ToolsEvents(p)' = ToolsEvents(p)
    BY <1>5, <1>10
  <2> QED BY <1>6, <2>1 DEF WillCache
<1> QED BY <1>7, <1>8, <1>9, <1>10

\* Sending keeps the events on their way of their type.
LEMMA SendKeepsBus ==
    ASSUME bus \in Seq(EventType), NEW e \in EventType, Send(e)
    PROVE  /\ bus' \in Seq(EventType)
           /\ lagged \in BOOLEAN => lagged' \in BOOLEAN
           /\ lagged => lagged'
<1>1. CASE listening /\ Len(bus) < Capacity
  <2>1. bus' = Append(bus, e) /\ lagged' = (lagged \/ Len(bus) >= Capacity)
    BY <1>1 DEF Send
  <2>2. bus' \in Seq(EventType)
    BY <2>1
  <2> QED BY <2>1, <2>2
<1>2. CASE listening /\ ~(Len(bus) < Capacity)
  <2>1. Len(bus) \in Nat /\ Capacity \in Nat \ {0}
    BY GatewayAssumption
  <2>2. bus # <<>>
    BY <1>2, <2>1
  <2>3. Tail(bus) \in Seq(EventType)
    BY <2>2
  <2>4. bus' = Append(Tail(bus), e) /\ lagged' = (lagged \/ Len(bus) >= Capacity)
    BY <1>2 DEF Send
  <2>5. bus' \in Seq(EventType)
    BY <2>3, <2>4
  <2> QED BY <2>4, <2>5
<1>3. CASE ~listening
  BY <1>3 DEF Send
<1> QED BY <1>1, <1>2, <1>3

\* The last of E is one of G.
LastIsOf(E, G) == \E i \in E : i \in G /\ \A j \in E : j <= i

\* When the first of several is taken away, the last remains the last.
LEMMA LastIsShifted ==
    ASSUME NEW n \in Nat \ {0}, NEW E \in SUBSET (1 .. n), NEW F \in SUBSET (1 .. n - 1),
           NEW G \in SUBSET Nat, NEW H \in SUBSET Nat,
           \A i \in 1 .. n - 1 : i \in F <=> i + 1 \in E,
           \A i \in F : i \in H <=> i + 1 \in G
    PROVE  /\ F # {} => (LastIsOf(F, H) <=> LastIsOf(E, G))
           /\ F = {} => E \subseteq {1}
<1>1. ASSUME NEW j \in E, j # 1
      PROVE  j - 1 \in F /\ (j - 1) + 1 = j
  <2>1. j - 1 \in 1 .. n - 1 /\ (j - 1) + 1 = j
    BY <1>1
  <2> QED BY <2>1
<1>2. ASSUME NEW k \in F, NEW i \in E, i \in G, \A j \in E : j <= i
      PROVE  \E h \in F : h \in H /\ \A j \in F : j <= h
  <2>1. i # 1
    BY <1>2
  <2>2. i - 1 \in F /\ (i - 1) + 1 = i
    BY <1>1, <2>1
  <2>3. i - 1 \in H
    BY <1>2, <2>2
  <2>4. ASSUME NEW j \in F PROVE j <= i - 1
    <3>1. j + 1 \in E /\ j \in 1 .. n - 1
      OBVIOUS
    <3>2. j + 1 <= i
      BY <1>2, <3>1
    <3> QED BY <3>1, <3>2
  <2> QED BY <2>2, <2>3, <2>4
<1>3. ASSUME NEW i \in F, i \in H, \A j \in F : j <= i
      PROVE  \E h \in E : h \in G /\ \A j \in E : j <= h
  <2>1. i + 1 \in E /\ i + 1 \in G /\ i \in 1 .. n - 1
    BY <1>3
  <2>2. ASSUME NEW j \in E PROVE j <= i + 1
    <3>1. CASE j = 1
      BY <2>1, <3>1
    <3>2. CASE j # 1
      <4>1. j - 1 \in F
        BY <1>1, <3>2
      <4>2. j - 1 <= i
        BY <1>3, <4>1
      <4> QED BY <2>1, <4>2
    <3> QED BY <3>1, <3>2
  <2> QED BY <2>1, <2>2
<1> QED BY <1>1, <1>2, <1>3 DEF LastIsOf

\* Hearing an event does what it was going to do, when the plugin is registered
\* or is not going to be listed as running.
LEMMA HearTells ==
    ASSUME BusFits, Hear, NEW p \in Plugins, Registered(p) \/ ~WillRun(p)
    PROVE  /\ WillRun(p)' <=> WillRun(p)
           /\ \A v : WillCache(p, v)' <=> WillCache(p, v)
<1> DEFINE n == Len(bus)
           e == Head(bus)
<1>1. bus \in Seq(EventType) /\ bus # <<>> /\ bus' = Tail(bus)
  BY DEF BusFits, Hear
<1>2. n \in Nat \ {0} /\ Len(bus') = n - 1 /\ e = bus[1] /\ e \in EventType
  BY <1>1
<1>3. \A i \in 1 .. n - 1 : bus'[i] = bus[i + 1]
  BY <1>1, <1>2
<1>4. e.plugin \in Plugins /\ e.type \in {"Starting", "Started", "StartFailed", "Stopping", "Stopped", "ToolsUpdated"}
  BY <1>2 DEF EventType
<1>5. /\ e.type = "ToolsUpdated" => /\ status' = status /\ stale' = stale \ {e.plugin}
                                    /\ cache' = [cache EXCEPT ![e.plugin] = e.version]
      /\ e.type # "ToolsUpdated" => cache' = cache /\ stale' = stale /\
             status' = IF Registered(e.plugin) THEN [status EXCEPT ![e.plugin] = StatusOf(e.type)] ELSE status
  BY DEF Hear, CacheTools, HearStatus
<1>6. e.type # "ToolsUpdated" => (StatusOf(e.type) = "Running" <=> e.type = "Started")
  BY <1>4 DEF StatusOf
<1> HIDE DEF n, e
<1>7. /\ \A i \in 1 .. n - 1 : i \in StatusEvents(p)' <=> i + 1 \in StatusEvents(p)
      /\ StatusEvents(p) \in SUBSET (1 .. n) /\ StatusEvents(p)' \in SUBSET (1 .. n - 1)
      /\ 1 \in StatusEvents(p) <=> e.plugin = p /\ e.type # "ToolsUpdated"
  BY <1>2, <1>3 DEF StatusEvents, n, e
<1>8. /\ \A i \in 1 .. n - 1 : i \in ToolsEvents(p)' <=> i + 1 \in ToolsEvents(p)
      /\ ToolsEvents(p) \in SUBSET (1 .. n) /\ ToolsEvents(p)' \in SUBSET (1 .. n - 1)
      /\ 1 \in ToolsEvents(p) <=> e.plugin = p /\ e.type = "ToolsUpdated"
  BY <1>2, <1>3 DEF ToolsEvents, n, e
<1>9. WillRun(p)' <=> WillRun(p)
  <2> DEFINE G == {i \in 1 .. n : bus[i].type = "Started"}
             H == {i \in 1 .. n - 1 : bus[i + 1].type = "Started"}
  <2>1. \A i \in StatusEvents(p)' : i \in H <=> i + 1 \in G
    BY <1>2, <1>7
  <2>2. /\ \A i \in StatusEvents(p) : i \in G <=> bus[i].type = "Started"
        /\ \A i \in StatusEvents(p)' : i \in H <=> bus'[i].type = "Started"
    BY <1>3, <1>7
  <2> HIDE DEF G, H
  <2> DEFINE E == StatusEvents(p)
             F == StatusEvents(p)'
  <2>3. /\ F # {} => (LastIsOf(F, H) <=> LastIsOf(E, G))
        /\ F = {} => E \subseteq {1}
    <3>1. /\ E \in SUBSET (1 .. n) /\ F \in SUBSET (1 .. n - 1)
          /\ \A i \in 1 .. n - 1 : i \in F <=> i + 1 \in E
          /\ \A i \in F : i \in H <=> i + 1 \in G
      BY <1>7, <2>1
    <3>2. G \in SUBSET Nat /\ H \in SUBSET Nat /\ n \in Nat \ {0}
      BY <1>2 DEF G, H
    <3> HIDE DEF E, F
    <3> QED BY <3>1, <3>2, LastIsShifted
  <2>4. CASE StatusEvents(p)' # {}
    <3>1. StatusEvents(p) # {}
      BY <1>7, <2>4
    <3> QED BY <2>2, <2>3, <2>4, <3>1 DEF WillRun, LastIsOf
  <2>5. CASE StatusEvents(p)' = {} /\ 1 \in StatusEvents(p)
    <3>1. StatusEvents(p) = {1} /\ bus[1] = e /\ e.plugin = p /\ e.type # "ToolsUpdated"
      BY <1>2, <1>7, <2>3, <2>5
    <3>2. WillRun(p) <=> e.type = "Started"
      BY <3>1 DEF WillRun
    <3>3. WillRun(p)' <=> status'[p] = "Running"
      BY <2>5 DEF WillRun
    <3>4. CASE Registered(p)
      BY <1>5, <1>6, <3>1, <3>2, <3>3, <3>4 DEF BusFits
    <3>5. CASE ~Registered(p)
      <4>1. status'[p] = "absent"
        BY <1>5, <3>1, <3>5 DEF Registered
      <4> QED BY <3>3, <3>5, <4>1
    <3> QED BY <3>4, <3>5
  <2>6. CASE StatusEvents(p)' = {} /\ 1 \notin StatusEvents(p)
    <3>1. StatusEvents(p) = {}
      BY <2>3, <2>6
    <3>2. status'[p] = status[p]
      BY <1>4, <1>5, <1>7, <2>6 DEF BusFits
    <3> QED BY <2>6, <3>1, <3>2 DEF WillRun
  <2> QED BY <2>4, <2>5, <2>6
<1>10. ASSUME NEW v PROVE WillCache(p, v)' <=> WillCache(p, v)
  <2> DEFINE G == {i \in 1 .. n : bus[i].version = v}
             H == {i \in 1 .. n - 1 : bus[i + 1].version = v}
  <2>1. \A i \in ToolsEvents(p)' : i \in H <=> i + 1 \in G
    BY <1>2, <1>8
  <2>2. /\ \A i \in ToolsEvents(p) : i \in G <=> bus[i].version = v
        /\ \A i \in ToolsEvents(p)' : i \in H <=> bus'[i].version = v
    BY <1>3, <1>8
  <2> HIDE DEF G, H
  <2> DEFINE E == ToolsEvents(p)
             F == ToolsEvents(p)'
  <2>3. /\ F # {} => (LastIsOf(F, H) <=> LastIsOf(E, G))
        /\ F = {} => E \subseteq {1}
    <3>1. /\ E \in SUBSET (1 .. n) /\ F \in SUBSET (1 .. n - 1)
          /\ \A i \in 1 .. n - 1 : i \in F <=> i + 1 \in E
          /\ \A i \in F : i \in H <=> i + 1 \in G
      BY <1>8, <2>1
    <3>2. G \in SUBSET Nat /\ H \in SUBSET Nat /\ n \in Nat \ {0}
      BY <1>2 DEF G, H
    <3> HIDE DEF E, F
    <3> QED BY <3>1, <3>2, LastIsShifted
  <2>4. CASE ToolsEvents(p)' # {}
    <3>1. ToolsEvents(p) # {}
      BY <1>8, <2>4
    <3> QED BY <2>2, <2>3, <2>4, <3>1 DEF WillCache, LastIsOf
  <2>5. CASE ToolsEvents(p)' = {} /\ 1 \in ToolsEvents(p)
    <3>1. ToolsEvents(p) = {1} /\ bus[1] = e /\ e.plugin = p /\ e.type = "ToolsUpdated"
      BY <1>2, <1>8, <2>3, <2>5
    <3>2. WillCache(p, v) <=> e.version = v
      BY <3>1 DEF WillCache
    <3>3. WillCache(p, v)' <=> cache'[p] = v
      BY <1>5, <2>5, <3>1 DEF WillCache
    <3> QED BY <1>5, <3>1, <3>2, <3>3 DEF BusFits
  <2>6. CASE ToolsEvents(p)' = {} /\ 1 \notin ToolsEvents(p)
    <3>1. ToolsEvents(p) = {}
      BY <2>3, <2>6
    <3>2. cache'[p] = cache[p] /\ (p \in stale' <=> p \in stale)
      BY <1>4, <1>5, <1>8, <2>6 DEF BusFits
    <3> QED BY <2>6, <3>1, <3>2 DEF WillCache
  <2> QED BY <2>4, <2>5, <2>6
<1> QED BY <1>9, <1>10

\* A step that leaves the plugin's tasks, its client and its entry alone and loses
\* none of its events leaves what fits fitting, as far as the reload is concerned.
LEMMA OthersStepFits ==
    ASSUME NEW p \in Plugins, PluginFits(p), ReloadFits(p)',
           TasksOf(p)' = TasksOf(p), \A t \in TasksOf(p) : task'[t] = task[t],
           active'[p] = active[p], config'[p] = config[p], TaskTypes,
           WillRun(p)' <=> WillRun(p), \A v : WillCache(p, v)' <=> WillCache(p, v)
    PROVE  PluginFits(p)'
<1>1. Busy(p)' = Busy(p)
  BY DEF Busy, Running, TasksOf
<1>2. active[p] # None => active[p] \in TasksOf(p)
  BY DEF PluginFits, ClientFits
<1>3. ToolsOf(p)' = ToolsOf(p)
  BY <1>2 DEF ToolsOf
<1>4. TaskFits(p)'
  <2>1. \A t \in Busy(p) : task'[t] = task[t]
    BY DEF Busy
  <2> QED BY <1>1, <2>1 DEF PluginFits, TaskFits
<1>5. ClientFits(p)'
  BY <1>2 DEF PluginFits, ClientFits
<1>6. ListingFits(p)'
  <2>1. \A t \in Busy(p) : task'[t] = task[t]
    BY DEF Busy
  <2> QED BY <1>1, <1>3, <2>1 DEF PluginFits, ListingFits
<1> QED BY <1>4, <1>5, <1>6 DEF PluginFits

\* So does one that leaves the engine alone as well.
LEMMA SameReloadFits ==
    ASSUME NEW p \in Plugins, ReloadFits(p), eng' = eng, Registered(p)' <=> Registered(p),
           TasksOf(p)' = TasksOf(p), \A t \in TasksOf(p) : task'[t] = task[t],
           active'[p] = active[p]
    PROVE  ReloadFits(p)'
<1>1. Busy(p)' = Busy(p) /\ (Still(p)' <=> Still(p))
  BY DEF Busy, Still, Running, TasksOf
<1> QED BY <1>1 DEF ReloadFits

\* What a step of a task does to its own plugin: the task it is about is the only
\* one that goes on.
LEMMA OwnStepTasks ==
    ASSUME TaskTypes, NEW t \in Tasks, TaskStep(t), NEW p, p = task[t].plugin, PluginFits(p)
    PROVE  /\ p \in Plugins /\ t \in Busy(p) /\ Busy(p) = {t}
           /\ TasksOf(p)' = TasksOf(p) /\ t \in TasksOf(p)
           /\ \A u \in TasksOf(p) \ {t} : task'[u] = task[u]
           /\ Busy(p)' = {u \in {t} : Running(t)'}
<1>1. p \in Plugins /\ t \in Busy(p) /\ t \in TasksOf(p)
  BY TaskStepChanges DEF TaskTypes, Busy, TasksOf, Running, StartPcs, StopPcs
<1>2. Busy(p) = {t}
  BY <1>1 DEF PluginFits, TaskFits
<1>3. /\ task'[t].pc # "free" /\ task'[t].plugin = task[t].plugin /\ task[t].pc # "free"
      /\ \A u \in Tasks \ {t} : task'[u] = task[u]
  BY <1>1, TaskStepChanges DEF TasksOf
<1>4. TasksOf(p)' = TasksOf(p)
  BY <1>3 DEF TasksOf
<1>5. \A u \in TasksOf(p) \ {t} : task'[u] = task[u]
  BY <1>3 DEF TasksOf
<1>6. \A u \in TasksOf(p) \ {t} : ~Running(u)'
  BY <1>2, <1>5 DEF Busy, Running
<1>7. Busy(p)' = {u \in {t} : Running(t)'}
  BY <1>1, <1>4, <1>6 DEF Busy
<1> QED BY <1>1, <1>2, <1>4, <1>5, <1>7

\* What there is to show of a step of a task that ends up at pc.
LEMMA OwnStepFits ==
    ASSUME TaskTypes, NEW t \in Tasks, TaskStep(t), NEW p, p = task[t].plugin, PluginFits(p),
           eng' = eng, status' = status, NEW pc, task'[t].pc = pc,
           pc \in {"claim", "connect", "release", "publish", "announce", "tools"}
              => task'[t].version = config[p],
           pc \in {"announce", "tools"} => active'[p] = t,
           pc \in {"claim", "connect", "release", "publish", "failed", "mark", "disconnect",
                   "stopped", "cleared"} => active'[p] = None,
           active'[p] # None => active'[p] \in TasksOf(p) /\ task'[active'[p]].version = config[p],
           pc \notin OwesStatus => (WillRun(p)' <=> active'[p] # None),
           NEW v, v = IF active'[p] = None THEN "none" ELSE config[p],
           pc \notin OwesTools => WillCache(p, v)',
           eng.pc = "stopWait" /\ eng.plugin = p /\ eng.task = t =>
               /\ task'[t].op = "stop" /\ pc \in StopPcs \cup {"done", "stopTimedOut"}
               /\ pc = "done" => active'[p] = None,
           eng.pc = "startWait" /\ eng.plugin = p /\ eng.task = t =>
               /\ pc \in StartPcs \cup {"done", "refused", "startTimedOut"}
               /\ pc = "done" => active'[p] = t
    PROVE  PluginFits(p)'
<1>1. /\ p \in Plugins /\ t \in Busy(p) /\ Busy(p) = {t}
      /\ TasksOf(p)' = TasksOf(p) /\ t \in TasksOf(p)
      /\ \A u \in TasksOf(p) \ {t} : task'[u] = task[u]
      /\ Busy(p)' = {u \in {t} : Running(t)'}
  BY OwnStepTasks
<1>2. config' = config
  BY TaskStepChanges
<1>3. Running(t)' <=> pc \in StartPcs \cup StopPcs
  BY DEF Running
<1>4. TaskFits(p)'
  <2>1. SUFFICES ASSUME pc \in StartPcs \cup StopPcs
                 PROVE  /\ pc \in {"claim", "connect", "release", "publish", "announce", "tools"}
                              => task'[t].version = config[p]
                        /\ active'[p] = IF pc \in {"announce", "tools"} THEN t
                                        ELSE IF pc \in {"check", "take"} THEN active'[p] ELSE None
    BY <1>1, <1>2, <1>3 DEF TaskFits
  <2> QED BY <2>1 DEF StartPcs, StopPcs
<1>5. ClientFits(p)'
  BY <1>1, <1>2 DEF ClientFits
<1>6. ListingFits(p)'
  <2>1. ToolsOf(p)' = v
    BY DEF ToolsOf
  <2>2. OwesStatus \subseteq StartPcs \cup StopPcs /\ OwesTools \subseteq StartPcs \cup StopPcs
    BY DEF OwesStatus, OwesTools, StartPcs, StopPcs
  <2>3. ASSUME \A u \in Busy(p)' : task'[u].pc \notin OwesStatus PROVE WillRun(p)' <=> active'[p] # None
    BY <1>1, <1>3, <2>2, <2>3
  <2>4. ASSUME \A u \in Busy(p)' : task'[u].pc \notin OwesTools PROVE WillCache(p, ToolsOf(p))'
    <3>1. pc \notin OwesTools
      BY <1>1, <1>3, <2>2, <2>4
    <3> QED BY <2>1, <3>1 DEF WillCache
  <2> QED BY <2>3, <2>4 DEF ListingFits
<1>7. ReloadFits(p)'
  <2>1. Registered(p) /\ ~Still(p)
    BY <1>1 DEF PluginFits, ReloadFits, Still
  <2>2. eng.pc \in {"stopNext", "stopWait"} /\ p \notin eng.todo => eng.pc = "stopWait" /\ eng.plugin = p
    BY <2>1 DEF PluginFits, ReloadFits
  <2>3. eng.pc \notin {"clearSpecs", "install", "rebuild"}
    BY <2>1 DEF PluginFits, ReloadFits
  <2>4. eng.pc \in {"stopWait", "startWait"} /\ eng.plugin = p => eng.task = t
    BY <1>1 DEF PluginFits, ReloadFits
  <2>5. Registered(p)'
    BY <2>1 DEF Registered
  <2> QED BY <1>1, <2>2, <2>3, <2>4, <2>5 DEF ReloadFits
<1> QED BY <1>4, <1>5, <1>6, <1>7 DEF PluginFits

\* What an unheard event says is what it said, if none is sent or heard.
LEMMA SilenceTells ==
    ASSUME UNCHANGED <<bus, status, cache, stale>>, NEW p \in Plugins
    PROVE  (WillRun(p)' <=> WillRun(p)) /\ \A v : WillCache(p, v)' <=> WillCache(p, v)
BY DEF WillRun, WillCache, StatusEvents, ToolsEvents

\* A step of a task sends at most one event, about its own plugin.
LEMMA TaskStepSends ==
    ASSUME TaskTypes, NEW t \in Tasks, TaskStep(t)
    PROVE  /\ listening' = listening
           /\ \/ UNCHANGED <<bus, lagged>>
              \/ \E e \in EventType : e.plugin = task[t].plugin /\ Send(e)
<1> DEFINE p == task[t].plugin
           v == task[t].version
<1>1. p \in Plugins /\ v \in Versions \cup {"none"}
  BY TaskStepChanges DEF TaskTypes, TaskType, StartPcs, StopPcs
<1>2. \A type \in {"Starting", "Started", "StartFailed", "Stopping", "Stopped", "ToolsUpdated"},
         w \in {v, "none"} :
          Event(type, p, w) \in EventType /\ Event(type, p, w).plugin = p
  BY <1>1 DEF Event, EventType
<1>3. CASE Check(t) \/ Connect(t) \/ Release(t) \/ Publish(t) \/ Take(t) \/ Disconnect(t) \/ TimeOut(t)
  BY <1>3 DEF Check, Connect, Release, Publish, Take, Disconnect, TimeOut
<1>4. CASE Claim(t)
  <2>1. listening' = listening
    BY <1>4 DEF Claim
  <2>2. UNCHANGED <<bus, lagged>> \/ Send(Event("Starting", p, "none"))
    BY <1>4 DEF Claim
  <2> QED BY <1>2, <2>1, <2>2
<1>5. CASE AnnounceStarted(t) \/ AnnounceFailure(t) \/ AnnounceTools(t) \/ Mark(t)
           \/ AnnounceStopped(t) \/ AnnounceNoTools(t)
  <2>1. listening' = listening
    BY <1>5 DEF AnnounceStarted, AnnounceFailure, AnnounceTools, Mark, AnnounceStopped,
                AnnounceNoTools, Announce
  <2>2. \/ Send(Event("Started", p, "none")) \/ Send(Event("StartFailed", p, "none"))
        \/ Send(Event("ToolsUpdated", p, v)) \/ Send(Event("Stopping", p, "none"))
        \/ Send(Event("Stopped", p, "none")) \/ Send(Event("ToolsUpdated", p, "none"))
    BY <1>5 DEF AnnounceStarted, AnnounceFailure, AnnounceTools, Mark, AnnounceStopped,
                AnnounceNoTools, Announce
  <2> QED BY <1>2, <2>1, <2>2
<1> QED BY <1>3, <1>4, <1>5 DEF TaskStep

\* The position of a task and what fits it, before it takes a step.
LEMMA OwnTaskFits ==
    ASSUME TaskTypes, NEW t \in Tasks, TaskStep(t), NEW p, p = task[t].plugin, PluginFits(p),
           NEW v, v = IF active[p] = None THEN "none" ELSE config[p]
    PROVE  /\ task[t].pc \in {"claim", "connect", "release", "publish", "announce", "tools"}
                 => task[t].version = config[p]
           /\ task[t].pc \in {"announce", "tools"} => active[p] = t
           /\ task[t].pc \in {"claim", "connect", "release", "publish", "failed", "mark", "disconnect",
                              "stopped", "cleared"} => active[p] = None
           /\ active[p] # None => active[p] \in TasksOf(p) /\ task[active[p]].version = config[p]
           /\ task[t].pc \notin OwesStatus => (WillRun(p) <=> active[p] # None)
           /\ task[t].pc \notin OwesTools => WillCache(p, v)
           /\ eng.pc = "stopWait" /\ eng.plugin = p /\ eng.task = t =>
                 task[t].op = "stop" /\ task[t].pc \in StopPcs
           /\ eng.pc = "startWait" /\ eng.plugin = p /\ eng.task = t => task[t].pc \in StartPcs
<1>1. t \in Busy(p) /\ Busy(p) = {t} /\ task[t].pc \in StartPcs \cup StopPcs
  BY OwnStepTasks, TaskStepChanges
<1>2. TaskFits(p) /\ ClientFits(p) /\ ListingFits(p) /\ ReloadFits(p)
  BY DEF PluginFits
<1>3. ToolsOf(p) = v
  BY <1>2 DEF ToolsOf, ClientFits
<1>4. task[t].pc \notin OwesTools => WillCache(p, v)
  BY <1>1, <1>2, <1>3 DEF ListingFits
<1>5. task[t].pc \notin OwesStatus => (WillRun(p) <=> active[p] # None)
  BY <1>1, <1>2 DEF ListingFits
<1>6. /\ task[t].pc \in {"claim", "connect", "release", "publish", "announce", "tools"}
            => task[t].version = config[p]
      /\ active[p] = IF task[t].pc \in {"announce", "tools"} THEN t
                     ELSE IF task[t].pc \in {"check", "take"} THEN active[p] ELSE None
  BY <1>1, <1>2 DEF TaskFits
<1>7. /\ eng.pc = "stopWait" /\ eng.plugin = p /\ eng.task = t =>
            task[t].op = "stop" /\ task[t].pc \in StopPcs
      /\ eng.pc = "startWait" /\ eng.plugin = p /\ eng.task = t => task[t].pc \in StartPcs
  BY <1>1, <1>2 DEF ReloadFits, StartPcs, StopPcs
<1> QED BY <1>2, <1>4, <1>5, <1>6, <1>7 DEF ClientFits

\* A step of a task towards a start keeps what fits its plugin.
LEMMA StartStepFits ==
    ASSUME TaskTypes, BusFits, listening, ~lagged', NEW t \in Tasks, TaskStep(t), UNCHANGED engineVars,
           NEW p, p = task[t].plugin, PluginFits(p), task[t].pc \in StartPcs, ~TimeOut(t)
    PROVE  PluginFits(p)'
<1> DEFINE a == active[p]
<1>1. /\ p \in Plugins /\ TasksOf(p)' = TasksOf(p) /\ t \in TasksOf(p)
      /\ \A u \in TasksOf(p) \ {t} : task'[u] = task[u]
  BY OwnStepTasks
<1>2. eng' = eng /\ status' = status /\ cache' = cache /\ stale' = stale
  BY DEF engineVars
<1>3. PICK v : v = IF active[p] = None THEN "none" ELSE config[p]
  OBVIOUS
<1>4. /\ task[t].pc \in {"claim", "connect", "release", "publish", "announce", "tools"}
            => task[t].version = config[p]
      /\ task[t].pc \in {"announce", "tools"} => active[p] = t
      /\ task[t].pc \in {"claim", "connect", "release", "publish", "failed", "mark", "disconnect",
                         "stopped", "cleared"} => active[p] = None
      /\ active[p] # None => active[p] \in TasksOf(p) /\ task[active[p]].version = config[p]
      /\ task[t].pc \notin OwesStatus => (WillRun(p) <=> active[p] # None)
      /\ task[t].pc \notin OwesTools => WillCache(p, v)
  BY <1>3, OwnTaskFits
<1>5. ~(eng.pc = "stopWait" /\ eng.plugin = p /\ eng.task = t)
  BY <1>3, OwnTaskFits DEF StartPcs, StopPcs
<1>6. task \in [Tasks -> TaskType] /\ t # None
  BY DEF TaskTypes, Tasks, None
<1>7. /\ task[t].version \in Versions \cup {"none"}
      /\ \A type \in {"Starting", "Started", "StartFailed", "ToolsUpdated"}, w \in {task[t].version, "none"} :
             Event(type, p, w) \in EventType
  BY <1>1, <1>6 DEF Event, EventType, TaskType
<1>8. ASSUME UNCHANGED bus
      PROVE  (WillRun(p)' <=> WillRun(p)) /\ \A w : WillCache(p, w)' <=> WillCache(p, w)
  BY <1>1, <1>2, <1>8, SilenceTells
<1>9. ASSUME NEW type \in {"Starting", "Started", "StartFailed"}, Send(Event(type, p, "none"))
      PROVE  /\ WillRun(p)' <=> type = "Started"
             /\ \A w : WillCache(p, w)' <=> WillCache(p, w)
  <2> DEFINE e == Event(type, p, "none")
  <2>1. e \in EventType /\ e.plugin = p /\ e.type = type /\ e.type # "ToolsUpdated"
    BY <1>7, <1>9 DEF Event
  <2>2. Send(e)
    BY <1>9
  <2> HIDE DEF e
  <2> QED BY <1>1, <1>2, <2>1, <2>2, SendTells
<1>10. CASE Check(t) /\ Goto(t, "refused")
  <2>1. task[t].pc = "check" /\ UNCHANGED <<active, bus>>
    BY <1>10 DEF Check
  <2>2. task'[t].pc = "refused" /\ task'[t].version = task[t].version
    BY <1>6, <1>10, GotoChanges DEF Pcs, OverPcs
  <2>3. active'[p] # None => active'[p] \in TasksOf(p) /\ task'[active'[p]].version = config[p]
    BY <1>1, <1>4, <2>1, <2>2
  <2>4. (WillRun(p)' <=> active'[p] # None) /\ WillCache(p, v)'
    BY <1>4, <1>8, <2>1 DEF OwesStatus, OwesTools
  <2> QED BY <1>2, <1>3, <1>5, <2>1, <2>2, <2>3, <2>4, OwnStepFits
<1>11. CASE Check(t) /\ ~Goto(t, "refused")
  <2>1. /\ task[t].pc = "check" /\ active[p] = None /\ UNCHANGED <<active, bus>>
        /\ task' = [task EXCEPT ![t].pc = "claim", ![t].version = config[p]]
    BY <1>11 DEF Check
  <2>2. task'[t].pc = "claim" /\ task'[t].version = config[p]
    BY <1>6, <2>1 DEF TaskType
  <2>3. (WillRun(p)' <=> active'[p] # None) /\ WillCache(p, v)'
    BY <1>4, <1>8, <2>1 DEF OwesStatus, OwesTools
  <2>4. "claim" \in StartPcs /\ active'[p] = None
    BY <2>1 DEF StartPcs
  <2> QED BY <1>2, <1>3, <1>5, <2>1, <2>2, <2>3, <2>4, OwnStepFits
<1>12. CASE Claim(t) /\ UNCHANGED bus
  <2>1. task[t].pc = "claim" /\ active' = active
    BY <1>12 DEF Claim
  <2>2. PICK pc \in {"refused", "connect"} : Goto(t, pc) /\ pc \in Pcs
    BY <1>12 DEF Claim, Pcs, StartPcs, OverPcs
  <2>3. task'[t].pc = pc /\ task'[t].version = task[t].version
    BY <1>6, <2>2, GotoChanges
  <2>4. (WillRun(p)' <=> active'[p] # None) /\ WillCache(p, v)'
    BY <1>4, <1>8, <1>12, <2>1 DEF OwesStatus, OwesTools
  <2>5. "connect" \in StartPcs /\ active[p] = None /\ active'[p] = None /\ task[t].version = config[p]
    BY <1>4, <2>1 DEF StartPcs
  <2> QED BY <1>2, <1>3, <1>5, <2>2, <2>3, <2>4, <2>5, OwnStepFits
<1>13. CASE Claim(t) /\ ~UNCHANGED bus
  <2>1. task[t].pc = "claim" /\ active' = active /\ Goto(t, "connect") /\ Send(Event("Starting", p, "none"))
    BY <1>13 DEF Claim
  <2>2. task'[t].pc = "connect" /\ task'[t].version = task[t].version
    BY <1>6, <2>1, GotoChanges DEF Pcs, StartPcs
  <2>3. WillCache(p, v)'
    BY <1>4, <1>9, <2>1 DEF OwesTools
  <2>4. /\ "connect" \in StartPcs /\ "connect" \in OwesStatus
        /\ active[p] = None /\ active'[p] = None /\ task[t].version = config[p]
    BY <1>4, <2>1 DEF StartPcs, OwesStatus
  <2> QED BY <1>2, <1>3, <1>5, <2>2, <2>3, <2>4, OwnStepFits
<1>14. CASE Connect(t) \/ Release(t)
  <2>1. task[t].pc \in {"connect", "release"} /\ active' = active /\ bus' = bus
    BY <1>14 DEF Connect, Release
  <2>2. PICK pc \in {"release", "publish", "failed"} : Goto(t, pc)
    BY <1>14 DEF Connect, Release
  <2>3. pc \in Pcs /\ pc \in StartPcs /\ pc \in OwesStatus
    BY DEF Pcs, StartPcs, OwesStatus
  <2>4. task'[t].pc = pc /\ task'[t].version = task[t].version
    BY <1>6, <2>2, <2>3, GotoChanges
  <2>5. WillCache(p, v)'
    BY <1>4, <1>8, <2>1 DEF OwesTools
  <2>6. active[p] = None /\ active'[p] = None /\ task[t].version = config[p]
    BY <1>4, <2>1
  <2> QED BY <1>2, <1>3, <1>5, <2>3, <2>4, <2>5, <2>6, OwnStepFits
<1>15. CASE Publish(t)
  <2>1. task[t].pc = "publish" /\ active' = [active EXCEPT ![p] = t] /\ Goto(t, "announce")
    BY <1>15 DEF Publish
  <2>2. task'[t].pc = "announce" /\ task'[t].version = task[t].version
    BY <1>6, <2>1, GotoChanges DEF Pcs, StartPcs
  <2>3. active'[p] = t /\ task[t].version = config[p]
    BY <1>1, <1>4, <2>1 DEF TaskTypes
  <2>4. "announce" \in StartPcs /\ "announce" \in OwesStatus /\ "announce" \in OwesTools
    BY DEF StartPcs, OwesStatus, OwesTools
  <2>5. PICK w : w = IF active'[p] = None THEN "none" ELSE config[p]
    OBVIOUS
  <2> QED BY <1>1, <1>2, <1>5, <2>2, <2>3, <2>4, <2>5, OwnStepFits
<1>16. CASE AnnounceStarted(t)
  <2>1. task[t].pc = "announce" /\ active' = active /\ Goto(t, "tools") /\ Send(Event("Started", p, "none"))
    BY <1>16 DEF AnnounceStarted, Announce
  <2>2. task'[t].pc = "tools" /\ task'[t].version = task[t].version
    BY <1>6, <2>1, GotoChanges DEF Pcs, StartPcs
  <2>3. active'[p] = t /\ active[p] = t /\ task[t].version = config[p] /\ WillRun(p)'
    BY <1>4, <1>9, <2>1
  <2>4. "tools" \in StartPcs /\ "tools" \in OwesTools
    BY DEF StartPcs, OwesTools
  <2> QED BY <1>1, <1>2, <1>3, <1>5, <1>6, <2>2, <2>3, <2>4, OwnStepFits
<1>17. CASE AnnounceTools(t)
  <2> DEFINE e == Event("ToolsUpdated", p, task[t].version)
  <2>1. task[t].pc = "tools" /\ active' = active /\ Goto(t, "done") /\ Send(e)
    BY <1>17 DEF AnnounceTools, Announce
  <2>2. task'[t].pc = "done" /\ task'[t].version = task[t].version
    BY <1>6, <2>1, GotoChanges DEF Pcs, OverPcs
  <2>3. active'[p] = t /\ active[p] = t /\ task[t].version = config[p] /\ v = task[t].version
    BY <1>3, <1>4, <1>6, <2>1
  <2>4. e \in EventType /\ e.plugin = p /\ e.type = "ToolsUpdated" /\ e.version = v
    BY <1>7, <2>3 DEF Event
  <2>5. (WillRun(p)' <=> WillRun(p)) /\ WillCache(p, v)'
    <3> HIDE DEF e
    <3> QED BY <1>1, <1>2, <2>1, <2>4, SendTells
  <2>6. WillRun(p)' <=> active'[p] # None
    BY <1>4, <2>1, <2>5 DEF OwesStatus
  <2> QED BY <1>1, <1>2, <1>3, <1>5, <1>6, <2>2, <2>3, <2>5, <2>6, OwnStepFits
<1>18. CASE AnnounceFailure(t)
  <2>1. /\ task[t].pc = "failed" /\ active' = active /\ Goto(t, "refused")
        /\ Send(Event("StartFailed", p, "none"))
    BY <1>18 DEF AnnounceFailure, Announce
  <2>2. task'[t].pc = "refused"
    BY <1>6, <2>1, GotoChanges DEF Pcs, OverPcs
  <2>3. active'[p] = None /\ active[p] = None /\ ~WillRun(p)'
    BY <1>4, <1>9, <2>1
  <2>4. WillCache(p, v)'
    BY <1>4, <1>9, <2>1 DEF OwesTools
  <2> QED BY <1>2, <1>3, <1>5, <2>2, <2>3, <2>4, OwnStepFits
<1>19. ~Take(t) /\ ~Mark(t) /\ ~Disconnect(t) /\ ~AnnounceStopped(t) /\ ~AnnounceNoTools(t)
  BY DEF Take, Mark, Disconnect, AnnounceStopped, AnnounceNoTools, Announce, StartPcs
<1> QED BY <1>10, <1>11, <1>12, <1>13, <1>14, <1>15, <1>16, <1>17, <1>18, <1>19 DEF TaskStep

\* A step of a task towards a stop keeps what fits its plugin.
LEMMA StopStepFits ==
    ASSUME TaskTypes, BusFits, listening, ~lagged', NEW t \in Tasks, TaskStep(t), UNCHANGED engineVars,
           NEW p, p = task[t].plugin, PluginFits(p), task[t].pc \in StopPcs, ~TimeOut(t)
    PROVE  PluginFits(p)'
<1>1. /\ p \in Plugins /\ TasksOf(p)' = TasksOf(p) /\ t \in TasksOf(p)
      /\ \A u \in TasksOf(p) \ {t} : task'[u] = task[u]
  BY OwnStepTasks
<1>2. eng' = eng /\ status' = status /\ cache' = cache /\ stale' = stale
  BY DEF engineVars
<1>3. PICK v : v = IF active[p] = None THEN "none" ELSE config[p]
  OBVIOUS
<1>4. /\ task[t].pc \in {"mark", "disconnect", "stopped", "cleared"} => active[p] = None
      /\ task[t].pc \notin OwesStatus => (WillRun(p) <=> active[p] # None)
      /\ task[t].pc \notin OwesTools => WillCache(p, v)
  BY <1>3, OwnTaskFits
<1>5. /\ eng.pc = "stopWait" /\ eng.plugin = p /\ eng.task = t => task[t].op = "stop"
      /\ ~(eng.pc = "startWait" /\ eng.plugin = p /\ eng.task = t)
  BY <1>3, OwnTaskFits DEF StartPcs, StopPcs
<1>6. task \in [Tasks -> TaskType] /\ t # None
  BY DEF TaskTypes, Tasks, None
<1>7. \A type \in {"Stopping", "Stopped", "ToolsUpdated"} : Event(type, p, "none") \in EventType
  BY <1>1 DEF Event, EventType
<1>8. ASSUME UNCHANGED bus
      PROVE  (WillRun(p)' <=> WillRun(p)) /\ \A w : WillCache(p, w)' <=> WillCache(p, w)
  BY <1>1, <1>2, <1>8, SilenceTells
<1>9. ASSUME NEW type \in {"Stopping", "Stopped", "ToolsUpdated"}, Send(Event(type, p, "none"))
      PROVE  /\ type = "Stopped" => ~WillRun(p)'
             /\ type = "ToolsUpdated" => (WillRun(p)' <=> WillRun(p)) /\ WillCache(p, "none")'
  <2> DEFINE e == Event(type, p, "none")
  <2>1. e \in EventType /\ e.plugin = p /\ e.type = type /\ e.version = "none"
    BY <1>7, <1>9 DEF Event
  <2>2. Send(e)
    BY <1>9
  <2> HIDE DEF e
  <2> QED BY <1>1, <1>2, <2>1, <2>2, SendTells
<1>10. /\ AfterStop(t) \in {"check", "done"} /\ (task[t].op = "stop" => AfterStop(t) = "done")
       /\ AfterStop(t) \in Pcs
  BY DEF AfterStop, Pcs, StartPcs, OverPcs
<1>11. CASE Take(t)
  <2> DEFINE c == active[p]
             pc == IF active[p] = None THEN AfterStop(t) ELSE "mark"
  <2>1. /\ task[t].pc = "take" /\ active' = [active EXCEPT ![p] = None] /\ UNCHANGED bus
        /\ task' = [task EXCEPT ![t].taken = c, ![t].pc = pc]
    BY <1>11 DEF Take
  <2>2. task'[t].pc = pc /\ task'[t].op = task[t].op /\ active'[p] = None
    <3> HIDE DEF c, pc
    <3> QED BY <1>1, <1>6, <2>1 DEF TaskType, TaskTypes
  <2>3. pc = "mark" \/ (pc \in {"check", "done"} /\ active[p] = None /\ pc = AfterStop(t))
    BY <1>10
  <2>4. pc # "mark" => (WillRun(p)' <=> active'[p] # None)
    BY <1>4, <1>8, <2>1, <2>2, <2>3 DEF OwesStatus
  <2>5. pc # "mark" => WillCache(p, "none")'
    BY <1>3, <1>4, <1>8, <2>1, <2>3 DEF OwesTools
  <2>6. "mark" \in StopPcs /\ "mark" \in OwesStatus /\ "mark" \in OwesTools
    BY DEF StopPcs, OwesStatus, OwesTools
  <2>7. task[t].op = "stop" => pc \in {"mark", "done"}
    BY <1>10
  <2> HIDE DEF c, pc
  <2>8. PICK k : k = pc
    OBVIOUS
  <2>9. PICK w : w = IF active'[p] = None THEN "none" ELSE config[p]
    OBVIOUS
  <2>10. w = "none"
    BY <2>2, <2>9
  <2> QED BY <1>2, <1>5, <2>2, <2>3, <2>4, <2>5, <2>6, <2>7, <2>8, <2>9, <2>10, OwnStepFits
<1>12. CASE Mark(t) \/ Disconnect(t)
  <2>1. task[t].pc \in {"mark", "disconnect"} /\ active' = active
    BY <1>12 DEF Mark, Disconnect
  <2>2. PICK pc \in {"disconnect", "stopped"} : Goto(t, pc)
    BY <1>12 DEF Mark, Disconnect
  <2>3. pc \in StopPcs /\ pc \in Pcs /\ pc \in OwesStatus /\ pc \in OwesTools
    BY DEF StopPcs, Pcs, OwesStatus, OwesTools
  <2>4. task'[t].pc = pc /\ task'[t].op = task[t].op /\ active'[p] = None
    BY <1>4, <1>6, <2>1, <2>2, <2>3, GotoChanges
  <2>5. v = IF active'[p] = None THEN "none" ELSE config[p]
    BY <1>3, <2>1
  <2> QED BY <1>2, <1>5, <2>2, <2>3, <2>4, <2>5, OwnStepFits
<1>13. CASE AnnounceStopped(t)
  <2>1. task[t].pc = "stopped" /\ active' = active /\ Goto(t, "cleared") /\ Send(Event("Stopped", p, "none"))
    BY <1>13 DEF AnnounceStopped
  <2>2. "cleared" \in StopPcs /\ "cleared" \in Pcs /\ "cleared" \in OwesTools
    BY DEF StopPcs, Pcs, OwesTools
  <2>3. task'[t].pc = "cleared" /\ task'[t].op = task[t].op /\ active'[p] = None
    BY <1>4, <1>6, <2>1, <2>2, GotoChanges
  <2>4. ~WillRun(p)'
    BY <1>9, <2>1
  <2>5. v = IF active'[p] = None THEN "none" ELSE config[p]
    BY <1>3, <2>1
  <2> QED BY <1>2, <1>5, <2>2, <2>3, <2>4, <2>5, OwnStepFits
<1>14. CASE AnnounceNoTools(t)
  <2>1. /\ task[t].pc = "cleared" /\ active' = active
        /\ Goto(t, AfterStop(t)) /\ Send(Event("ToolsUpdated", p, "none"))
    BY <1>14 DEF AnnounceNoTools, Announce
  <2>2. PICK pc \in {"check", "done"} : pc = AfterStop(t) /\ Goto(t, pc) /\ pc \in Pcs
    BY <1>10, <2>1
  <2>3. task'[t].pc = pc /\ task'[t].op = task[t].op /\ active'[p] = None /\ active[p] = None
    BY <1>4, <1>6, <2>1, <2>2, GotoChanges
  <2>4. v = "none" /\ v = IF active'[p] = None THEN "none" ELSE config[p]
    BY <1>3, <2>3
  <2>5. WillCache(p, v)' /\ ~WillRun(p)'
    BY <1>4, <1>9, <2>1, <2>3, <2>4 DEF OwesStatus
  <2>6. task[t].op = "stop" => pc = "done"
    BY <1>10, <2>2
  <2> QED BY <1>2, <1>5, <2>2, <2>3, <2>4, <2>5, <2>6, OwnStepFits
<1>15. /\ ~Check(t) /\ ~Claim(t) /\ ~Connect(t) /\ ~Release(t) /\ ~Publish(t)
       /\ ~AnnounceStarted(t) /\ ~AnnounceTools(t) /\ ~AnnounceFailure(t)
  BY DEF Check, Claim, Connect, Release, Publish, AnnounceStarted, AnnounceTools, AnnounceFailure,
         Announce, StopPcs
<1> QED BY <1>11, <1>12, <1>13, <1>14, <1>15 DEF TaskStep

\* A timeout leaves its plugin hung.
LEMMA TimeOutHangs ==
    ASSUME TaskTypes, NEW t \in Tasks, TimeOut(t), NEW p, p = task[t].plugin
    PROVE  Hung(p)'
<1>1. TaskStep(t)
  BY DEF TaskStep
<1>2. task'[t].plugin = task[t].plugin
  BY <1>1, TaskStepChanges
<1>3. task'[t].pc \in {"startTimedOut", "stopTimedOut"}
  BY GotoChanges DEF TimeOut, TaskTypes, Pcs, OverPcs
<1> QED BY <1>2, <1>3 DEF Hung

\* Every step of a task keeps what fits a plugin.
LEMMA TaskStepFits ==
    ASSUME TaskTypes, BusFits, listening, ~lagged', NEW t \in Tasks, TaskStep(t), UNCHANGED engineVars,
           NEW p \in Plugins, PluginFits(p), ~Hung(p)'
    PROVE  PluginFits(p)'
<1>1. task[t].pc \in StartPcs \cup StopPcs /\ task'[t].plugin = task[t].plugin
  BY TaskStepChanges
<1>2. CASE task[t].plugin = p
  <2>1. ~TimeOut(t)
    BY <1>2, TimeOutHangs
  <2> QED BY <1>1, <1>2, <2>1, StartStepFits, StopStepFits
<1>3. CASE task[t].plugin # p
  <2>1. \A u \in Tasks \ {t} : task'[u] = task[u]
    BY TaskStepChanges
  <2>2. TasksOf(p)' = TasksOf(p) /\ \A u \in TasksOf(p) : task'[u] = task[u]
    BY <1>1, <1>3, <2>1 DEF TasksOf
  <2>3. active'[p] = active[p]
    <3>1. CASE Publish(t) \/ Take(t)
      BY <1>3, <3>1 DEF Publish, Take, TaskTypes
    <3>2. CASE ~Publish(t) /\ ~Take(t)
      BY <3>2 DEF TaskStep, Check, Claim, Connect, Release, AnnounceStarted, AnnounceTools,
                  AnnounceFailure, Announce, Mark, Disconnect, AnnounceStopped, AnnounceNoTools, TimeOut
    <3> QED BY <3>1, <3>2
  <2>4. UNCHANGED <<eng, status, cache, stale, config>>
    BY TaskStepChanges DEF engineVars
  <2>5. (WillRun(p)' <=> WillRun(p)) /\ \A v : WillCache(p, v)' <=> WillCache(p, v)
    <3>1. CASE UNCHANGED bus
      BY <2>4, <3>1, SilenceTells
    <3>2. CASE \E e \in EventType : e.plugin = task[t].plugin /\ Send(e)
      BY <1>3, <2>4, <3>2, SendTells
    <3> QED BY <3>1, <3>2, TaskStepSends
  <2>6. ReloadFits(p)'
    BY <2>2, <2>3, <2>4, SameReloadFits DEF PluginFits, Registered
  <2> QED BY <2>2, <2>3, <2>4, <2>5, <2>6, OthersStepFits
<1> QED BY <1>2, <1>3

\* What spawning a task does to the task it takes.
LEMMA SpawnTakesNext ==
    ASSUME TaskTypes, NEW p \in Plugins, NEW op \in {"start", "stop", "restart"},
           NEW via \in {"autostart", "user", "engine"}, Spawn(p, op, via)
    PROVE  /\ NextTask \in Tasks /\ task[NextTask].pc = "free"
           /\ task'[NextTask].pc = IF op = "start" THEN "check" ELSE "take"
           /\ task'[NextTask].plugin = p /\ task'[NextTask].op = op
           /\ \A u \in Tasks \ {NextTask} : task'[u] = task[u]
<1>1. NextTask \in Tasks /\ task[NextTask].pc = "free"
  BY NextTaskIsFree DEF Spawn, Free
<1> DEFINE new == [pc |-> IF op = "start" THEN "check" ELSE "take", plugin |-> p,
                   op |-> op, via |-> via, version |-> "none", taken |-> None]
<1>2. task' = [task EXCEPT ![NextTask] = new]
  BY DEF Spawn, Spawned
<1>3. new.pc = (IF op = "start" THEN "check" ELSE "take") /\ new.plugin = p /\ new.op = op
  OBVIOUS
<1> HIDE DEF new
<1> QED BY <1>1, <1>2, <1>3 DEF TaskTypes

\* A plugin stays alone only if none of its tasks was under way.
LEMMA SpawnIsAlone ==
    ASSUME TaskTypes, NEW q \in Plugins, NEW op \in {"start", "stop", "restart"},
           NEW via \in {"autostart", "user", "engine"}, Spawn(q, op, via), NEW p \in alone'
    PROVE  /\ p \in alone
           /\ p # q => TasksOf(p)' = TasksOf(p) /\ \A u \in TasksOf(p) : task'[u] = task[u]
           /\ p = q => /\ Busy(p) = {} /\ TasksOf(p)' = TasksOf(p) \cup {NextTask}
                       /\ Busy(p)' = {NextTask} /\ NextTask \notin TasksOf(p)
           /\ active' = active /\ config' = config /\ bus' = bus
<1>1. /\ NextTask \in Tasks /\ task[NextTask].pc = "free"
      /\ task'[NextTask].pc \in {"check", "take"} /\ task'[NextTask].plugin = q
      /\ \A u \in Tasks \ {NextTask} : task'[u] = task[u]
  BY SpawnTakesNext
<1>2. p \in alone /\ (p = q => \A t \in Tasks : ~(Running(t) /\ task[t].plugin = q))
  BY DEF Spawn
<1>3. ASSUME p # q PROVE TasksOf(p)' = TasksOf(p) /\ \A u \in TasksOf(p) : task'[u] = task[u]
  BY <1>1, <1>3 DEF TasksOf
<1>4. ASSUME p = q
      PROVE  /\ Busy(p) = {} /\ TasksOf(p)' = TasksOf(p) \cup {NextTask}
             /\ Busy(p)' = {NextTask} /\ NextTask \notin TasksOf(p)
  <2>1. Busy(p) = {}
    BY <1>2, <1>4 DEF Busy, TasksOf
  <2>2. TasksOf(p)' = TasksOf(p) \cup {NextTask} /\ NextTask \notin TasksOf(p)
    BY <1>1, <1>4 DEF TasksOf
  <2>3. PICK n : n = NextTask
    OBVIOUS
  <2>4. Running(n)' /\ \A u \in TasksOf(p) : ~Running(u)'
    <3>1. task'[n].pc \in StartPcs \cup StopPcs
      BY <1>1, <2>3 DEF StartPcs, StopPcs
    <3>2. \A u \in TasksOf(p) : task'[u] = task[u] /\ ~Running(u)
      BY <1>1, <2>1, <2>2 DEF Busy, TasksOf
    <3> QED BY <3>1, <3>2 DEF Running
  <2>5. Busy(p)' = {NextTask}
    BY <2>2, <2>3, <2>4 DEF Busy
  <2> QED BY <2>1, <2>2, <2>5
<1> QED BY <1>2, <1>3, <1>4 DEF Spawn

\* Spawning a task keeps what fits such a plugin, as far as the reload is concerned.
LEMMA SpawnFits ==
    ASSUME TaskTypes, NEW q \in Plugins, NEW op \in {"start", "stop", "restart"},
           NEW via \in {"autostart", "user", "engine"}, Spawn(q, op, via), NEW p \in alone',
           p \in Plugins, PluginFits(p), UNCHANGED <<status, cache, stale>>, ReloadFits(p)'
    PROVE  PluginFits(p)'
<1>1. /\ p # q => TasksOf(p)' = TasksOf(p) /\ \A u \in TasksOf(p) : task'[u] = task[u]
      /\ p = q => /\ Busy(p) = {} /\ TasksOf(p)' = TasksOf(p) \cup {NextTask}
                  /\ Busy(p)' = {NextTask} /\ NextTask \notin TasksOf(p)
      /\ active' = active /\ config' = config /\ bus' = bus
  BY SpawnIsAlone
<1>2. (WillRun(p)' <=> WillRun(p)) /\ \A v : WillCache(p, v)' <=> WillCache(p, v)
  BY <1>1, SilenceTells
<1>3. CASE p # q
  BY <1>1, <1>2, <1>3, OthersStepFits
<1>4. CASE p = q
  <2>1. task'[NextTask].pc \in {"check", "take"} /\ \A u \in TasksOf(p) : task'[u] = task[u]
    BY <1>1, <1>4, SpawnTakesNext DEF TasksOf
  <2>2. active[p] # None => active[p] \in TasksOf(p) /\ task[active[p]].version = config[p]
    BY DEF PluginFits, ClientFits
  <2>3. ToolsOf(p)' = ToolsOf(p)
    BY <1>1, <2>1, <2>2 DEF ToolsOf
  <2>4. TaskFits(p)'
    BY <1>1, <1>4, <2>1 DEF TaskFits
  <2>5. ClientFits(p)'
    BY <1>1, <1>4, <2>1, <2>2 DEF ClientFits
  <2>6. (WillRun(p) <=> active[p] # None) /\ WillCache(p, ToolsOf(p))
    BY <1>1, <1>4 DEF PluginFits, ListingFits
  <2>7. ListingFits(p)'
    BY <1>1, <1>2, <2>3, <2>6 DEF ListingFits
  <2> QED BY <2>4, <2>5, <2>7 DEF PluginFits
<1> QED BY <1>3, <1>4

\* A task spawned while the engine is idle, for a plugin that is registered, is no
\* concern of a reload.
LEMMA IdleSpawnFits ==
    ASSUME TaskTypes, NEW q \in Plugins, NEW op \in {"start", "stop", "restart"},
           NEW via \in {"autostart", "user", "engine"}, Spawn(q, op, via), NEW p \in alone',
           p \in Plugins, PluginFits(p), UNCHANGED <<status, cache, stale, eng>>, eng.pc = "idle", Registered(q)
    PROVE  PluginFits(p)'
<1>1. ReloadFits(p)'
  <2>1. CASE p = q
    BY <2>1 DEF ReloadFits, Registered
  <2>2. CASE p # q
    BY <2>2, SpawnIsAlone, SameReloadFits DEF PluginFits, Registered
  <2> QED BY <2>1, <2>2
<1> QED BY <1>1, SpawnFits

\* What is lost stays lost: an event, the listener, a plugin that was alone, and
\* one that hangs.
LEMMA NothingIsRegained ==
    ASSUME TaskTypes, BusFits, [Next]_vars
    PROVE  /\ lagged => lagged'
           /\ listening' => listening
           /\ alone' \subseteq alone
           /\ \A p \in Plugins : Hung(p) => Hung(p)'
<1>1. ASSUME NEW q \in Plugins, NEW op \in {"start", "stop", "restart"},
             NEW via \in {"autostart", "user", "engine"}, Spawn(q, op, via)
      PROVE  /\ lagged' = lagged /\ listening' = listening /\ alone' \subseteq alone
             /\ \A p \in Plugins : Hung(p) => Hung(p)'
  <2>1. \A u \in Tasks : task[u].pc # "free" => task'[u] = task[u]
    BY <1>1, SpawnTakesNext
  <2>2. ASSUME NEW p \in Plugins, Hung(p) PROVE Hung(p)'
    <3>1. PICK u \in Tasks : task[u].plugin = p /\ task[u].pc \in {"startTimedOut", "stopTimedOut"}
      BY <2>2 DEF Hung
    <3> QED BY <2>1, <3>1 DEF Hung
  <2> QED BY <1>1, <2>2 DEF Spawn
<1>2. CASE Autostart
  BY <1>1, <1>2 DEF Autostart, TaskTypes
<1>3. CASE UserAction
  BY <1>1, <1>3 DEF UserAction
<1>4. CASE StopNext
  <2>1. PICK q \in eng.todo : Spawn(q, "stop", "engine")
    BY <1>4 DEF StopNext
  <2>2. q \in Plugins
    BY <1>4 DEF StopNext, TaskTypes
  <2> QED BY <1>1, <2>1, <2>2
<1>5. CASE StartNext
  <2>1. PICK q \in Plugins : Spawn(q, "start", "engine")
    BY <1>5 DEF StartNext, Enabled
  <2> QED BY <1>1, <2>1
<1>6. CASE Task
  <2>1. PICK t \in Tasks : TaskStep(t) /\ alone' = alone
    BY <1>6 DEF Task, engineVars
  <2>2. task[t].pc \in StartPcs \cup StopPcs /\ \A u \in Tasks \ {t} : task'[u] = task[u]
    BY <2>1, TaskStepChanges
  <2>3. ASSUME NEW p \in Plugins, Hung(p) PROVE Hung(p)'
    <3>1. PICK u \in Tasks : task[u].plugin = p /\ task[u].pc \in {"startTimedOut", "stopTimedOut"}
      BY <2>3 DEF Hung
    <3>2. u # t
      BY <2>2, <3>1 DEF StartPcs, StopPcs
    <3> QED BY <2>2, <3>1, <3>2 DEF Hung
  <2>4. listening' = listening /\ (lagged => lagged')
    <3>1. CASE UNCHANGED <<bus, lagged>>
      BY <2>1, <3>1, TaskStepSends
    <3>2. CASE \E e \in EventType : Send(e)
      BY <2>1, <3>2, TaskStepSends, SendKeepsBus DEF BusFits
    <3> QED BY <2>1, <3>1, <3>2, TaskStepSends
  <2> QED BY <2>1, <2>3, <2>4
<1>7. CASE UNCHANGED <<task, listening, lagged, alone>>
  BY <1>7 DEF Hung
<1>8. CASE \/ Hear \/ SynthesizeCommands \/ BeginUpdate \/ StopAwaited \/ StartAwaited \/ ClearCache
           \/ ClearSpecs \/ InstallConfig \/ RebuildRegistry \/ EndUpdate \/ Drain \/ CloseNext
           \/ EndShutdown \/ UNCHANGED vars
  BY <1>7, <1>8 DEF Hear, SynthesizeCommands, BeginUpdate, StopAwaited, StartAwaited, Awaited, ClearCache,
                    ClearSpecs, InstallConfig, RebuildRegistry, EndUpdate, Drain, CloseNext,
                    EndShutdown, vars, gatewayVars, engineVars
<1>9. CASE BeginShutdown
  <2>1. ~listening' /\ UNCHANGED <<task, lagged, alone>>
    BY <1>9 DEF BeginShutdown
  <2> QED BY <2>1 DEF Hung
<1>10. CASE Load
  BY <1>7, <1>10, LoadChanges
<1> QED BY <1>2, <1>3, <1>4, <1>5, <1>6, <1>8, <1>9, <1>10 DEF Next, Update, Shutdown

\* What a load holds and caches is of some version.
LEMMA LoadKeepsTypes ==
    ASSUME TaskTypes, BusFits, Load
    PROVE  /\ cache' \in [Plugins -> Versions \cup {"none"}]
           /\ load' \in [Loads -> [plugin : Plugins \cup {"none"}, version : Versions \cup {"none"}]]
<1>1. NoLoad \in [plugin : Plugins \cup {"none"}, version : Versions \cup {"none"}]
  BY DEF NoLoad
<1>2. PICK l \in Loads : CopyTools(l) \/ InsertTools(l)
  BY DEF Load
<1>3. CASE CopyTools(l)
  <2>1. PICK p \in Plugins : /\ active[p] # None
                             /\ load' = [load EXCEPT ![l] = [plugin |-> p, version |-> ToolsOf(p)]]
    BY <1>3 DEF CopyTools
  <2>2. ToolsOf(p) \in Versions \cup {"none"}
    BY <2>1 DEF ToolsOf, TaskTypes, TaskType
  <2>3. cache' = cache
    BY <1>3 DEF CopyTools, engineVars
  <2> QED BY <2>1, <2>2, <2>3 DEF BusFits
<1>4. CASE InsertTools(l)
  <2>1. /\ cache' = [cache EXCEPT ![load[l].plugin] = load[l].version]
        /\ load' = [load EXCEPT ![l] = NoLoad]
    BY <1>4 DEF InsertTools
  <2>2. load[l].version \in Versions \cup {"none"}
    BY DEF BusFits
  <2> HIDE DEF NoLoad
  <2> QED BY <1>1, <2>1, <2>2 DEF BusFits
<1> QED BY <1>2, <1>3, <1>4

\* The types of the listener's side, and what is registered, are kept by every step.
LEMMA BusIsKept ==
    ASSUME TaskTypes, TaskTypes', BusFits, RegisteredFits, [Next]_vars
    PROVE  BusFits' /\ RegisteredFits'
<1>1. /\ alone' \subseteq Plugins
      /\ load' \in [Loads -> [plugin : Plugins \cup {"none"}, version : Versions \cup {"none"}]]
  <2>1. CASE Load
    BY <2>1, LoadKeepsTypes, NothingIsRegained DEF BusFits
  <2>2. CASE ~Load
    <3>1. load' = load
      BY <2>2 DEF Next, vars
    <3> QED BY <3>1, NothingIsRegained DEF BusFits
  <2> QED BY <2>1, <2>2
<1>2. CASE Autostart \/ UserAction
  <2>1. UNCHANGED <<bus, status, cache, stale, listening, lagged, eng, config>> /\ autostart' \subseteq autostart
    BY <1>2 DEF Autostart, UserAction, Spawn
  <2> QED BY <1>1, <2>1 DEF BusFits, RegisteredFits, Registered
<1>3. CASE StopNext \/ StartNext
  <2>1. UNCHANGED <<bus, status, cache, stale, listening, lagged, autostart, config>>
    BY <1>3 DEF StopNext, StartNext, Spawn
  <2>2. /\ eng.pc \in {"stopNext", "startNext"} /\ eng'.pc \in {"stopWait", "startWait"}
        /\ eng'.pc = "stopWait" => eng.pc = "stopNext" /\ eng'.todo \subseteq eng.todo
    <3>1. CASE StopNext
      BY <3>1 DEF StopNext, TaskTypes, EngineType
    <3>2. CASE StartNext
      BY <3>2 DEF StartNext, TaskTypes, EngineType
    <3> QED BY <1>3, <3>1, <3>2
  <2> QED BY <1>1, <2>1, <2>2 DEF BusFits, RegisteredFits, Registered
<1>4. CASE Task
  <2>1. PICK t \in Tasks : TaskStep(t) /\ UNCHANGED <<status, cache, stale, eng, autostart>>
    BY <1>4 DEF Task, engineVars
  <2>2. config' = config /\ listening' = listening
    BY <2>1, TaskStepChanges, TaskStepSends
  <2>3. bus' \in Seq(EventType) /\ lagged' \in BOOLEAN
    <3>1. CASE UNCHANGED <<bus, lagged>>
      BY <3>1 DEF BusFits
    <3>2. CASE \E e \in EventType : Send(e)
      BY <3>2, SendKeepsBus DEF BusFits
    <3> QED BY <2>1, <3>1, <3>2, TaskStepSends
  <2> QED BY <1>1, <2>1, <2>2, <2>3 DEF BusFits, RegisteredFits, Registered
<1>5. CASE Hear
  <2> DEFINE e == Head(bus)
  <2>1. bus' = Tail(bus) /\ e \in EventType /\ bus' \in Seq(EventType)
    <3>1. bus # <<>> /\ bus \in Seq(EventType) /\ bus' = Tail(bus)
      BY <1>5 DEF Hear, BusFits
    <3> QED BY <3>1
  <2>2. UNCHANGED <<config, listening, lagged, autostart, eng>>
    BY <1>5 DEF Hear
  <2>3. CASE e.type = "ToolsUpdated"
    <3>1. status' = status /\ cache' = [cache EXCEPT ![e.plugin] = e.version]
      BY <1>5, <2>3 DEF Hear, CacheTools
    <3>2. e.plugin \in Plugins /\ e.version \in Versions \cup {"none"}
      BY <2>1 DEF EventType
    <3> HIDE DEF e
    <3>3. cache' \in [Plugins -> Versions \cup {"none"}]
      BY <3>1, <3>2 DEF BusFits
    <3> QED BY <1>1, <2>1, <2>2, <3>1, <3>3 DEF BusFits, RegisteredFits, Registered
  <2>4. CASE e.type # "ToolsUpdated"
    <3>1. /\ cache' = cache
          /\ status' = IF Registered(e.plugin) THEN [status EXCEPT ![e.plugin] = StatusOf(e.type)] ELSE status
      BY <1>5, <2>4 DEF Hear, HearStatus
    <3>2. e.plugin \in Plugins /\ StatusOf(e.type) \in {"Starting", "Running", "Error", "Stopping", "Stopped"}
      BY <2>1, <2>4 DEF EventType, StatusOf
    <3> HIDE DEF e
    <3>3. /\ status' \in [Plugins -> {"absent", "Starting", "Running", "Error", "Stopping", "Stopped"}]
          /\ \A p \in Plugins : Registered(p)' <=> Registered(p)
      BY <3>1, <3>2 DEF BusFits, Registered
    <3>4. autostart' \subseteq {p \in Plugins : Registered(p)'}
      BY <2>2, <3>3 DEF RegisteredFits
    <3>5. eng.pc \in {"stopNext", "stopWait"} => eng.todo \subseteq {p \in Plugins : Registered(p)'}
      BY <3>3 DEF RegisteredFits
    <3> QED BY <1>1, <2>1, <2>2, <3>1, <3>3, <3>4, <3>5 DEF BusFits, RegisteredFits
  <2> QED BY <2>3, <2>4
<1>6. CASE StopAwaited \/ StartAwaited
  <2>1. PICK st \in {"Stopped", "Running"}, next \in {"stopNext", "startNext"} :
            /\ Awaited(st, next)
            /\ eng.pc \in {"stopWait", "startWait"} /\ (next = "stopNext" => eng.pc = "stopWait")
    BY <1>6 DEF StopAwaited, StartAwaited
  <2>2. eng'.pc = next /\ eng'.todo = eng.todo /\ UNCHANGED <<gatewayVars, cache, stale, autostart>>
    BY <2>1 DEF Awaited, Proceed, TaskTypes, EngineType
  <2>3. /\ status' \in [Plugins -> {"absent", "Starting", "Running", "Error", "Stopping", "Stopped"}]
        /\ \A p \in Plugins : Registered(p)' <=> Registered(p)
    BY <2>1 DEF Awaited, BusFits, Registered
  <2>4. autostart' \subseteq {p \in Plugins : Registered(p)'}
    BY <2>2, <2>3 DEF RegisteredFits
  <2>5. eng'.pc \in {"stopNext", "stopWait"} => eng'.todo \subseteq {p \in Plugins : Registered(p)'}
    BY <2>1, <2>2, <2>3 DEF RegisteredFits
  <2> QED BY <1>1, <2>1, <2>2, <2>3, <2>4, <2>5 DEF BusFits, RegisteredFits, gatewayVars
<1>7. CASE BeginUpdate
  <2>1. eng.pc = "idle" /\ eng'.pc = "stopNext" /\ eng'.todo = {p \in Plugins : Registered(p)} /\ autostart = {}
    BY <1>7 DEF BeginUpdate, Idle
  <2>2. UNCHANGED <<gatewayVars, status, cache, stale, autostart>>
    BY <1>7 DEF BeginUpdate
  <2> QED BY <1>1, <2>1, <2>2 DEF BusFits, RegisteredFits, Registered, gatewayVars
<1>8. CASE EndUpdate
  <2>1. eng.pc = "startNext" /\ eng'.pc = "idle"
    BY <1>8 DEF EndUpdate, Idle
  <2>2. UNCHANGED <<gatewayVars, status, cache, stale, autostart>>
    BY <1>8 DEF EndUpdate
  <2> QED BY <1>1, <2>1, <2>2 DEF BusFits, RegisteredFits, Registered, gatewayVars
<1>9. CASE ClearCache \/ ClearSpecs
  <2>1. eng.pc \in {"stopNext", "clearSpecs"} /\ eng'.pc \in {"clearSpecs", "install"}
    BY <1>9 DEF ClearCache, ClearSpecs, Proceed, TaskTypes, EngineType
  <2>2. /\ UNCHANGED <<gatewayVars, status, autostart>>
        /\ cache' = cache \/ cache' = [p \in Plugins |-> "none"]
    BY <1>9 DEF ClearCache, ClearSpecs
  <2> QED BY <1>1, <2>1, <2>2 DEF BusFits, RegisteredFits, Registered, gatewayVars
<1>10. CASE InstallConfig
  <2>1. eng.pc = "install" /\ eng'.pc = "rebuild"
    BY <1>10 DEF InstallConfig, Proceed, TaskTypes, EngineType
  <2>2. UNCHANGED <<bus, status, cache, stale, listening, lagged, autostart>>
    BY <1>10 DEF InstallConfig
  <2> QED BY <1>1, <2>1, <2>2 DEF BusFits, RegisteredFits, Registered
<1>11. CASE RebuildRegistry
  <2>1. eng.pc = "rebuild" /\ eng'.pc = "startNext"
    BY <1>11 DEF RebuildRegistry, Proceed, TaskTypes, EngineType
  <2>2. /\ UNCHANGED <<gatewayVars, cache, stale, autostart>>
        /\ status' = [p \in Plugins |-> IF config[p] = "absent" THEN "absent" ELSE "Stopped"]
    BY <1>11 DEF RebuildRegistry
  <2> QED BY <1>1, <2>1, <2>2 DEF BusFits, RegisteredFits, Registered, gatewayVars
<1>12. CASE BeginShutdown
  <2>1. eng'.pc = "join" /\ autostart = {}
    BY <1>12 DEF BeginShutdown, TaskTypes, EngineType
  <2>2. UNCHANGED <<status, cache, stale, config, lagged, autostart>> /\ bus' = <<>> /\ ~listening' /\ eng.pc = "idle"
    BY <1>12 DEF BeginShutdown
  <2> QED BY <1>1, <2>1, <2>2 DEF BusFits, RegisteredFits, Registered
<1>13. CASE Shutdown
  <2>1. eng.pc \in {"join", "close"} /\ UNCHANGED <<status, cache, stale, config, lagged, autostart, bus, listening>>
    BY <1>13 DEF Shutdown, Drain, CloseNext, EndShutdown
  <2>2. eng'.pc \in {"close", "halted"}
    <3>1. CASE Drain
      BY <3>1 DEF Drain, TaskTypes, EngineType
    <3>2. CASE CloseNext
      BY <3>2 DEF CloseNext, TaskTypes, EngineType
    <3>3. CASE EndShutdown
      BY <3>3 DEF EndShutdown, Idle
    <3> QED BY <1>13, <3>1, <3>2, <3>3 DEF Shutdown
  <2> QED BY <1>1, <2>1, <2>2 DEF BusFits, RegisteredFits, Registered
<1>14. CASE SynthesizeCommands \/ UNCHANGED vars
  <2>1. UNCHANGED <<gatewayVars, status, cache, stale, autostart, eng>>
    BY <1>14 DEF SynthesizeCommands, vars, engineVars
  <2> QED BY <1>1, <2>1 DEF BusFits, RegisteredFits, Registered, gatewayVars
<1>15. CASE Load
  <2>1. BusFits'
    BY <1>1, <1>15, LoadChanges, LoadKeepsTypes DEF BusFits
  <2> QED BY <1>15, <2>1, LoadChanges DEF RegisteredFits, Registered
<1> QED BY <1>2, <1>3, <1>4, <1>5, <1>6, <1>7, <1>8, <1>9, <1>10, <1>11, <1>12, <1>13, <1>14, <1>15
        DEF Next, Update

\* A plugin without a client and without a task is neither going to be listed as
\* running nor to have cached tools,
LEMMA StillTells ==
    ASSUME NEW p \in Plugins, PluginFits(p), Still(p)
    PROVE  ~WillRun(p) /\ WillCache(p, "none")
<1>1. ToolsOf(p) = "none" /\ active[p] = None /\ Busy(p) = {}
  BY DEF Still, ToolsOf
<1> QED BY <1>1 DEF PluginFits, ListingFits

\* and that is all there is to it.
LEMMA StillFits ==
    ASSUME NEW p \in Plugins, Still(p)', ~WillRun(p)', WillCache(p, "none")', ReloadFits(p)'
    PROVE  PluginFits(p)'
<1>1. ToolsOf(p)' = "none" /\ active'[p] = None /\ Busy(p)' = {}
  BY DEF Still, ToolsOf
<1>2. TaskFits(p)'
  BY <1>1 DEF TaskFits
<1>3. ClientFits(p)'
  BY <1>1 DEF ClientFits
<1>4. ListingFits(p)'
  BY <1>1 DEF ListingFits
<1> QED BY <1>2, <1>3, <1>4 DEF PluginFits

\* The steps of the engine that await a task keep what fits a plugin: a stop that
\* was awaited has left it still, and a start active.
LEMMA AwaitedFits ==
    ASSUME TaskTypes, BusFits, StopAwaited \/ StartAwaited, NEW p \in Plugins, PluginFits(p), ~Hung(p)
    PROVE  PluginFits(p)'
<1>1. /\ ~Running(eng.task) /\ UNCHANGED <<gatewayVars, cache, stale>>
      /\ eng'.pc \in {"stopNext", "startNext"} /\ (eng'.pc = "stopNext" <=> eng.pc = "stopWait")
      /\ eng.pc \in {"stopWait", "startWait"} /\ eng'.todo = eng.todo
  BY DEF StopAwaited, StartAwaited, Awaited, Proceed, TaskTypes, EngineType
<1>2. UNCHANGED <<active, config, task, bus, cache, stale>>
  BY <1>1 DEF gatewayVars
<1>3. /\ TasksOf(p)' = TasksOf(p) /\ Busy(p)' = Busy(p) /\ (Still(p)' <=> Still(p))
      /\ StatusEvents(p)' = StatusEvents(p) /\ \A v : WillCache(p, v)' <=> WillCache(p, v)
  BY <1>2 DEF TasksOf, Busy, Running, Still, StatusEvents, ToolsEvents, WillCache
<1>4. Registered(p)' <=> Registered(p)
  BY DEF StopAwaited, StartAwaited, Awaited, BusFits, Registered
<1>5. CASE eng.plugin # p
  <2>1. status'[p] = status[p]
    BY <1>5 DEF StopAwaited, StartAwaited, Awaited, BusFits
  <2>2. WillRun(p)' <=> WillRun(p)
    BY <1>2, <1>3, <2>1 DEF WillRun
  <2>3. ReloadFits(p)'
    BY <1>1, <1>3, <1>4, <1>5 DEF PluginFits, ReloadFits
  <2> QED BY <1>2, <1>3, <2>2, <2>3, OthersStepFits
<1>6. CASE eng.plugin = p /\ eng.pc = "stopWait"
  <2>1. /\ eng.task \in TasksOf(p) /\ Busy(p) \subseteq {eng.task}
        /\ task[eng.task].pc \in StopPcs \cup {"done", "stopTimedOut"}
        /\ task[eng.task].pc = "done" => active[p] = None
    BY <1>6 DEF PluginFits, ReloadFits
  <2>2. Busy(p) = {} /\ task[eng.task].pc \notin StopPcs
    BY <1>1, <2>1 DEF Busy, Running
  <2>3. task[eng.task].pc # "stopTimedOut"
    BY <2>1 DEF Hung, TasksOf
  <2>4. Still(p)
    BY <2>1, <2>2, <2>3 DEF Still
  <2>5. ~WillRun(p) /\ WillCache(p, "none")
    BY <2>4, StillTells
  <2>6. status'[p] \in {status[p], "Stopped"}
    BY <1>6 DEF StopAwaited, StartAwaited, Awaited, BusFits
  <2>7. ~WillRun(p)'
    BY <1>2, <1>3, <2>5, <2>6 DEF WillRun
  <2>8. ReloadFits(p)'
    BY <1>1, <1>3, <1>6, <2>4 DEF ReloadFits
  <2> QED BY <1>3, <2>4, <2>5, <2>7, <2>8, StillFits
<1>7. CASE eng.plugin = p /\ eng.pc = "startWait"
  <2>1. /\ eng.task \in TasksOf(p) /\ Busy(p) \subseteq {eng.task}
        /\ task[eng.task].pc = "done" => active[p] = eng.task
    BY <1>7 DEF PluginFits, ReloadFits
  <2>2. Busy(p) = {}
    BY <1>1, <2>1 DEF Busy
  <2>3. WillRun(p) <=> active[p] # None
    BY <2>2 DEF PluginFits, ListingFits
  <2>4. status'[p] = status[p] \/ (status'[p] = "Running" /\ task[eng.task].pc = "done")
    BY <1>7 DEF StopAwaited, StartAwaited, Awaited, BusFits
  <2>5. eng.task # None
    BY <2>1 DEF TasksOf, Tasks, None
  <2>6. WillRun(p)' <=> WillRun(p)
    BY <1>2, <1>3, <2>1, <2>3, <2>4, <2>5 DEF WillRun
  <2>7. ReloadFits(p)'
    BY <1>1, <1>3, <1>4, <1>7 DEF PluginFits, ReloadFits
  <2> QED BY <1>2, <1>3, <2>6, <2>7, OthersStepFits
<1> QED BY <1>1, <1>5, <1>6, <1>7

\* The steps of a reload between the last stop and the first start find every
\* plugin still, and leave it so.
LEMMA ReloadKeepsStill ==
    ASSUME TaskTypes, BusFits, ClearCache \/ ClearSpecs \/ InstallConfig \/ RebuildRegistry,
           NEW p \in Plugins, PluginFits(p)
    PROVE  PluginFits(p)'
<1>1. Still(p)
  BY DEF ClearCache, ClearSpecs, InstallConfig, RebuildRegistry, PluginFits, ReloadFits
<1>2. ~WillRun(p) /\ WillCache(p, "none")
  BY <1>1, StillTells
<1>3. UNCHANGED <<active, task, bus>> /\ eng'.pc \in {"clearSpecs", "install", "rebuild", "startNext"}
  BY DEF ClearCache, ClearSpecs, InstallConfig, RebuildRegistry, Proceed, gatewayVars, TaskTypes, EngineType
<1>4. /\ status'[p] \in {status[p], "absent", "Stopped"}
      /\ (cache'[p] = cache[p] /\ stale' = stale) \/ cache'[p] = "none"
  BY DEF ClearCache, ClearSpecs, InstallConfig, RebuildRegistry
<1>5. Still(p)' /\ StatusEvents(p)' = StatusEvents(p) /\ ToolsEvents(p)' = ToolsEvents(p)
  BY <1>1, <1>3 DEF Still, Busy, TasksOf, Running, StatusEvents, ToolsEvents
<1>6. ~WillRun(p)'
  BY <1>2, <1>3, <1>4, <1>5 DEF WillRun
<1>7. WillCache(p, "none")'
  BY <1>2, <1>3, <1>4, <1>5 DEF WillCache
<1>8. ReloadFits(p)'
  BY <1>3, <1>5 DEF ReloadFits
<1> QED BY <1>5, <1>6, <1>7, <1>8, StillFits

\* The steps of a reload that spawn a task keep what fits a plugin.
LEMMA ReloadSpawnFits ==
    ASSUME TaskTypes, BusFits, RegisteredFits, StopNext \/ StartNext, NEW p \in alone',
           p \in Plugins, PluginFits(p)
    PROVE  PluginFits(p)'
<1>1. PICK q \in Plugins, op \in {"stop", "start"} :
          /\ Spawn(q, op, "engine") /\ eng'.plugin = q /\ eng'.task = NextTask /\ Registered(q)
          /\ op = "stop" => /\ eng.pc = "stopNext" /\ eng'.pc = "stopWait" /\ eng'.todo = eng.todo \ {q}
          /\ op = "start" => eng.pc = "startNext" /\ eng'.pc = "startWait"
          /\ UNCHANGED <<status, cache, stale>>
  <2>1. CASE StopNext
    <3>1. PICK q \in eng.todo :
              /\ Spawn(q, "stop", "engine")
              /\ eng' = [eng EXCEPT !.pc = "stopWait", !.todo = @ \ {q}, !.plugin = q, !.task = NextTask,
                                    !.restart = IF status[q] = "Running" THEN @ \cup {q} ELSE @]
      BY <2>1 DEF StopNext
    <3>2. eng.pc = "stopNext" /\ UNCHANGED <<status, cache, stale>>
      BY <2>1 DEF StopNext
    <3>3. q \in Plugins /\ Registered(q)
      BY <3>2 DEF RegisteredFits
    <3>4. eng'.pc = "stopWait" /\ eng'.todo = eng.todo \ {q} /\ eng'.plugin = q /\ eng'.task = NextTask
      BY <3>1 DEF TaskTypes, EngineType
    <3> QED BY <3>1, <3>2, <3>3, <3>4
  <2>2. CASE StartNext
    <3>1. PICK q \in eng.restart \cap Enabled(config) :
              /\ Spawn(q, "start", "engine")
              /\ eng' = [eng EXCEPT !.pc = "startWait", !.restart = @ \ {q}, !.plugin = q,
                                    !.task = NextTask]
      BY <2>2 DEF StartNext
    <3>2. eng.pc = "startNext" /\ UNCHANGED <<status, cache, stale>>
      BY <2>2 DEF StartNext
    <3>3. q \in Plugins /\ Registered(q)
      BY <3>2, GatewayAssumption DEF RegisteredFits, Enabled
    <3>4. eng'.pc = "startWait" /\ eng'.plugin = q /\ eng'.task = NextTask
      BY <3>1 DEF TaskTypes, EngineType
    <3> QED BY <3>1, <3>2, <3>3, <3>4
  <2> QED BY <2>1, <2>2
<1>2. /\ p # q => TasksOf(p)' = TasksOf(p) /\ \A u \in TasksOf(p) : task'[u] = task[u]
      /\ p = q => /\ Busy(p) = {} /\ TasksOf(p)' = TasksOf(p) \cup {NextTask}
                  /\ Busy(p)' = {NextTask} /\ NextTask \notin TasksOf(p)
      /\ active' = active
  BY <1>1, SpawnIsAlone
<1>3. CASE p = q
  <2>1. /\ task'[eng'.task].op = op /\ task'[eng'.task].pc = IF op = "start" THEN "check" ELSE "take"
        /\ eng'.task \in TasksOf(p)' /\ Busy(p)' = {eng'.task}
    BY <1>1, <1>2, <1>3, SpawnTakesNext
  <2>2. Registered(p)'
    BY <1>1, <1>3 DEF Registered
  <2>3. "check" \in StartPcs /\ "take" \in StopPcs
    BY DEF StartPcs, StopPcs
  <2>4. ReloadFits(p)'
    BY <1>1, <1>3, <2>1, <2>2, <2>3 DEF ReloadFits
  <2> QED BY <1>1, <2>4, SpawnFits
<1>4. CASE p # q
  <2>1. Still(p)' <=> Still(p)
    BY <1>2, <1>4 DEF Still, Busy, Running
  <2>2. Registered(p)' <=> Registered(p)
    BY <1>1 DEF Registered
  <2>3. ReloadFits(p)'
    BY <1>1, <1>4, <2>1, <2>2 DEF PluginFits, ReloadFits
  <2> QED BY <1>1, <2>3, SpawnFits
<1> QED BY <1>3, <1>4

\* A load that inserts the tools of the client leaves them cached, and any other
\* tools are stale.
LEMMA LoadFits ==
    ASSUME BusFits, Load, NEW p \in Plugins, PluginFits(p)
    PROVE  PluginFits(p)'
<1>1. UNCHANGED <<config, active, task, bus, status, eng>>
  BY LoadChanges
<1>2. /\ TasksOf(p)' = TasksOf(p) /\ Busy(p)' = Busy(p) /\ ToolsOf(p)' = ToolsOf(p)
      /\ WillRun(p)' <=> WillRun(p)
      /\ ToolsEvents(p)' = ToolsEvents(p)
  BY <1>1 DEF TasksOf, Busy, Running, ToolsOf, WillRun, StatusEvents, ToolsEvents
<1>3. \/ UNCHANGED <<cache, stale>>
      \/ \E l \in Loads : InsertTools(l)
  BY DEF Load, CopyTools, engineVars
<1>4. WillCache(p, ToolsOf(p)) => WillCache(p, ToolsOf(p))'
  <2>1. CASE ToolsEvents(p) # {}
    BY <1>1, <1>2, <2>1 DEF WillCache
  <2>2. CASE UNCHANGED <<cache, stale>>
    BY <1>1, <1>2, <2>2 DEF WillCache
  <2>3. ASSUME NEW l \in Loads, InsertTools(l)
        PROVE  WillCache(p, ToolsOf(p)) /\ ToolsEvents(p) = {} => cache'[p] = ToolsOf(p) \/ p \in stale'
    BY <2>3 DEF InsertTools, BusFits, WillCache
  <2> QED BY <1>2, <1>3, <2>1, <2>2, <2>3 DEF WillCache
<1>5. TaskFits(p)' /\ ClientFits(p)'
  BY <1>1, <1>2 DEF PluginFits, TaskFits, ClientFits
<1>6. ListingFits(p)'
  BY <1>1, <1>2, <1>4 DEF PluginFits, ListingFits
<1>7. ReloadFits(p)'
  BY <1>1, <1>2, SameReloadFits DEF PluginFits, Registered
<1> QED BY <1>5, <1>6, <1>7 DEF PluginFits

\* Every step keeps what fits a plugin, as long as it counts.
LEMMA StepFits ==
    ASSUME TaskTypes, BusFits, RegisteredFits, [Next]_vars, listening', ~lagged', listening, ~lagged,
           NEW p \in alone', p \in Plugins, PluginFits(p), ~Hung(p), ~Hung(p)'
    PROVE  PluginFits(p)'
<1>1. CASE Autostart
  <2>1. PICK q \in autostart : Spawn(q, "start", "autostart")
    BY <1>1 DEF Autostart
  <2>2. eng.pc = "idle" /\ Registered(q) /\ q \in Plugins /\ UNCHANGED <<status, cache, stale, eng>>
    BY <1>1 DEF Autostart, RegisteredFits
  <2> QED BY <2>1, <2>2, IdleSpawnFits
<1>2. CASE UserAction
  <2>1. PICK q \in Plugins, op \in {"start", "stop", "restart"} : Registered(q) /\ Spawn(q, op, "user")
    BY <1>2 DEF UserAction
  <2>2. eng.pc = "idle" /\ UNCHANGED <<status, cache, stale, eng>>
    BY <1>2 DEF UserAction
  <2> QED BY <2>1, <2>2, IdleSpawnFits
<1>3. CASE Task
  BY <1>3, TaskStepFits DEF Task
<1>4. CASE Hear
  <2>1. ~Registered(p) => ~WillRun(p)
    BY StillTells DEF PluginFits, ReloadFits
  <2>2. (WillRun(p)' <=> WillRun(p)) /\ \A v : WillCache(p, v)' <=> WillCache(p, v)
    BY <1>4, <2>1, HearTells
  <2>3. UNCHANGED <<task, active, config, eng>>
    BY <1>4 DEF Hear
  <2>4. TasksOf(p)' = TasksOf(p)
    BY <2>3 DEF TasksOf
  <2>5. Registered(p)' <=> Registered(p)
    <3>1. Head(bus) \in EventType
      <4>1. bus # <<>> /\ bus \in Seq(EventType)
        BY <1>4 DEF Hear, BusFits
      <4> QED BY <4>1
    <3>2. Head(bus).type # "ToolsUpdated" => StatusOf(Head(bus).type) # "absent"
      BY <3>1 DEF EventType, StatusOf
    <3>3. \/ status' = status
          \/ /\ Head(bus).type # "ToolsUpdated" /\ Registered(Head(bus).plugin)
             /\ status' = [status EXCEPT ![Head(bus).plugin] = StatusOf(Head(bus).type)]
      BY <1>4 DEF Hear, CacheTools, HearStatus
    <3> QED BY <3>2, <3>3 DEF BusFits, Registered
  <2>6. ReloadFits(p)'
    BY <2>3, <2>4, <2>5, SameReloadFits DEF PluginFits
  <2> QED BY <2>2, <2>3, <2>4, <2>6, OthersStepFits
<1>5. CASE SynthesizeCommands \/ BeginUpdate \/ EndUpdate \/ UNCHANGED vars
  <2>1. UNCHANGED <<gatewayVars, status, cache, stale>>
    BY <1>5 DEF SynthesizeCommands, BeginUpdate, EndUpdate, vars, engineVars
  <2>2. UNCHANGED <<task, active, config, bus>>
    BY <2>1 DEF gatewayVars
  <2>3. (WillRun(p)' <=> WillRun(p)) /\ \A v : WillCache(p, v)' <=> WillCache(p, v)
    BY <2>1, <2>2, SilenceTells
  <2>4. TasksOf(p)' = TasksOf(p) /\ (Still(p)' <=> Still(p)) /\ (Registered(p)' <=> Registered(p))
    BY <2>1, <2>2 DEF TasksOf, Still, Busy, Running, Registered
  <2>5. ReloadFits(p)'
    <3>1. CASE eng' = eng
      BY <2>2, <2>4, <3>1, SameReloadFits DEF PluginFits
    <3>2. CASE BeginUpdate
      <4>1. eng'.pc = "stopNext" /\ eng'.todo = {q \in Plugins : Registered(q)}
        BY <3>2 DEF BeginUpdate, Idle
      <4> QED BY <2>4, <4>1 DEF PluginFits, ReloadFits
    <3>3. CASE EndUpdate
      <4>1. eng'.pc = "idle"
        BY <3>3 DEF EndUpdate, Idle
      <4> QED BY <2>4, <4>1 DEF PluginFits, ReloadFits
    <3> QED BY <1>5, <3>1, <3>2, <3>3 DEF SynthesizeCommands, vars, engineVars
  <2> QED BY <2>2, <2>3, <2>4, <2>5, OthersStepFits
<1>6. CASE StopNext \/ StartNext
  BY <1>6, ReloadSpawnFits
<1>7. CASE StopAwaited \/ StartAwaited
  BY <1>7, AwaitedFits
<1>8. CASE ClearCache \/ ClearSpecs \/ InstallConfig \/ RebuildRegistry
  BY <1>8, ReloadKeepsStill
<1>9. ~BeginShutdown
  BY DEF BeginShutdown
<1>10. ~Shutdown
  BY DEF Shutdown, Drain, CloseNext, EndShutdown, BusFits
<1>11. CASE Load
  BY <1>11, LoadFits
<1> QED BY <1>1, <1>2, <1>3, <1>4, <1>5, <1>6, <1>7, <1>8, <1>9, <1>10, <1>11 DEF Next, Update

\* When nothing is under way, the registry and the cached tools are those of the
\* gateway's clients, for a plugin whose operations neither overlapped nor timed
\* out, as long as the listener lost no event; only a load of the details that
\* inserts after its client has gone leaves other tools cached.
THEOREM RegistrySafety == Spec => []RegistryFollowsGateway
<1>1. Init => RegistryInv
  <2> SUFFICES ASSUME Init PROVE RegistryInv
    OBVIOUS
  <2>1. bus = <<>> /\ eng.pc = "idle" /\ listening /\ lagged = FALSE /\ alone = Plugins
    BY DEF Init, GatewayInit, Idle
  <2>2. BusFits
    <3>1. /\ status \in [Plugins -> {"absent", "Starting", "Running", "Error", "Stopping", "Stopped"}]
          /\ cache \in [Plugins -> Versions \cup {"none"}]
      BY DEF Init
    <3>2. bus \in Seq(EventType)
      BY <2>1
    <3>3. lagged \in BOOLEAN
      BY <2>1
    <3>4. load \in [Loads -> [plugin : Plugins \cup {"none"}, version : Versions \cup {"none"}]]
      <4>1. NoLoad \in [plugin : Plugins \cup {"none"}, version : Versions \cup {"none"}]
        BY DEF NoLoad
      <4> HIDE DEF NoLoad
      <4> QED BY <4>1 DEF Init
    <3> QED BY <2>1, <3>1, <3>2, <3>3, <3>4 DEF BusFits
  <2>3. RegisteredFits
    BY <2>1, GatewayAssumption DEF RegisteredFits, Init, Registered, Enabled
  <2>4. ASSUME NEW p \in Plugins PROVE PluginFits(p)
    <3>1. TasksOf(p) = {} /\ active[p] = None /\ Busy(p) = {}
      BY DEF Init, GatewayInit, FreeTask, TasksOf, Busy
    <3>2. /\ status[p] \in {"absent", "Stopped"} /\ cache[p] = "none"
          /\ StatusEvents(p) = {} /\ ToolsEvents(p) = {}
      BY <2>1 DEF Init, StatusEvents, ToolsEvents
    <3>3. ~WillRun(p) /\ WillCache(p, "none") /\ ToolsOf(p) = "none"
      BY <3>1, <3>2 DEF WillRun, WillCache, ToolsOf
    <3>4. ReloadFits(p)
      BY <2>1, <3>1 DEF ReloadFits, Still
    <3> QED BY <3>1, <3>3, <3>4 DEF PluginFits, TaskFits, ClientFits, ListingFits
  <2> QED BY <2>1, <2>2, <2>3, <2>4 DEF RegistryInv
<1>2. TaskTypes /\ TaskTypes' /\ RegistryInv /\ [Next]_vars => RegistryInv'
  <2> SUFFICES ASSUME TaskTypes, TaskTypes', RegistryInv, [Next]_vars PROVE RegistryInv'
    OBVIOUS
  <2>1. BusFits /\ RegisteredFits /\ BusFits' /\ RegisteredFits'
    BY BusIsKept DEF RegistryInv
  <2>2. ASSUME listening', ~lagged', NEW p \in alone', ~Hung(p)' PROVE PluginFits(p)'
    <3>1. p \in alone /\ p \in Plugins /\ listening /\ ~lagged /\ ~Hung(p)
      BY <2>1, <2>2, NothingIsRegained DEF BusFits
    <3>2. PluginFits(p)
      BY <3>1 DEF RegistryInv
    <3> QED BY <2>1, <2>2, <3>1, <3>2, StepFits
  <2> QED BY <2>1, <2>2 DEF RegistryInv
<1>3. RegistryInv => RegistryFollowsGateway
  <2> SUFFICES ASSUME RegistryInv, Quiet, ~lagged, NEW p \in alone, ~Hung(p)
               PROVE  /\ status[p] = "Running" <=> active[p] # None
                      /\ cache[p] = ToolsOf(p) \/ p \in stale
                      /\ active[p] # None => config[p] = ToolsOf(p)
    BY DEF RegistryFollowsGateway
  <2>1. p \in Plugins /\ listening /\ bus = <<>> /\ \A t \in Tasks : ~Running(t)
    BY DEF RegistryInv, BusFits, Quiet
  <2>2. PluginFits(p)
    BY <2>1 DEF RegistryInv
  <2>3. Busy(p) = {} /\ StatusEvents(p) = {} /\ ToolsEvents(p) = {}
    BY <2>1 DEF Busy, TasksOf, StatusEvents, ToolsEvents
  <2>4. (WillRun(p) <=> active[p] # None) /\ WillCache(p, ToolsOf(p))
    BY <2>2, <2>3 DEF PluginFits, ListingFits
  <2>5. (WillRun(p) <=> status[p] = "Running") /\ (cache[p] = ToolsOf(p) \/ p \in stale)
    BY <2>3, <2>4 DEF WillRun, WillCache
  <2>6. active[p] # None => config[p] = ToolsOf(p)
    BY <2>2 DEF PluginFits, ClientFits, ToolsOf
  <2> QED BY <2>4, <2>5, <2>6
<1> QED BY <1>1, <1>2, <1>3, TaskTyping, PTL DEF Spec
=============================================================================

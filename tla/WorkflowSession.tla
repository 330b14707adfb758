-------------------------- MODULE WorkflowSession --------------------------
(***************************************************************************)
(* The terminal UI around workflow runs: the workflow session it keeps     *)
(* (src/crates/tui/src/ui/components/workflows/state.rs), the effects that *)
(* key presses queue and a tick carries out (ui/runtime.rs, cmd.rs,        *)
(* app.rs), and the run tasks it spawns, with a control and an event       *)
(* channel each.                                                           *)
(*                                                                         *)
(* A run task is module WorkflowRun's, cut down to what the session can    *)
(* tell apart: steps are counted, not named, and an outcome is a choice.   *)
(* A draft is one prepared set of inputs (WorkflowRunState).               *)
(***************************************************************************)
EXTENDS Naturals, Sequences, SequencesExt

CONSTANTS
    MaxDrafts,      \* bound on the input sessions opened
    MaxRuns,        \* bound on the runs requested
    StepsPerRun,    \* steps of each workflow
    MaxEffects,     \* bound on the effects queued between two ticks
    MaxControls     \* bound on the control buttons pressed

ASSUME SessionAssumption ==
    /\ {MaxDrafts, MaxRuns, StepsPerRun, MaxEffects, MaxControls} \subseteq Nat
    /\ MaxEffects >= 2

None   == 0         \* no draft, no run
Drafts == 1 .. MaxDrafts
Runs   == 1 .. MaxRuns
Routes == {"Workflows", "WorkflowInputs", "WorkflowRun", "Other"}

VARIABLES
    route,          \* the route shown; its component is MainView.content_view
    session,        \* WorkflowState: [draft, inputs, view, run, control]
    effects,        \* queued by key presses, in the order they were pressed
    batch,          \* the effects the current tick is still carrying out
    stream,         \* workflow_events: the run whose events are received
    task,           \* run tasks: [phase, todo, paused, cancel, failed, draft]
    control, events,          \* the channels of each run
    drafts, runs, presses,    \* how many were made so far
    history         \* drafts whose inputs were saved to the history store

ui      == <<route, session>>
loop    == <<effects, batch, stream>>
counts  == <<drafts, runs, presses>>
vars    == <<ui, loop, task, control, events, counts, history>>

-----------------------------------------------------------------------------
(* WorkflowState *)

NoView == [status |-> "none", failed |-> FALSE]
\* The control handle is the only sender of its run's control channel.
Empty == [draft |-> None, inputs |-> FALSE, view |-> NoView, run |-> None, control |-> None]

InputsSession(d) == [Empty EXCEPT !.draft = d, !.inputs = TRUE]
RunSession(d, r) ==
    [Empty EXCEPT !.draft = d, !.run = r, !.view = [status |-> "Pending", failed |-> FALSE]]

IsRunning == session.control # None
HasView   == session.view # NoView

NoTask == [phase |-> "none", todo |-> 0, paused |-> FALSE, cancel |-> FALSE,
           failed |-> FALSE, draft |-> None]

Init ==
    /\ route = "Other"
    /\ session = Empty
    /\ effects = <<>> /\ batch = <<>> /\ stream = None
    /\ task = [r \in Runs |-> NoTask]
    /\ control = [r \in Runs |-> <<>>]
    /\ events = [r \in Runs |-> <<>>]
    /\ drafts = 0 /\ runs = 0 /\ presses = 0
    /\ history = {}

-----------------------------------------------------------------------------
(* Key presses: they change the session at once and queue effects *)

SwitchTo(where)    == [type |-> "SwitchTo", route |-> where]
RunRequested(r)    == [type |-> "RunRequested", run |-> r]
RunControl(r, c)   == [type |-> "RunControl", run |-> r, command |-> c]

\* Keys are read between ticks; the bound leaves room for what the key queues.
AtKeyboard(n) == batch = <<>> /\ Len(effects) + n <= MaxEffects

Queue(es) == effects' = effects \o es /\ UNCHANGED <<batch, stream>>

\* The navigation bar, Esc and Cancel of the input view, Done of the run view.
Navigate ==
    /\ AtKeyboard(1)
    /\ \E where \in {"Workflows", "Other"} : Queue(<<SwitchTo(where)>>)
    /\ UNCHANGED <<ui, task, control, events, counts, history>>

\* Enter on a workflow of the list.
OpenInputs ==
    /\ AtKeyboard(1)
    /\ route = "Workflows"
    /\ drafts < MaxDrafts
    /\ drafts' = drafts + 1
    /\ session' = InputsSession(drafts + 1)
    /\ Queue(<<SwitchTo("WorkflowInputs")>>)
    /\ UNCHANGED <<route, task, control, events, runs, presses, history>>

\* run_active_workflow with draft d, its inputs resolved and its preflight clean.
RequestRun(d) ==
    /\ runs < MaxRuns
    /\ runs' = runs + 1
    /\ session' = RunSession(d, runs + 1)
    /\ task' = [task EXCEPT ![runs + 1] = [NoTask EXCEPT !.phase = "requested", !.draft = d]]
    /\ Queue(<<RunRequested(runs + 1), SwitchTo("WorkflowRun")>>)

\* Run, in the input view.
RunActive ==
    /\ AtKeyboard(2)
    /\ route = "WorkflowInputs" /\ session.inputs
    /\ RequestRun(session.draft)
    /\ UNCHANGED <<route, control, events, drafts, presses, history>>

AtRunView == route = "WorkflowRun" /\ HasView

\* The cancel and pause buttons, as far as the status shown enables them.
PressControl ==
    /\ AtKeyboard(1)
    /\ AtRunView
    /\ presses < MaxControls
    /\ presses' = presses + 1
    /\ \E c \in {"Cancel", "Pause", "Resume"} :
           /\ c = "Cancel" => session.view.status \in {"Pending", "Running", "Paused"}
           /\ c = "Pause"  => session.view.status = "Running"
           /\ c = "Resume" => session.view.status = "Paused"
           /\ Queue(<<RunControl(session.run, c)>>)
    /\ UNCHANGED <<ui, task, control, events, drafts, runs, history>>

\* rerun_failed_workflow: a new draft from the first failed step on.  The
\* buttons offer it once the run shown has failed.
CanRerun ==
    /\ AtRunView
    /\ session.view.status = "Failed" /\ session.view.failed
    /\ drafts < MaxDrafts
    /\ drafts' = drafts + 1

ReviewInputs ==
    /\ AtKeyboard(1)
    /\ CanRerun
    /\ session' = InputsSession(drafts + 1)
    /\ Queue(<<SwitchTo("WorkflowInputs")>>)
    /\ UNCHANGED <<route, task, control, events, runs, presses, history>>

RerunFailed ==
    /\ AtKeyboard(2)
    /\ CanRerun
    /\ RequestRun(drafts + 1)
    /\ UNCHANGED <<route, control, events, presses, history>>

User == Navigate \/ OpenInputs \/ RunActive \/ PressControl \/ ReviewInputs \/ RerunFailed

-----------------------------------------------------------------------------
(* The tick: navigation effects first, then the others *)

Tick ==
    /\ batch = <<>> /\ effects # <<>>
    /\ batch' = effects
    /\ effects' = <<>>
    /\ UNCHANGED <<ui, stream, task, control, events, counts, history>>

IsNavigation(e) == e.type = "SwitchTo"

\* The effect whose turn it is: the navigation effects are extracted from the
\* batch and handled first, then the rest, each in the order they were queued.
InTurn(i) ==
    \A j \in DOMAIN batch \ {i} :
        IF IsNavigation(batch[i]) = IsNavigation(batch[j]) THEN i < j ELSE IsNavigation(batch[i])

Take(i) == InTurn(i) /\ batch' = RemoveAt(batch, i)

AfterExitUnguarded ==                                             \* mutant
    CASE route = "WorkflowRun"    -> Empty
      [] route = "WorkflowInputs" -> [session EXCEPT !.inputs = FALSE]
      [] OTHER                    -> session

\* on_route_exit of the component shown: the run view ends the session unless
\* a run is controlled, the input view closes itself.
AfterExit ==
    CASE route = "WorkflowRun" /\ ~IsRunning -> Empty
      [] route = "WorkflowInputs"            -> [session EXCEPT !.inputs = FALSE]
      [] OTHER                               -> session

\* set_current_route and its two redirections.
Shown(where, s) ==
    IF where = "Workflows" /\ s.control # None /\ s.view # NoView THEN "WorkflowRun"
    ELSE IF where = "WorkflowRun" /\ s.view = NoView THEN "Workflows"
    ELSE where

DoSwitch ==
    \E i \in DOMAIN batch :
    /\ Take(i) /\ IsNavigation(batch[i])
    /\ session' = AfterExit
    /\ route' = Shown(batch[i].route, AfterExit)
    /\ UNCHANGED <<effects, stream, task, control, events, counts, history>>

RegisteredUnchecked(r) == [session EXCEPT !.control = r]          \* mutant
\* register_run_control.
Registered(r) == IF session.run = r THEN [session EXCEPT !.control = r] ELSE session

\* handle_workflow_run_requested: the control handle is kept only by a session
\* that still shows this run; the event receiver replaces the one there was,
\* and what that one had not delivered is lost.
DoRunRequested ==
    \E i \in DOMAIN batch :
    /\ Take(i) /\ batch[i].type = "RunRequested"
    /\ LET r == batch[i].run IN
       /\ task' = [task EXCEPT ![r].phase = "created", ![r].todo = StepsPerRun]
       /\ session' = Registered(r)
       /\ stream' = r
       /\ events' = [q \in Runs |-> <<>>]
    /\ UNCHANGED <<route, effects, control, counts, history>>

\* handle_workflow_run_control: without the handle the command is only logged.
DoRunControl ==
    \E i \in DOMAIN batch :
    /\ Take(i) /\ batch[i].type = "RunControl"
    /\ LET r == batch[i].run IN
       control' = IF session.run = r /\ IsRunning
                  THEN [control EXCEPT ![r] = Append(@, batch[i].command)]
                  ELSE control
    /\ UNCHANGED <<ui, effects, stream, task, events, counts, history>>

-----------------------------------------------------------------------------
(* Run events reach the session *)

DeliverWithoutResult(e) ==                                        \* mutant
    IF e.type = "Status" THEN [session EXCEPT !.view.status = e.value]
    ELSE IF e.type = "Completed" THEN [session EXCEPT !.control = None] ELSE session

Deliver(e) ==
    LET v == session.view IN
    CASE e.type = "Status"    -> [session EXCEPT !.view.status = e.value]
      [] e.type = "Finished"  ->
            IF e.value = "Failed"
            THEN [session EXCEPT !.view.failed = TRUE, !.control = None] ELSE session
      [] e.type = "Completed" -> [session EXCEPT !.view.status = e.value, !.control = None]
      [] OTHER                -> session

ConcernsAnyView == HasView                                        \* mutant
\* The events received are those of the run the session shows.
ConcernsSession == session.run = stream /\ HasView

IsSuccessStatus(e) == e.type = "Status" /\ e.value = "Succeeded"    \* mutant
IsSuccess(e) == e.type = "Completed" /\ e.value = "Succeeded"

\* process_workflow_run_event: a session that shows another run ignores the
\* event, and yet a success saves the inputs of whatever draft is at hand.
ReceiveEvent ==
    /\ batch = <<>>
    /\ stream # None /\ events[stream] # <<>>
    /\ LET e == Head(events[stream]) IN
       /\ session' = IF ConcernsSession THEN Deliver(e) ELSE session
       /\ history' = IF IsSuccess(e) /\ session.draft # None
                     THEN history \cup {session.draft} ELSE history
    /\ events' = [events EXCEPT ![stream] = Tail(@)]
    /\ UNCHANGED <<route, loop, task, control, counts>>

\* recv returns None once the task has ended and all was received.
CloseStream ==
    /\ batch = <<>>
    /\ stream # None /\ events[stream] = <<>> /\ task[stream].phase = "over"
    /\ stream' = None
    /\ UNCHANGED <<ui, effects, batch, task, control, events, counts, history>>

-----------------------------------------------------------------------------
(* A run task (module WorkflowRun) *)

Status(st)    == [type |-> "Status", value |-> st]
Finished(o)   == [type |-> "Finished", value |-> o]
Completed(st) == [type |-> "Completed", value |-> st]
Started       == [type |-> "Started"]

Heard(r)     == stream = r
Emit(r, es)  == events' = IF Heard(r) THEN [events EXCEPT ![r] = @ \o es] ELSE events
Become(r, t) == task' = [task EXCEPT ![r] = t] /\ UNCHANGED <<ui, loop, counts, history>>
Go(r, p)     == Become(r, [task[r] EXCEPT !.phase = p])

\* The plan is accepted or, whatever the reason, refused.
TaskBegin(r) ==
    /\ task[r].phase = "created"
    /\ \/ ~Heard(r) /\ Go(r, "over") /\ UNCHANGED events
       \/ Heard(r) /\ Emit(r, <<Status("Running")>>) /\ Go(r, IF StepsPerRun = 0 THEN "complete" ELSE "top")
       \/ Heard(r) /\ Emit(r, <<Status("Failed"), Completed("Failed")>>) /\ Go(r, "over")
    /\ UNCHANGED control

Accepted(t, c) ==
    \/ c = "Pause"  /\ ~t.paused /\ ~t.cancel
    \/ c = "Resume" /\ t.paused
    \/ c = "Cancel" /\ ~t.cancel

Listens(t) ==
    t.phase \in {"top", "after"} \/ (t.phase \in {"waitTop", "waitAfter"} /\ t.paused /\ ~t.cancel)

TakeCommand(r) ==
    LET t == task[r]
        c == Head(control[r])
    IN
    /\ Listens(t)
    /\ control[r] # <<>>
    /\ control' = [control EXCEPT ![r] = Tail(@)]
    /\ \/ ~Accepted(t, c) /\ UNCHANGED <<ui, loop, counts, history, task, events>>
       \/ /\ Accepted(t, c)
          /\ Emit(r, <<Status([Pause |-> "Paused", Resume |-> "Running", Cancel |-> "CancelRequested"][c])>>)
          /\ Become(r, [t EXCEPT !.paused = (c = "Pause"), !.cancel = (t.cancel \/ c = "Cancel"),
                                 !.phase = IF Heard(r) THEN @ ELSE "over"])

\* Where a run goes on to when it neither drains nor waits any longer.
NextPhase(t) ==
    CASE t.cancel                           -> "complete"
      [] t.phase \in {"top", "waitTop"}     -> "prepare"
      [] t.phase \in {"after", "waitAfter"} -> IF t.todo = 0 THEN "complete" ELSE "top"

TaskEndDrain(r) ==
    LET t == task[r] IN
    /\ t.phase \in {"top", "after"} /\ control[r] = <<>>
    /\ Go(r, IF t.paused /\ ~t.cancel
             THEN (IF t.phase = "top" THEN "waitTop" ELSE "waitAfter")
             ELSE NextPhase(t))
    /\ UNCHANGED <<control, events>>

WaitIsOverOnCommand(r) == ~task[r].paused \/ task[r].cancel          \* mutant
\* Resumed, cancelled, or nobody is left who could send a command.
WaitIsOver(r) == ~task[r].paused \/ task[r].cancel \/ (control[r] = <<>> /\ session.control # r)

TaskEndWait(r) ==
    LET t == task[r] IN
    /\ t.phase \in {"waitTop", "waitAfter"}
    /\ WaitIsOver(r)
    /\ Go(r, NextPhase(t))
    /\ UNCHANGED <<control, events>>

StepStart(r) ==
    /\ task[r].phase = "prepare"
    /\ Emit(r, <<Started>>)
    /\ Go(r, "execute")
    /\ UNCHANGED control

\* Skipped, or failed for a missing input, without having started.
StepDeclined(r) ==
    LET t == task[r] IN
    /\ t.phase = "prepare"
    /\ \E o \in {"Skipped", "Failed"} :
           /\ Emit(r, <<Finished(o)>>)
           /\ Become(r, [t EXCEPT !.todo = @ - 1, !.failed = @ \/ o = "Failed",
                                  !.phase = IF ~Heard(r) THEN "over"
                                            ELSE IF t.todo = 1 THEN "complete" ELSE "top"])
    /\ UNCHANGED control

StepDone(r) ==
    LET t == task[r] IN
    /\ t.phase = "execute"
    /\ \E o \in {"Succeeded", "Failed", "Skipped"} :
           /\ Emit(r, <<Finished(o)>>)
           /\ Become(r, [t EXCEPT !.todo = @ - 1, !.failed = @ \/ o = "Failed",
                                  !.phase = IF Heard(r) THEN "after" ELSE "over"])
    /\ UNCHANGED control

TaskComplete(r) ==
    LET t == task[r] IN
    /\ t.phase = "complete"
    /\ Emit(r, <<Completed(IF t.cancel THEN "Canceled" ELSE IF t.failed THEN "Failed" ELSE "Succeeded")>>)
    /\ Go(r, "over")
    /\ UNCHANGED control

RunTask(r) ==
    \/ TaskBegin(r) \/ TakeCommand(r) \/ TaskEndDrain(r) \/ TaskEndWait(r)
    \/ StepStart(r) \/ StepDeclined(r) \/ StepDone(r) \/ TaskComplete(r)

DoEffect  == DoSwitch \/ DoRunRequested \/ DoRunControl
EventLoop == Tick \/ DoEffect \/ ReceiveEvent \/ CloseStream

Next == User \/ EventLoop \/ \E r \in Runs : RunTask(r)

\* tokio::select! polls its ready branches in random order, so neither ticks
\* nor run events starve; a spawned task keeps running.  Users owe nothing.
Spec ==
    /\ Init /\ [][Next]_vars
    /\ WF_vars(Tick \/ DoEffect) /\ SF_vars(ReceiveEvent)
    /\ \A r \in Runs : WF_vars(RunTask(r))

-----------------------------------------------------------------------------
(* What the session promises *)

Terminal  == {"Succeeded", "Failed", "Canceled"}
Waits     == {"waitTop", "waitAfter"}
Spawned   == {"created", "top", "waitTop", "prepare", "execute", "after", "waitAfter", "complete"}

\* A controlled run is the run shown, it is the one whose events are received,
\* and the workflow list, where another could be opened, is not on screen.
ControlledRunIsShown ==
    IsRunning =>
        /\ session.control = session.run /\ HasView /\ session.draft = task[session.run].draft
        /\ stream = session.run
        /\ route # "Workflows"

\* The result on screen is the one the run came to.
ResultShownIsTrue ==
    LET t == task[session.run] IN
    session.run # None /\ session.view.status \in Terminal =>
        /\ t.phase = "over"
        /\ session.view.status = "Canceled" <=> t.cancel
        /\ session.view.status = "Succeeded" => ~t.failed /\ t.todo = 0

\* A success on screen has had the inputs it was obtained with saved.
SuccessIsSaved ==
    session.view.status = "Succeeded" => session.draft = task[session.run].draft /\ session.draft \in history

\* The UI lets go of a run it controls only when a step of it failed or it
\* has completed: not for another run, another draft or another route.
ControlIsKept ==
    [][ IsRunning /\ session'.control # session.control =>
            /\ session'.run = session.run
            /\ session'.view.failed \/ session'.view.status \in Terminal ]_vars

\* However the user leaves it, a spawned run ends, unless it is the one paused
\* under control and offered to be resumed.
NoRunIsStranded ==
    \A r \in Runs :
        task[r].phase \in Spawned ~>
            \/ task[r].phase = "over"
            \/ task[r].phase \in Waits /\ session.control = r /\ session.view.status = "Paused"

\* Cancel, pressed on a run under control, ends with a result on screen, unless
\* the user has moved on to another draft.
CancelComesToAResult ==
    \A r \in Runs :
        (session.control = r /\ RunControl(r, "Cancel") \in Range(effects) \cup Range(batch))
            ~> (session.run # r \/ session.view.status \in Terminal)

-----------------------------------------------------------------------------
(* What the documentation says of the code, and the code does not do *)

\* "Execution is paused; no new steps will start." (types/src/workflow.rs:532)
PausedStartsNoStep ==
    [][\A r \in Runs : task[r].phase = "prepare" /\ task'[r].phase = "execute" => ~task[r].paused]_vars

=============================================================================

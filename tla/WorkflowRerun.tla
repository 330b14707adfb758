--------------------------- MODULE WorkflowRerun ---------------------------
(***************************************************************************)
(* A workflow run as the terminal UI shows it and lets the user repeat it: *)
(* WorkflowRun's task, the rows of the run view its events update          *)
(* (src/crates/tui/src/ui/components/workflows/run/state.rs), and the      *)
(* rerun of a failed run from its first failed step (app.rs).              *)
(***************************************************************************)
EXTENDS WorkflowRun, PlanOrder

CONSTANTS
    Definitions,        \* the acyclic workflows a user may run, not yet planned
    MaxReruns           \* bound on the reruns of one workflow

VARIABLES
    original,     \* the workflow as the user first ran it
    delivered,    \* how many of the run's events the view has received
    rows,         \* step_rows: a step identifier and the status shown for it
    shown,        \* the run status shown
    context,      \* run_context.steps of the session's WorkflowRunState
    settled,      \* what each step came to when it last ran, over all runs
    reruns        \* counts Rerun up to MaxReruns

task == <<wf, phase, local, flags, control, events, eventsOpen, commandsSent>>
view == <<delivered, rows, shown, context>>
rerunVars == <<task, controlOpen, original, view, settled, reruns>>

\* The run is asked for with the steps declared; the engine plans them.
Requested(d) == [d EXCEPT !.order = PlanOrder(d.declared, d.deps)]

\* initialize_steps.
RowsOf(d) == [k \in DOMAIN d.declared |-> [step |-> d.declared[k], shown |-> "pending"]]

RerunInit ==
    /\ wf \in {Requested(d) : d \in Definitions}
    /\ Created
    /\ commandsSent = 0
    /\ original = wf
    /\ delivered = 0
    /\ rows = RowsOf(wf) /\ shown = "Pending"
    /\ context = wf.seeds
    /\ settled = [s \in Steps |-> "pending"]
    /\ reruns = 0

\* The task takes a step, or a step of it settles.
TaskStep ==
    /\ RunTask
    /\ settled' = [s \in Steps |-> IF status'[s] = status[s] THEN settled[s] ELSE status'[s]]
    /\ UNCHANGED <<original, view, reruns>>

\* The buttons of the run view, while it shows a run in progress.
PressControl ==
    /\ shown \in {"Running", "Paused"}
    /\ SendCommand
    /\ shown = "Paused" => control'[Len(control')] # "Pause"
    /\ UNCHANGED <<original, view, settled, reruns>>

-----------------------------------------------------------------------------
(* WorkflowState::apply_run_event *)

MarkRunningFromOne(e) ==                                          \* mutant
    [k \in DOMAIN rows |-> IF k = e.index THEN [rows[k] EXCEPT !.shown = "running"] ELSE rows[k]]

\* mark_step_running: the row is found by the index announced.
MarkRunning(e) ==
    [k \in DOMAIN rows |-> IF k = e.index + 1 THEN [rows[k] EXCEPT !.shown = "running"] ELSE rows[k]]

\* mark_step_finished: the row is found by the step.
MarkFinished(e) ==
    [k \in DOMAIN rows |-> IF rows[k].step = e.step THEN [rows[k] EXCEPT !.shown = e.status] ELSE rows[k]]

ReceiveEvent ==
    /\ delivered < Len(events)
    /\ delivered' = delivered + 1
    /\ LET e == events[delivered + 1] IN
       /\ rows' = CASE e.type = "StepStarted"  -> MarkRunning(e)
                    [] e.type = "StepFinished" -> MarkFinished(e)
                    [] OTHER                   -> rows
       /\ context' = IF e.type = "StepFinished" THEN [context EXCEPT ![e.step] = e.output] ELSE context
       /\ shown' = CASE e.type = "RunStarted" -> "Running"
                     [] e.type \in {"RunStatusChanged", "RunCompleted"} -> e.status
                     [] OTHER -> shown
       /\ controlOpen' = (/\ controlOpen
                          /\ e.type # "RunCompleted"
                          /\ ~(e.type = "StepFinished" /\ e.status = "Failed"))
    /\ UNCHANGED <<task, original, settled, reruns>>

-----------------------------------------------------------------------------
(* rerun_failed_workflow *)

FailedRows == {k \in DOMAIN rows : rows[k].shown = "Failed"}

\* first_failed_step_identifier: the first such row.
FirstFailed == rows[CHOOSE k \in FailedRows : \A l \in FailedRows : k <= l].step

\* One pass of collect_impacted_steps over the declaration: a step with a
\* dependency among those found is found.
Swept(d, found) ==
    LET Upto[k \in 0 .. Len(d.declared)] ==
            IF k = 0 THEN found
            ELSE IF d.deps[d.declared[k]] \cap Upto[k - 1] = {} THEN Upto[k - 1]
            ELSE Upto[k - 1] \cup {d.declared[k]}
    IN Upto[Len(d.declared)]

ImpactedInOnePass(d, s) == Swept(d, {s})                          \* mutant

\* collect_impacted_steps: passes until one finds nothing, which is the case
\* after as many passes as there are steps.
Impacted(d, s) ==
    LET After[k \in 0 .. Len(d.declared)] == IF k = 0 THEN {s} ELSE Swept(d, After[k - 1])
    IN After[Len(d.declared)]

RerunWhole(d, s, read) == [d EXCEPT !.seeds = [x \in Steps |-> "absent"]]     \* mutant
RerunOverContext(d, s, read) ==                                   \* mutant
    LET impacted == Impacted(d, s) IN
    [d EXCEPT !.declared = Among(@, impacted),
              !.deps = [x \in Steps |-> IF x \in impacted THEN @[x] \cap impacted ELSE @[x]],
              !.seeds = read]

\* build_failed_rerun_state: the impacted steps, without their dependencies on
\* other steps, over what the view has read of the outputs of the other steps.
RerunOf(d, s, read) ==
    LET impacted == Impacted(d, s) IN
    [d EXCEPT !.declared = Among(@, impacted),
              !.deps = [x \in Steps |-> IF x \in impacted THEN @[x] \cap impacted ELSE @[x]],
              !.seeds = [x \in Steps |-> IF x \in impacted THEN "absent" ELSE read[x]]]

\* What reruns can make of the workflows W, whichever step failed first.
RerunsOf(W) ==
    UNION {{Requested(RerunOf(w, s, read)) : s \in Range(w.declared), read \in [Steps -> Outputs]} : w \in W}

\* The planner accepts what users run and what reruns make of it; nothing has
\* been put out before the first run.
ASSUME RerunAssumption ==
    /\ \A d \in Definitions : d.planned /\ \A s \in Range(d.declared) : d.seeds[s] = "absent"
    /\ {Requested(d) : d \in Definitions} \subseteq Workflows
    /\ RerunsOf(Workflows) \subseteq Workflows

\* The run view offers the rerun of a run it shows as failed.
CanRerun == shown = "Failed" /\ FailedRows # {}

Rerun ==
    /\ CanRerun
    /\ reruns < MaxReruns
    /\ reruns' = reruns + 1
    /\ wf' = Requested(RerunOf(wf, FirstFailed, context))
    /\ rows' = RowsOf(wf') /\ shown' = "Pending" /\ delivered' = 0
    /\ context' = wf'.seeds /\ outputs' = wf'.seeds
    /\ phase' = "created" /\ pos' = 1
    /\ status' = [s \in Steps |-> "pending"]
    /\ attempts' = 0 /\ anyFailed' = FALSE
    /\ paused' = FALSE /\ cancelRequested' = FALSE
    /\ control' = <<>> /\ controlOpen' = TRUE
    /\ events' = <<>> /\ eventsOpen' = TRUE
    /\ UNCHANGED <<commandsSent, original, settled>>

RerunNext == TaskStep \/ PressControl \/ ReceiveEvent \/ Rerun

\* The task runs on, and the UI loop keeps receiving; users owe nothing.
RerunSpec ==
    RerunInit /\ [][RerunNext]_rerunVars /\ WF_rerunVars(TaskStep) /\ WF_rerunVars(ReceiveEvent)

-----------------------------------------------------------------------------
(* What the view and the rerun promise *)

Terminal == {"Succeeded", "Failed", "Canceled"}
Over     == shown \in Terminal /\ delivered = Len(events)

\* As long as the steps run in the order they are declared in, the rows of a
\* run that is over show what each step came to.
RowsTellOutcomes ==
    Over /\ wf.order = wf.declared =>
        \A k \in DOMAIN rows : rows[k].shown = status[rows[k].step]

\* T holds every step of the first run with a dependency in T.
Follows(T) ==
    \A x \in Range(original.declared) : original.deps[x] \cap T # {} => x \in T

\* A rerun plans one step and those that depend on it in the workflow as it was
\* first run, however indirectly: it leaves none of these out and adds no other.
RerunScopeIsClosure ==
    LET scope == Range(wf.declared) IN
    reruns > 0 =>
        /\ scope \subseteq Range(original.declared) /\ Follows(scope)
        /\ \E f \in scope : \A T \in SUBSET scope : f \in T /\ Follows(T) => T = scope

\* A rerun never executes again a step that has succeeded.
NoSuccessRepeated ==
    [][ phase' = "execute" /\ phase # "execute" => settled[Step] # "Succeeded" ]_rerunVars

\* A rerun can read the output of every step that succeeded before and is not
\* run again, and none of a step it has yet to begin.
RerunReadsWhatSucceeded ==
    /\ \A s \in Steps \ Range(wf.declared) : settled[s] = "Succeeded" => outputs[s] # "absent"
    /\ \A s \in Range(wf.declared) :
           status[s] = "pending" /\ ~(phase = "execute" /\ Step = s) => outputs[s] = "absent"

=============================================================================

----------------------- MODULE WorkflowRunRefinement -----------------------
(***************************************************************************)
(* WorkflowRun implements RunLifecycle.  A step is running while the run   *)
(* task executes it; the result is known when RunCompleted is sent, or     *)
(* when the task gives up because its events have no receiver.             *)
(***************************************************************************)
EXTENDS WorkflowRun

Executing == phase = "execute"

OutcomeBar ==
    [s \in Steps |-> IF Executing /\ s = Step THEN "running" ELSE status[s]]

ResultBar ==
    CASE phase = "aborted" -> "abandoned"
      [] phase = "ended" /\ events = <<>> -> "abandoned"
      [] phase = "ended" /\ ~wf.planned -> "Failed"
      [] phase = "ended" /\ events # <<>> /\ wf.planned -> CompletedStatus
      [] OTHER -> "none"

Lifecycle == INSTANCE RunLifecycle
                WITH outcome <- OutcomeBar, canceled <- cancelRequested, result <- ResultBar

\* Every step of the run task is a step of the promised lifecycle, or
\* invisible to it.
ImplementsLifecycle == Lifecycle!Spec
=============================================================================

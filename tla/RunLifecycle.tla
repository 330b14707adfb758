---------------------------- MODULE RunLifecycle ----------------------------
(***************************************************************************)
(* What a workflow run promises whoever asked for it, without its          *)
(* channels, its event stream or its loop: steps settle one at a time and  *)
(* once, a step executes only when all it depends on succeeded, a cancel   *)
(* that was accepted stays, and the result follows from the two.           *)
(* WorkflowRun implements it (see WorkflowRunRefinement).                  *)
(***************************************************************************)
CONSTANTS Steps, Workflows

VARIABLES
    wf,        \* the workflow: which steps it plans and what they depend on
    outcome,   \* of each step: "pending", "running", or how it settled
    canceled,  \* a cancel was accepted
    result     \* "none" until the run is over

vars == <<wf, outcome, canceled, result>>

Settled == {"Skipped", "Succeeded", "Failed"}
Members == {wf.order[i] : i \in DOMAIN wf.order}
Idle    == \A s \in Steps : outcome[s] # "running"
Ready(s) == \A d \in wf.deps[s] : outcome[d] = "Succeeded"

Init ==
    /\ wf \in Workflows
    /\ outcome = [s \in Steps |-> "pending"]
    /\ canceled = FALSE
    /\ result = "none"

Start(s) ==
    /\ result = "none" /\ ~canceled /\ Idle
    /\ s \in Members /\ outcome[s] = "pending" /\ Ready(s)
    /\ outcome' = [outcome EXCEPT ![s] = "running"]
    /\ UNCHANGED <<wf, canceled, result>>

Finish(s) ==
    /\ outcome[s] = "running"
    /\ \E o \in Settled : outcome' = [outcome EXCEPT ![s] = o]
    /\ UNCHANGED <<wf, canceled, result>>

\* A step that is not executed: skipped, or failed for a missing input.
Decline(s) ==
    /\ result = "none" /\ ~canceled /\ Idle
    /\ s \in Members /\ outcome[s] = "pending"
    /\ \/ outcome' = [outcome EXCEPT ![s] = "Skipped"]
       \/ Ready(s) /\ outcome' = [outcome EXCEPT ![s] = "Failed"]
    /\ UNCHANGED <<wf, canceled, result>>

Cancel ==
    /\ result = "none" /\ ~canceled /\ Idle
    /\ canceled' = TRUE
    /\ UNCHANGED <<wf, outcome, result>>

\* The run is over: cancelled, or with every planned step settled.
Conclude ==
    /\ result = "none" /\ Idle
    /\ canceled \/ \A s \in Members : outcome[s] \in Settled
    /\ result' = IF canceled THEN "Canceled"
                 ELSE IF \E s \in Members : outcome[s] = "Failed" THEN "Failed"
                 ELSE "Succeeded"
    /\ UNCHANGED <<wf, outcome, canceled>>

\* The planner refuses the workflow: nothing runs.
Refuse ==
    /\ result = "none" /\ ~wf.planned
    /\ \A s \in Steps : outcome[s] = "pending"
    /\ result' = "Failed"
    /\ UNCHANGED <<wf, outcome, canceled>>

\* Nobody listens any more: the run may stop where it stands, with the step
\* or the cancel at hand recorded.
Abandon ==
    /\ result = "none"
    /\ result' = "abandoned"
    /\ \/ UNCHANGED <<outcome, canceled>>
       \/ ~canceled /\ Idle /\ canceled' = TRUE /\ UNCHANGED outcome
       \/ UNCHANGED canceled /\ \E s \in Members, o \in Settled :
             outcome[s] \in {"pending", "running"} /\ outcome' = [outcome EXCEPT ![s] = o]
    /\ UNCHANGED wf

Next ==
    \/ \E s \in Steps : Start(s) \/ Finish(s) \/ Decline(s)
    \/ Cancel \/ Conclude \/ Refuse \/ Abandon

Spec == Init /\ [][Next]_vars
=============================================================================

---------------------------- MODULE WorkflowRun ----------------------------
(***************************************************************************)
(* One asynchronous workflow run: the task that drive_workflow_run runs,   *)
(* the control channel a caller feeds it and the event channel it feeds.   *)
(* Source: src/crates/engine/src/workflow/runner.rs and the executor it    *)
(* calls (executor/repeat.rs, executor/step_once.rs, executor/prepare.rs). *)
(*                                                                         *)
(* Data is abstracted to what control depends on.  A step's output is      *)
(* "absent", "null" (JSON without the fields templates ask for) or "value";*)
(* an `if` or an `until` expression is a choice of its outcome; the order  *)
(* of the steps is the planner's (module StepPlanning).                    *)
(***************************************************************************)
EXTENDS Naturals, Sequences, FiniteSets, Functions

CONSTANTS
    Steps,              \* step identifiers
    Workflows,          \* the workflows a run may be asked to drive
    MaxRepeatAttempts,  \* repeat.rs MAX_REPEAT_ATTEMPTS
    MaxCommands         \* bound on the commands a caller sends to one run

Outcomes == {"Skipped", "Succeeded", "Failed"}
Outputs  == {"absent", "null", "value"}
Commands == {"Pause", "Resume", "Cancel"}

(***************************************************************************)
(* A workflow as the run sees it: whether the planner accepted it, the     *)
(* steps as declared and in the order the planner returned, depends_on,    *)
(* the steps whose whole output / a field of whose output the templates of *)
(* a step mention, the steps with an `if` and with a `repeat`,             *)
(* max_attempts, and the outputs seeded by the request.                    *)
(***************************************************************************)
Workflow ==
    [planned : BOOLEAN, declared : Seq(Steps), order : Seq(Steps), deps : [Steps -> SUBSET Steps],
     wholes : [Steps -> SUBSET Steps], fields : [Steps -> SUBSET Steps],
     conditional : SUBSET Steps, repeats : SUBSET Steps,
     limit : [Steps -> Nat], seeds : [Steps -> Outputs]]

\* Nothing stands twice in s.
Distinct(s) == \A i, j \in DOMAIN s : s[i] = s[j] => i = j

\* What order_steps_for_execution promises of an accepted workflow: no step is
\* declared twice, and the order holds every step declared, once, after the steps
\* it depends on (StepPlanning!OrderIsSound).
IsPlanned(w) ==
    /\ Range(w.order) = Range(w.declared)
    /\ Distinct(w.declared) /\ Distinct(w.order)
    /\ \A i \in DOMAIN w.order : \A d \in w.deps[w.order[i]] :
           \E j \in 1 .. (i - 1) : w.order[j] = d

ASSUME RunAssumption ==
    /\ Workflows \subseteq Workflow
    /\ \A w \in Workflows : w.planned => IsPlanned(w)
    /\ MaxRepeatAttempts \in Nat \ {0}
    /\ MaxCommands \in Nat

VARIABLES
    wf,           \* the request's workflow, fixed when the run is created
    phase,        \* where drive_workflow_run stands
    pos,          \* position in wf.order of the step at hand
    status,       \* statuses: the outcome of each settled step
    outputs,      \* context.steps
    attempts,     \* attempts made of the step being executed
    anyFailed,    \* any_failed
    paused, cancelRequested,      \* ControlState
    control, controlOpen,         \* control channel: queue, sender alive
    events, eventsOpen,           \* all events delivered, receiver alive
    commandsSent                  \* counts SendCommand up to MaxCommands

local    == <<pos, status, outputs, attempts, anyFailed>>
flags    == <<paused, cancelRequested>>
channels == <<control, controlOpen, eventsOpen, commandsSent>>
vars     == <<wf, phase, local, flags, channels, events>>

-----------------------------------------------------------------------------
(* Events *)

RunStarted              == [type |-> "RunStarted"]
RunStatusChanged(st)    == [type |-> "RunStatusChanged", status |-> st]
StepStarted(i, s)       == [type |-> "StepStarted", index |-> i, step |-> s]
StepAttempt(s, n)       == [type |-> "StepAttempt", step |-> s, attempt |-> n]
StepFinished(s, st, o, n) ==
    [type |-> "StepFinished", step |-> s, status |-> st, output |-> o, attempts |-> n]
RunOutputAccumulated(s, o) == [type |-> "RunOutputAccumulated", step |-> s, output |-> o]
RunCompleted(st)        == [type |-> "RunCompleted", status |-> st]

\* A send to a dropped receiver fails; whether that matters is the sender's choice.
Emit(es) == events' = IF eventsOpen THEN events \o es ELSE events

-----------------------------------------------------------------------------
(* The run task *)

Planned    == Range(wf.order)
Step       == wf.order[pos]
LastStep   == pos = Len(wf.order)
Terminated == phase \in {"ended", "aborted"}

\* A run that has just been asked for.
Created ==
    /\ phase = "created"
    /\ pos = 1
    /\ status = [s \in Steps |-> "pending"]
    /\ outputs = wf.seeds
    /\ attempts = 0
    /\ anyFailed = FALSE
    /\ paused = FALSE /\ cancelRequested = FALSE
    /\ control = <<>> /\ controlOpen = TRUE
    /\ events = <<>> /\ eventsOpen = TRUE

Init == wf \in Workflows /\ Created /\ commandsSent = 0

\* RunStarted with nobody listening ends the run; a workflow the planner
\* refuses fails without running a step.
Begin ==
    /\ phase = "created"
    /\ \/ /\ ~eventsOpen
          /\ phase' = "ended"
          /\ UNCHANGED events
       \/ /\ eventsOpen
          /\ ~wf.planned
          /\ Emit(<<RunStarted, RunStatusChanged("Failed"), RunCompleted("Failed")>>)
          /\ phase' = "ended"
       \/ /\ eventsOpen
          /\ wf.planned
          /\ Emit(<<RunStarted, RunStatusChanged("Running")>>)
          /\ phase' = IF wf.order = <<>> THEN "complete" ELSE "top"
    /\ UNCHANGED <<wf, local, flags, channels>>

AcceptsPauseAfterCancel(c) ==                                     \* mutant
    \/ c = "Pause"  /\ ~paused
    \/ c = "Resume" /\ paused
    \/ c = "Cancel" /\ ~cancelRequested

\* The commands ControlState::process_command does not ignore.
Accepts(c) ==
    \/ c = "Pause"  /\ ~paused /\ ~cancelRequested
    \/ c = "Resume" /\ paused
    \/ c = "Cancel" /\ ~cancelRequested

StatusOf(c) == [Pause |-> "Paused", Resume |-> "Running", Cancel |-> "CancelRequested"][c]

\* One command off the control channel.  A status nobody receives aborts the
\* run: emit_status is followed by `?` here.
ProcessCommand ==
    LET c == Head(control) IN
    /\ control # <<>>
    /\ control' = Tail(control)
    /\ \/ /\ ~Accepts(c)
          /\ UNCHANGED <<phase, flags, events>>
       \/ /\ Accepts(c)
          /\ paused' = (c = "Pause")
          /\ cancelRequested' = (cancelRequested \/ c = "Cancel")
          /\ Emit(<<RunStatusChanged(StatusOf(c))>>)
          /\ phase' = IF eventsOpen THEN phase ELSE "aborted"
    /\ UNCHANGED <<wf, local, controlOpen, eventsOpen, commandsSent>>

\* drain_pending_commands, at the top of the loop and after an executed step.
Drain == phase \in {"top", "after"} /\ ProcessCommand

\* Leaving an iteration: the next step, or the end of the `for`.
NextIteration ==
    /\ pos' = IF LastStep THEN pos ELSE pos + 1
    /\ phase' = IF LastStep THEN "complete" ELSE "top"

\* After the first drain the step is prepared, after the second it is left.
Proceed(from) ==
    IF from \in {"top", "waitTop"}
    THEN phase' = "prepare" /\ UNCHANGED pos
    ELSE NextIteration

DrainedAtOnce == TRUE                                             \* mutant
Drained == control = <<>>

EndDrain ==
    /\ phase \in {"top", "after"}
    /\ Drained
    /\ \/ cancelRequested /\ phase' = "complete" /\ UNCHANGED pos
       \/ /\ ~cancelRequested
          /\ paused
          /\ phase' = IF phase = "top" THEN "waitTop" ELSE "waitAfter"
          /\ UNCHANGED pos
       \/ ~cancelRequested /\ ~paused /\ Proceed(phase)
    /\ UNCHANGED <<wf, status, outputs, attempts, anyFailed, flags, channels, events>>

Waiting == phase \in {"waitTop", "waitAfter"}

\* wait_for_resume blocks on the channel while the run stays paused.
AwaitCommand == Waiting /\ paused /\ ~cancelRequested /\ ProcessCommand

WaitIsOverWhenEmpty == ~paused \/ cancelRequested \/ control = <<>>   \* mutant
WaitIsOverOnCommand == ~paused \/ cancelRequested                     \* mutant

\* The wait is over: resumed or cancelled, or every sender is gone, in which
\* case the run goes on although it is still paused.
WaitIsOver == ~paused \/ cancelRequested \/ (control = <<>> /\ ~controlOpen)

EndWait ==
    /\ Waiting
    /\ WaitIsOver
    /\ \/ cancelRequested /\ phase' = "complete" /\ UNCHANGED pos
       \/ ~cancelRequested /\ Proceed(phase)
    /\ UNCHANGED <<wf, status, outputs, attempts, anyFailed, flags, channels, events>>

-----------------------------------------------------------------------------
(* A step *)

\* statuses.insert and emit_step_finished, with the events sent around it.
Settle(st, o, n, before, after) ==
    /\ status' = [status EXCEPT ![Step] = st]
    /\ anyFailed' = (anyFailed \/ st = "Failed")
    /\ Emit(before \o <<StepFinished(Step, st, o, n)>> \o after)

\* The `continue` paths: no StepStarted, no output recorded, no second drain.
\* A StepFinished nobody receives aborts the run.
SettleUnstarted(st) ==
    /\ Settle(st, "null", 0, <<>>, <<>>)
    /\ IF eventsOpen THEN NextIteration ELSE phase' = "aborted" /\ UNCHANGED pos
    /\ UNCHANGED <<wf, outputs, attempts, flags, channels>>

BlockedByFailure(s) == \E d \in wf.deps[s] : status[d] = "Failed"     \* mutant

\* dependency_block.
Blocked(s) == \E d \in wf.deps[s] : status[d] # "Succeeded"

Unresolved(s) ==
    \/ \E r \in wf.wholes[s] : outputs[r] = "absent"
    \/ \E r \in wf.fields[s] : outputs[r] # "value"

SkipBlocked ==
    /\ phase = "prepare"
    /\ Blocked(Step)
    /\ SettleUnstarted("Skipped")

SkipByCondition ==
    /\ phase = "prepare"
    /\ ~Blocked(Step)
    /\ Step \in wf.conditional
    /\ SettleUnstarted("Skipped")

FailUnresolved ==
    /\ phase = "prepare"
    /\ ~Blocked(Step)
    /\ Unresolved(Step)
    /\ SettleUnstarted("Failed")

StartStep ==
    /\ phase = "prepare"
    /\ ~Blocked(Step)
    /\ ~Unresolved(Step)
    /\ Emit(<<StepStarted(pos - 1, Step)>>)
    /\ attempts' = 0
    /\ phase' = "execute"
    /\ UNCHANGED <<wf, pos, status, outputs, anyFailed, flags, channels>>

\* run_step_with: the command succeeds with some output or fails without one.
CommandResults ==
    [status : {"Succeeded"}, output : {"null", "value"}] \cup
    {[status |-> "Failed", output |-> "null"]}

\* A repeated step evaluates its `if` again, over a context in which its own
\* earlier output now stands.
AttemptResults(s) ==
    CommandResults \cup
    (IF s \in wf.conditional /\ attempts > 0
     THEN {[status |-> "Skipped", output |-> "null"]} ELSE {})

AttemptLimit(s) ==
    IF wf.limit[s] < 1 THEN 1
    ELSE IF wf.limit[s] > MaxRepeatAttempts THEN MaxRepeatAttempts
    ELSE wf.limit[s]

AttemptsLeftOffByOne == attempts < AttemptLimit(Step)             \* mutant
AttemptsLeft == attempts + 1 < AttemptLimit(Step)

\* The end of an executed step: r is what its last attempt returned, st its outcome.
SettleExecuted(r, st, n, announced) ==
    /\ outputs' = [outputs EXCEPT ![Step] = r.output]
    /\ Settle(st, r.output, n, announced,
              IF st = "Succeeded" THEN <<RunOutputAccumulated(Step, r.output)>> ELSE <<>>)
    /\ attempts' = n
    /\ phase' = IF eventsOpen THEN "after" ELSE "aborted"
    /\ UNCHANGED <<wf, pos, flags, channels>>

RunStep ==
    /\ phase = "execute"
    /\ Step \notin wf.repeats
    /\ \E r \in CommandResults : SettleExecuted(r, r.status, 1, <<>>)

\* An attempt that neither fails nor meets `until`, with attempts to spare.
RepeatAgain ==
    /\ phase = "execute"
    /\ Step \in wf.repeats
    /\ AttemptsLeft
    /\ \E r \in AttemptResults(Step) :
           /\ r.status # "Failed"
           /\ outputs' = [outputs EXCEPT ![Step] = r.output]
    /\ attempts' = attempts + 1
    /\ Emit(<<StepAttempt(Step, attempts + 1)>>)
    /\ UNCHANGED <<wf, phase, pos, status, anyFailed, flags, channels>>

\* A terminal attempt: it failed, `until` is unresolved or holds, or it was
\* the last one allowed and the guard trips.
RepeatEnd ==
    /\ phase = "execute"
    /\ Step \in wf.repeats
    /\ \E r \in AttemptResults(Step), until \in {"holds", "unresolved", "fails"} :
           /\ until = "fails" /\ r.status # "Failed" => ~AttemptsLeft
           /\ SettleExecuted(r, IF until = "holds" THEN r.status ELSE "Failed",
                             attempts + 1, <<StepAttempt(Step, attempts + 1)>>)

CompletedStatusSwapped ==                                         \* mutant
    IF anyFailed THEN "Failed" ELSE IF cancelRequested THEN "Canceled" ELSE "Succeeded"
CompletedStatus ==
    IF cancelRequested THEN "Canceled" ELSE IF anyFailed THEN "Failed" ELSE "Succeeded"

Complete ==
    /\ phase = "complete"
    /\ Emit(<<RunCompleted(CompletedStatus)>>)
    /\ phase' = "ended"
    /\ UNCHANGED <<wf, local, flags, channels>>

RunTask ==
    \/ Begin \/ Drain \/ EndDrain \/ AwaitCommand \/ EndWait
    \/ SkipBlocked \/ SkipByCondition \/ FailUnresolved \/ StartStep
    \/ RunStep \/ RepeatAgain \/ RepeatEnd \/ Complete

-----------------------------------------------------------------------------
(* The caller: it sends commands, and may drop either end of the channels *)

SendCommand ==
    /\ controlOpen /\ ~Terminated
    /\ commandsSent < MaxCommands
    /\ \E c \in Commands : control' = Append(control, c)
    /\ commandsSent' = commandsSent + 1
    /\ UNCHANGED <<wf, phase, local, flags, controlOpen, events, eventsOpen>>

DropControl ==
    /\ controlOpen
    /\ controlOpen' = FALSE
    /\ UNCHANGED <<wf, phase, local, flags, control, commandsSent, events, eventsOpen>>

DropEvents ==
    /\ eventsOpen
    /\ eventsOpen' = FALSE
    /\ UNCHANGED <<wf, phase, local, flags, control, controlOpen, commandsSent, events>>

Next == RunTask \/ SendCommand \/ DropControl \/ DropEvents

\* The Tokio task keeps running, and a command it executes returns; nobody
\* promises that the caller sends or drops anything.
Spec == Init /\ [][Next]_vars /\ WF_vars(RunTask)

-----------------------------------------------------------------------------
(* What the run promises *)

InLoop == {"top", "waitTop", "prepare", "execute", "after", "waitAfter"}
Phases == InLoop \cup {"created", "complete", "ended", "aborted"}
Statuses == {"Running", "Paused", "CancelRequested", "Succeeded", "Failed", "Canceled"}
Event ==
    {RunStarted} \cup {RunStatusChanged(st) : st \in Statuses}
    \cup [type : {"StepStarted"}, index : Nat, step : Steps]
    \cup [type : {"StepAttempt"}, step : Steps, attempt : Nat]
    \cup [type : {"StepFinished"}, step : Steps, status : Outcomes, output : Outputs, attempts : Nat]
    \cup [type : {"RunOutputAccumulated"}, step : Steps, output : Outputs]
    \cup {RunCompleted(st) : st \in Statuses}

\* Every variable keeps to its type, and an unfinished run has a step at hand.
TypeOK ==
    /\ wf \in Workflows
    /\ phase \in Phases
    /\ pos \in Nat \ {0}
    /\ phase \in InLoop => pos \in DOMAIN wf.order
    /\ status \in [Steps -> Outcomes \cup {"pending"}]
    /\ outputs \in [Steps -> Outputs]
    /\ attempts \in Nat
    /\ anyFailed \in BOOLEAN /\ paused \in BOOLEAN /\ cancelRequested \in BOOLEAN
    /\ controlOpen \in BOOLEAN /\ eventsOpen \in BOOLEAN
    /\ control \in Seq(Commands)
    /\ events \in Seq(Event)
    /\ commandsSent \in 0 .. MaxCommands

IsFinish(e, s) == e.type = "StepFinished" /\ e.step = s

\* A step starts only after each step it depends on has been reported Succeeded
\* in this run (PreparedStep.depends_on: "must complete successfully before").
DependenciesHonoured ==
    \A i \in DOMAIN events : events[i].type = "StepStarted" =>
        \A d \in wf.deps[events[i].step] : \E j \in 1 .. (i - 1) :
            IsFinish(events[j], d) /\ events[j].status = "Succeeded"

\* Once CancelRequested is announced the only thing left to announce is
\* RunCompleted(Canceled): no step starts, finishes, pauses or resumes.
CancelIsFinal ==
    \A i, j \in DOMAIN events :
        i < j /\ events[i] = RunStatusChanged("CancelRequested") =>
            events[j] = RunCompleted("Canceled")

\* RunCompleted is the last event and tells the truth about the stream before
\* it: Canceled iff a cancel was announced; otherwise every planned step was
\* settled, and Failed iff the plan was refused or some step failed.
CompletionIsTruthful ==
    \A i \in DOMAIN events : events[i].type = "RunCompleted" =>
        LET before == {events[j] : j \in 1 .. (i - 1)}
            canceled == RunStatusChanged("CancelRequested") \in before
            failed == ~wf.planned \/ \E e \in before : e.type = "StepFinished" /\ e.status = "Failed"
        IN  /\ i = Len(events)
            /\ events[i].status = (IF canceled THEN "Canceled" ELSE IF failed THEN "Failed" ELSE "Succeeded")
            /\ wf.planned /\ ~canceled =>
                   \A s \in Planned : \E e \in before : IsFinish(e, s)

\* StepFinished counts the attempts that were announced, and the repeat guard
\* never lets a step make more than its limit.
AttemptsAccounted ==
    \A i \in DOMAIN events : events[i].type = "StepFinished" /\ events[i].step \in wf.repeats =>
        LET s == events[i].step IN
        /\ events[i].attempts = Cardinality({j \in 1 .. (i - 1) : events[j].type = "StepAttempt" /\ events[j].step = s})
        /\ events[i].attempts <= AttemptLimit(s)

LastStatus ==
    LET changes == {i \in DOMAIN events : events[i].type = "RunStatusChanged"} IN
    events[CHOOSE i \in changes : \A j \in changes : j <= i].status

\* While somebody can still resume the run, no step starts after Paused has been
\* announced (WorkflowRunStatus::Paused: "no new steps will start").
PauseHoldsWhileControlled ==
    [][phase' = "execute" /\ phase # "execute" /\ LastStatus = "Paused" => ~controlOpen]_vars

\* A cancel sent while a step executes lets no other step start.
CancelStopsAtTheStep ==
    \A s \in Steps :
        []( phase = "execute" /\ Step = s /\ "Cancel" \in Range(control)
            => [](phase = "execute" => Step = s) )

\* A cancel that was sent ends the run, even one that is paused; and a caller
\* that goes away never strands it, paused or not.
EndIsReached == ("Cancel" \in Range(control) \/ ~controlOpen) ~> Terminated

=============================================================================

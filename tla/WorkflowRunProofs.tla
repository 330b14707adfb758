------------------------- MODULE WorkflowRunProofs -------------------------
(***************************************************************************)
(* Theorems about WorkflowRun, for every workflow and every caller, among  *)
(* them that it implements RunLifecycle: its initial states are initial    *)
(* states of the lifecycle, and each of its steps is a step of the         *)
(* lifecycle or invisible to it.  Then theorems about WorkflowRerun, for   *)
(* every workflow and any number of reruns, and that the planner accepts   *)
(* reruns.                                                                 *)
(***************************************************************************)
EXTENDS WorkflowRunRefinement, WorkflowRerun, SequenceTheorems, FiniteSetTheorems,
        WellFoundedInduction, TLAPS

(* The events the run task sends are events, and sending them keeps the    *)
(* stream a sequence of events.                                            *)
LEMMA EventKinds ==
    /\ RunStarted \in Event
    /\ \A st \in Statuses : RunStatusChanged(st) \in Event /\ RunCompleted(st) \in Event
    /\ \A i \in Nat, s \in Steps : StepStarted(i, s) \in Event
    /\ \A s \in Steps, n \in Nat : StepAttempt(s, n) \in Event
    /\ \A s \in Steps, st \in Outcomes, o \in Outputs, n \in Nat : StepFinished(s, st, o, n) \in Event
    /\ \A s \in Steps, o \in Outputs : RunOutputAccumulated(s, o) \in Event
<1>1. RunStarted \in Event
  BY DEF Event
<1>2. \A st \in Statuses : RunStatusChanged(st) \in Event /\ RunCompleted(st) \in Event
  BY DEF Event
<1>3. \A i \in Nat, s \in Steps : StepStarted(i, s) \in Event
  BY DEF Event, StepStarted
<1>4. \A s \in Steps, n \in Nat : StepAttempt(s, n) \in Event
  BY DEF Event, StepAttempt
<1>5. \A s \in Steps, st \in Outcomes, o \in Outputs, n \in Nat : StepFinished(s, st, o, n) \in Event
  BY DEF Event, StepFinished
<1>6. \A s \in Steps, o \in Outputs : RunOutputAccumulated(s, o) \in Event
  BY DEF Event, RunOutputAccumulated
<1> QED BY <1>1, <1>2, <1>3, <1>4, <1>5, <1>6

\* Sending events keeps the stream a sequence of events.
LEMMA EmitKeepsType ==
    ASSUME events \in Seq(Event), NEW es \in Seq(Event), Emit(es)
    PROVE  events' \in Seq(Event)
BY ConcatProperties DEF Emit

(* What is planned is a step, and so is the step at hand.                  *)
LEMMA StepIsAStep ==
    ASSUME TypeOK, pos \in DOMAIN wf.order
    PROVE  Step \in Steps
BY RunAssumption, ElementOfSeq DEF TypeOK, Step, Workflow

\* The `for` loop moves on within the plan, or ends at its last step.
LEMMA NextIterationKeepsType ==
    ASSUME TypeOK, pos \in DOMAIN wf.order, NextIteration
    PROVE  /\ pos' \in Nat \ {0} /\ pos' \in DOMAIN wf.order
           /\ phase' \in {"top", "complete"}
<1>1. wf.order \in Seq(Steps)
  BY RunAssumption DEF TypeOK, Workflow
<1>2. DOMAIN wf.order = 1 .. Len(wf.order)
  BY <1>1
<1> QED BY <1>1, <1>2 DEF NextIteration, LastStep, TypeOK

\* So does whatever follows a drain or a wait.
LEMMA ProceedKeepsType ==
    ASSUME TypeOK, phase \in InLoop, NEW from \in Phases, Proceed(from)
    PROVE  /\ pos' \in Nat \ {0} /\ pos' \in DOMAIN wf.order
           /\ phase' \in {"top", "prepare", "complete"}
BY NextIterationKeepsType DEF Proceed, TypeOK

\* Recording and reporting an outcome keeps to the types.
LEMMA SettleKeepsType ==
    ASSUME TypeOK, pos \in DOMAIN wf.order,
           NEW st \in Outcomes, NEW o \in Outputs, NEW n \in Nat,
           NEW before \in Seq(Event), NEW after \in Seq(Event),
           Settle(st, o, n, before, after)
    PROVE  /\ status' \in [Steps -> Outcomes \cup {"pending"}]
           /\ anyFailed' \in BOOLEAN
           /\ events' \in Seq(Event)
<1>1. Step \in Steps
  BY StepIsAStep
<1>2. status' \in [Steps -> Outcomes \cup {"pending"}]
  BY DEF Settle, TypeOK
<1>3. anyFailed' \in BOOLEAN
  BY DEF Settle, TypeOK
<1>4. <<StepFinished(Step, st, o, n)>> \in Seq(Event)
  BY <1>1, EventKinds
<1>5. before \o <<StepFinished(Step, st, o, n)>> \o after \in Seq(Event)
  BY <1>4, ConcatProperties
<1>6. events' \in Seq(Event)
  BY <1>5, EmitKeepsType DEF Settle, TypeOK
<1> QED BY <1>2, <1>3, <1>6

\* A control command, accepted or ignored, keeps every variable to its type.
LEMMA ProcessCommandKeepsType ==
    ASSUME TypeOK, ProcessCommand
    PROVE  TypeOK' /\ phase' \in {phase, "aborted"} /\ pos' = pos
<1>1. Head(control) \in Commands /\ control' \in Seq(Commands)
  BY HeadTailProperties DEF ProcessCommand, TypeOK
<1>2. StatusOf(Head(control)) \in Statuses
  BY <1>1 DEF StatusOf, Commands, Statuses
<1>3. events' \in Seq(Event)
  <2>1. CASE UNCHANGED events
    BY <2>1 DEF TypeOK
  <2>2. CASE Emit(<<RunStatusChanged(StatusOf(Head(control)))>>)
    <3>1. <<RunStatusChanged(StatusOf(Head(control)))>> \in Seq(Event)
      BY <1>2, EventKinds
    <3> QED BY <2>2, <3>1, EmitKeepsType DEF TypeOK
  <2> QED BY <2>1, <2>2 DEF ProcessCommand
<1>4. paused' \in BOOLEAN /\ cancelRequested' \in BOOLEAN
  BY DEF ProcessCommand, TypeOK, flags
<1>5. phase' \in {phase, "aborted"}
  BY DEF ProcessCommand
<1>6. UNCHANGED <<wf, local, controlOpen, eventsOpen, commandsSent>>
  BY DEF ProcessCommand
<1>7. "aborted" \in Phases /\ "aborted" \notin InLoop
  BY DEF Phases, InLoop
<1> QED BY <1>1, <1>3, <1>4, <1>5, <1>6, <1>7 DEF TypeOK, local

\* So does a step that is skipped or failed without being executed.
LEMMA SettleUnstartedKeepsType ==
    ASSUME TypeOK, phase = "prepare", NEW st \in Outcomes, SettleUnstarted(st)
    PROVE  TypeOK' /\ phase' # "created"
<1>1. pos \in DOMAIN wf.order
  BY DEF TypeOK, InLoop
<1>2. <<>> \in Seq(Event) /\ "null" \in Outputs
  BY EmptySeq DEF Outputs
<1>3. /\ status' \in [Steps -> Outcomes \cup {"pending"}]
      /\ anyFailed' \in BOOLEAN
      /\ events' \in Seq(Event)
  BY <1>1, <1>2, SettleKeepsType DEF SettleUnstarted
<1>4. /\ pos' \in Nat \ {0} /\ pos' \in DOMAIN wf.order
      /\ phase' \in {"top", "complete", "aborted"}
  BY <1>1, NextIterationKeepsType DEF SettleUnstarted, TypeOK
<1> QED BY <1>3, <1>4 DEF SettleUnstarted, TypeOK, InLoop, Phases, flags, channels

\* So does the end of an executed step.
LEMMA SettleExecutedKeepsType ==
    ASSUME TypeOK, phase = "execute", NEW r \in [status : Outcomes, output : Outputs],
           NEW st \in Outcomes, NEW n \in Nat, NEW announced \in Seq(Event),
           SettleExecuted(r, st, n, announced)
    PROVE  TypeOK' /\ phase' # "created"
<1>1. pos \in DOMAIN wf.order
  BY DEF TypeOK, InLoop
<1>2. Step \in Steps
  BY <1>1, StepIsAStep
<1> DEFINE after == IF st = "Succeeded" THEN <<RunOutputAccumulated(Step, r.output)>> ELSE <<>>
<1>3. after \in Seq(Event)
  BY <1>2, EventKinds, EmptySeq
<1>4. /\ status' \in [Steps -> Outcomes \cup {"pending"}]
      /\ anyFailed' \in BOOLEAN
      /\ events' \in Seq(Event)
  <2>1. Settle(st, r.output, n, announced, after)
    BY DEF SettleExecuted
  <2> HIDE DEF after
  <2> QED BY <1>1, <1>3, <2>1, SettleKeepsType
<1>5. outputs' \in [Steps -> Outputs]
  BY <1>2 DEF SettleExecuted, TypeOK
<1>6. phase' \in {"after", "aborted"} /\ attempts' = n /\ UNCHANGED <<wf, pos, flags, channels>>
  BY DEF SettleExecuted
<1> QED BY <1>1, <1>4, <1>5, <1>6 DEF TypeOK, InLoop, Phases, flags, channels

(* A run that has not begun stands before its first step.                  *)
TypeInv == TypeOK /\ (phase = "created" => pos = 1)

\* A run that has just been asked for keeps to its types.
LEMMA CreatedTypes == wf \in Workflows /\ Created /\ commandsSent \in 0 .. MaxCommands => TypeInv
<1> SUFFICES ASSUME wf \in Workflows, Created, commandsSent \in 0 .. MaxCommands PROVE TypeInv
  OBVIOUS
<1>1. wf \in Workflow
  BY RunAssumption DEF Created
<1>2. status \in [Steps -> Outcomes \cup {"pending"}] /\ outputs \in [Steps -> Outputs]
  BY <1>1 DEF Created, Workflow
<1>3. phase \in Phases /\ phase \notin InLoop
  BY DEF Created, Phases, InLoop
<1>4. control \in Seq(Commands) /\ events \in Seq(Event) /\ commandsSent \in 0 .. MaxCommands
  BY RunAssumption, EmptySeq DEF Created
<1>5. TypeOK
  <2>1. /\ anyFailed \in BOOLEAN /\ paused \in BOOLEAN /\ cancelRequested \in BOOLEAN
        /\ controlOpen \in BOOLEAN /\ eventsOpen \in BOOLEAN
    BY DEF Created
  <2>2. wf \in Workflows /\ pos \in Nat \ {0} /\ attempts \in Nat
    BY DEF Created
  <2> QED BY <1>2, <1>3, <1>4, <2>1, <2>2 DEF TypeOK
<1> QED BY <1>5 DEF Created, TypeInv

\* TypeOK is inductive once it says where a run that has not begun stands.
LEMMA TypeStep == TypeInv /\ [Next]_vars => TypeInv'
<1> SUFFICES ASSUME TypeInv, [Next]_vars PROVE TypeOK' /\ (phase' = "created" => pos' = 1)
  BY DEF TypeInv
<1> USE DEF TypeInv
<1>0. wf \in Workflow /\ wf.order \in Seq(Steps) /\ DOMAIN wf.order = 1 .. Len(wf.order)
  BY RunAssumption DEF TypeOK, Workflow
<1>1. CASE Begin
  <2>1. /\ RunStarted \in Event /\ RunStatusChanged("Failed") \in Event
        /\ RunCompleted("Failed") \in Event /\ RunStatusChanged("Running") \in Event
    BY EventKinds DEF Statuses
  <2>2. /\ <<RunStarted, RunStatusChanged("Failed"), RunCompleted("Failed")>> \in Seq(Event)
        /\ <<RunStarted, RunStatusChanged("Running")>> \in Seq(Event)
    BY <2>1
  <2>3. events' \in Seq(Event)
    BY <1>1, <2>2, EmitKeepsType DEF Begin, TypeOK
  <2>4. phase' \in Phases /\ (phase' \in InLoop => pos \in DOMAIN wf.order)
    <3>1. \/ phase' = "ended"
          \/ phase' = IF wf.order = <<>> THEN "complete" ELSE "top"
      BY <1>1 DEF Begin
    <3>2. pos = 1
      BY <1>1 DEF Begin
    <3> QED BY <1>0, <3>1, <3>2 DEF Phases, InLoop
  <2> QED BY <1>1, <2>3, <2>4 DEF Begin, TypeOK, local, flags, channels
<1>2. CASE Drain
  BY <1>2, ProcessCommandKeepsType DEF Drain
<1>3. CASE AwaitCommand
  BY <1>3, ProcessCommandKeepsType DEF AwaitCommand
<1>4. CASE EndDrain
  <2>1. /\ pos' \in Nat \ {0} /\ pos' \in DOMAIN wf.order
        /\ phase' \in {"top", "prepare", "complete", "waitTop", "waitAfter"}
    BY <1>4, ProceedKeepsType DEF EndDrain, TypeOK, InLoop
  <2> QED BY <1>4, <2>1 DEF EndDrain, TypeOK, flags, channels, InLoop, Phases
<1>5. CASE EndWait
  <2>1. /\ pos' \in Nat \ {0} /\ pos' \in DOMAIN wf.order
        /\ phase' \in {"top", "prepare", "complete"}
    BY <1>5, ProceedKeepsType DEF EndWait, Waiting, TypeOK, InLoop
  <2> QED BY <1>5, <2>1 DEF EndWait, TypeOK, flags, channels, InLoop, Phases
<1>6. CASE SkipBlocked \/ SkipByCondition \/ FailUnresolved
  BY <1>6, SettleUnstartedKeepsType DEF SkipBlocked, SkipByCondition, FailUnresolved, Outcomes
<1>7. CASE StartStep
  <2>1. pos \in DOMAIN wf.order
    BY <1>7 DEF StartStep, TypeOK, InLoop
  <2>2. StepStarted(pos - 1, Step) \in Event
    BY <2>1, StepIsAStep, EventKinds DEF TypeOK
  <2>3. events' \in Seq(Event)
    <3>1. <<StepStarted(pos - 1, Step)>> \in Seq(Event)
      BY <2>2
    <3> QED BY <1>7, <3>1, EmitKeepsType DEF StartStep, TypeOK
  <2> QED BY <1>7, <2>1, <2>3 DEF StartStep, TypeOK, flags, channels, InLoop, Phases
<1>8. CASE RunStep
  <2>1. PICK r \in CommandResults : SettleExecuted(r, r.status, 1, <<>>)
    BY <1>8 DEF RunStep
  <2>2. r \in [status : Outcomes, output : Outputs] /\ r.status \in Outcomes
    BY DEF CommandResults, Outcomes, Outputs
  <2> QED BY <1>8, <2>1, <2>2, EmptySeq, SettleExecutedKeepsType DEF RunStep
<1>9. CASE RepeatAgain
  <2>1. pos \in DOMAIN wf.order /\ attempts + 1 \in Nat
    BY <1>9 DEF RepeatAgain, TypeOK, InLoop
  <2>2. StepAttempt(Step, attempts + 1) \in Event
    BY <2>1, StepIsAStep, EventKinds
  <2>3. events' \in Seq(Event)
    <3>1. <<StepAttempt(Step, attempts + 1)>> \in Seq(Event)
      BY <2>2
    <3> QED BY <1>9, <3>1, EmitKeepsType DEF RepeatAgain, TypeOK
  <2>4. outputs' \in [Steps -> Outputs]
    <3>1. PICK r \in AttemptResults(Step) : outputs' = [outputs EXCEPT ![Step] = r.output]
      BY <1>9 DEF RepeatAgain
    <3>2. r.output \in Outputs
      BY DEF AttemptResults, CommandResults, Outputs
    <3> QED BY <3>1, <3>2 DEF TypeOK
  <2> QED BY <1>9, <2>1, <2>3, <2>4 DEF RepeatAgain, TypeOK, flags, channels, InLoop, Phases
<1>10. CASE RepeatEnd
  <2>1. pos \in DOMAIN wf.order /\ attempts + 1 \in Nat
    BY <1>10 DEF RepeatEnd, TypeOK, InLoop
  <2>2. <<StepAttempt(Step, attempts + 1)>> \in Seq(Event)
    BY <2>1, StepIsAStep, EventKinds
  <2>3. PICK r \in AttemptResults(Step), until \in {"holds", "unresolved", "fails"} :
          SettleExecuted(r, IF until = "holds" THEN r.status ELSE "Failed",
                         attempts + 1, <<StepAttempt(Step, attempts + 1)>>)
    BY <1>10 DEF RepeatEnd
  <2>4. r \in [status : Outcomes, output : Outputs] /\ r.status \in Outcomes
    BY DEF AttemptResults, CommandResults, Outcomes, Outputs
  <2>5. (IF until = "holds" THEN r.status ELSE "Failed") \in Outcomes
    BY <2>4 DEF Outcomes
  <2> QED BY <1>10, <2>1, <2>2, <2>3, <2>4, <2>5, SettleExecutedKeepsType DEF RepeatEnd
<1>11. CASE Complete
  <2>1. RunCompleted(CompletedStatus) \in Event
    BY EventKinds DEF CompletedStatus, Statuses
  <2>2. events' \in Seq(Event)
    <3>1. <<RunCompleted(CompletedStatus)>> \in Seq(Event)
      BY <2>1
    <3> QED BY <1>11, <3>1, EmitKeepsType DEF Complete, TypeOK
  <2> QED BY <1>11, <2>2 DEF Complete, TypeOK, local, flags, channels, InLoop, Phases
<1>12. CASE SendCommand
  <2>1. control' \in Seq(Commands)
    BY <1>12, AppendProperties DEF SendCommand, TypeOK
  <2>2. commandsSent' \in 0 .. MaxCommands
    BY <1>12, RunAssumption DEF SendCommand, TypeOK
  <2> QED BY <1>12, <2>1, <2>2 DEF SendCommand, TypeOK, local, flags
<1>13. CASE DropControl \/ DropEvents
  BY <1>13 DEF DropControl, DropEvents, TypeOK, local, flags
<1>14. CASE UNCHANGED vars
  BY <1>14 DEF vars, TypeOK, local, flags, channels
<1> QED BY <1>1, <1>2, <1>3, <1>4, <1>5, <1>6, <1>7, <1>8, <1>9, <1>10, <1>11,
           <1>12, <1>13, <1>14 DEF Next, RunTask

\* A run keeps to its types and begins before its first step.
THEOREM TypeInvariant == Spec => []TypeInv
<1>1. Init => TypeInv
  BY CreatedTypes, RunAssumption DEF Init
<1> QED BY <1>1, TypeStep, PTL DEF Spec

(* Every variable of a run keeps to its type.                              *)
THEOREM TypeCorrect == Spec => []TypeOK
<1>1. TypeInv => TypeOK
  BY DEF TypeInv
<1> QED BY <1>1, TypeInvariant, PTL

-----------------------------------------------------------------------------
(* Cancellation *)

CancelAnnounced == RunStatusChanged("CancelRequested")

\* Sending appends: what was said stays, and what is new is what was sent.
LEMMA EmitAppends ==
    ASSUME events \in Seq(Event), NEW es \in Seq(Event), Emit(es)
    PROVE  /\ DOMAIN events \subseteq DOMAIN events'
           /\ \A i \in DOMAIN events : events'[i] = events[i]
           /\ \A i \in DOMAIN events' : i \notin DOMAIN events =>
                  eventsOpen /\ \E k \in DOMAIN es : i = Len(events) + k /\ events'[i] = es[k]
           /\ eventsOpen => \A k \in DOMAIN es :
                  Len(events) + k \in DOMAIN events' /\ events'[Len(events) + k] = es[k]
           /\ DOMAIN events = 1 .. Len(events) /\ DOMAIN events' = 1 .. Len(events')
<1>1. CASE eventsOpen
  <2>1. events' = events \o es
    BY <1>1 DEF Emit
  <2>2. /\ Len(events) \in Nat /\ Len(es) \in Nat /\ Len(events') = Len(events) + Len(es)
        /\ DOMAIN events = 1 .. Len(events) /\ DOMAIN es = 1 .. Len(es)
        /\ DOMAIN events' = 1 .. Len(events')
    BY <2>1, ConcatProperties, LenProperties
  <2>3. \A i \in 1 .. Len(events) + Len(es) :
            events'[i] = IF i <= Len(events) THEN events[i] ELSE es[i - Len(events)]
    BY <2>1, ConcatProperties
  <2>4. \A i \in DOMAIN events' : i \notin DOMAIN events =>
            \E k \in DOMAIN es : i = Len(events) + k /\ events'[i] = es[k]
    <3> SUFFICES ASSUME NEW i \in DOMAIN events', i \notin DOMAIN events
                 PROVE  /\ i - Len(events) \in DOMAIN es
                        /\ i = Len(events) + (i - Len(events))
                        /\ events'[i] = es[i - Len(events)]
      OBVIOUS
    <3> QED BY <2>2, <2>3
  <2>5. \A k \in DOMAIN es : Len(events) + k \in DOMAIN events' /\ events'[Len(events) + k] = es[k]
    <3> SUFFICES ASSUME NEW k \in DOMAIN es
                 PROVE  Len(events) + k \in DOMAIN events' /\ events'[Len(events) + k] = es[k]
      OBVIOUS
    <3>1. (Len(events) + k) - Len(events) = k /\ ~(Len(events) + k <= Len(events))
      BY <2>2
    <3> QED BY <3>1, <2>2, <2>3
  <2> QED BY <1>1, <2>2, <2>3, <2>4, <2>5
<1>2. CASE ~eventsOpen
  BY <1>2, LenProperties DEF Emit
<1> QED BY <1>1, <1>2

\* A cancel that was accepted leaves the run neither paused nor about to run
\* a step, and nothing but RunCompleted(Canceled) follows its announcement.
CancelInv ==
    /\ cancelRequested => ~paused /\ phase \notin {"created", "prepare", "execute"}
    /\ \A i \in DOMAIN events : events[i] = CancelAnnounced => cancelRequested
    /\ CancelIsFinal

\* Without a cancel so far, other events announce none.
LEMMA OtherEventsKeepCancelInv ==
    ASSUME TypeOK, CancelInv, ~cancelRequested, ~cancelRequested',
           NEW es \in Seq(Event), Emit(es),
           \A k \in DOMAIN es : es[k] # CancelAnnounced
    PROVE  CancelInv'
<1>1. events \in Seq(Event)
  BY DEF TypeOK
<1>2. \A i \in DOMAIN events' : events'[i] # CancelAnnounced
  BY <1>1, EmitAppends DEF CancelInv
<1> QED BY <1>2 DEF CancelInv, CancelIsFinal, CancelAnnounced

\* A step that says nothing and leaves the flags alone keeps CancelInv.
LEMMA SilenceKeepsCancelInv ==
    ASSUME CancelInv, UNCHANGED <<cancelRequested, events>>,
           cancelRequested => ~paused' /\ phase' \notin {"created", "prepare", "execute"}
    PROVE  CancelInv'
BY DEF CancelInv, CancelIsFinal

\* The one place where a cancel is announced, and nothing but RunCompleted follows.
LEMMA ProcessCommandKeepsCancelInv ==
    ASSUME TypeOK, CancelInv, ProcessCommand, phase \notin {"created", "prepare", "execute"}
    PROVE  CancelInv'
<1> DEFINE c == Head(control)
<1>0. c \in Commands /\ events \in Seq(Event)
  BY HeadTailProperties DEF ProcessCommand, TypeOK
<1>1. phase' \notin {"created", "prepare", "execute"}
  BY DEF ProcessCommand
<1>2. CASE ~Accepts(c)
  <2>1. UNCHANGED <<flags, events>>
    BY <1>2 DEF ProcessCommand
  <2> QED BY <2>1, <1>1, SilenceKeepsCancelInv DEF flags, CancelInv
<1>3. CASE Accepts(c)
  <2>1. ~cancelRequested
    BY <1>3 DEF Accepts, CancelInv
  <2>2. StatusOf(c) \in Statuses
    BY <1>0 DEF StatusOf, Commands, Statuses
  <2>3. <<RunStatusChanged(StatusOf(c))>> \in Seq(Event)
    BY <2>2, EventKinds
  <2>4. /\ paused' = (c = "Pause")
        /\ cancelRequested' = (c = "Cancel")
        /\ Emit(<<RunStatusChanged(StatusOf(c))>>)
    BY <1>3, <2>1 DEF ProcessCommand
  <2>5. CASE c = "Cancel"
    <3>1. cancelRequested' /\ ~paused'
      BY <2>4, <2>5
    <3>2. \A i \in DOMAIN events : events[i] # CancelAnnounced
      BY <2>1 DEF CancelInv
    <3>3. \A i \in DOMAIN events' : events'[i] = CancelAnnounced => i = Len(events')
      <4> DEFINE es == <<RunStatusChanged(StatusOf(c))>>
      <4>1. es \in Seq(Event) /\ Emit(es) /\ DOMAIN es = {1}
        BY <2>3, <2>4
      <4> HIDE DEF es
      <4>2. \A i \in DOMAIN events' : i \notin DOMAIN events => i = Len(events) + 1
        BY <1>0, <4>1, EmitAppends
      <4>3. /\ \A i \in DOMAIN events : i \in DOMAIN events' /\ events'[i] = events[i]
            /\ DOMAIN events = 1 .. Len(events) /\ DOMAIN events' = 1 .. Len(events')
        BY <1>0, <4>1, EmitAppends
      <4>4. Len(events) \in Nat /\ Len(events') \in Nat
        BY <1>0, <4>1, EmitKeepsType, LenProperties
      <4> SUFFICES ASSUME NEW i \in DOMAIN events', events'[i] = CancelAnnounced
                   PROVE  i = Len(events')
        OBVIOUS
      <4>5. i = Len(events) + 1
        BY <3>2, <4>2, <4>3
      <4>6. Len(events') \in DOMAIN events' /\ Len(events') >= Len(events) + 1
        BY <4>3, <4>4, <4>5
      <4>7. Len(events') \notin DOMAIN events
        BY <4>3, <4>4, <4>6
      <4> QED BY <4>2, <4>5, <4>6, <4>7
    <3>4. CancelIsFinal'
      <4>1. \A j \in DOMAIN events' : j <= Len(events')
        BY <1>0, <2>3, <2>4, EmitAppends
      <4>2. DOMAIN events' \subseteq Int /\ Len(events') \in Nat
        BY <1>0, <2>3, <2>4, EmitAppends, EmitKeepsType, LenProperties
      <4> QED BY <3>3, <4>1, <4>2 DEF CancelIsFinal, CancelAnnounced
    <3> QED BY <1>1, <3>1, <3>4 DEF CancelInv
  <2>6. CASE c # "Cancel"
    <3>1. ~cancelRequested'
      BY <2>4, <2>6
    <3>2. StatusOf(c) # "CancelRequested"
      BY <1>0, <2>6 DEF StatusOf, Commands
    <3>3. RunStatusChanged(StatusOf(c)) # CancelAnnounced
      BY <3>2 DEF CancelAnnounced, RunStatusChanged
    <3>4. \A k \in DOMAIN <<RunStatusChanged(StatusOf(c))>> :
              <<RunStatusChanged(StatusOf(c))>>[k] # CancelAnnounced
      BY <3>3
    <3> QED BY <2>1, <2>3, <2>4, <3>1, <3>4, OtherEventsKeepCancelInv
  <2> QED BY <2>5, <2>6
<1> QED BY <1>2, <1>3

\* The events around a StepFinished are no announcement of a cancel.
LEMMA SettleEvents ==
    ASSUME NEW e \in Event, NEW before \in Seq(Event), NEW after \in Seq(Event)
    PROVE  /\ before \o <<e>> \o after \in Seq(Event)
           /\ \A k \in DOMAIN (before \o <<e>> \o after) :
                  LET x == (before \o <<e>> \o after)[k] IN
                  x = e \/ x \in Range(before) \/ x \in Range(after)
<1>1. <<e>> \in Seq(Event) /\ before \o <<e>> \in Seq(Event) /\ before \o <<e>> \o after \in Seq(Event)
  BY ConcatProperties
<1>2. Range(<<e>>) = {e}
  BY DEF Range
<1>3. /\ Range(before \o <<e>>) = Range(before) \cup Range(<<e>>)
      /\ Range((before \o <<e>>) \o after) = Range(before \o <<e>>) \cup Range(after)
  <2> DEFINE s == <<e>>
             t == before \o <<e>>
  <2>1. s \in Seq(Event) /\ t \in Seq(Event)
    BY <1>1
  <2>2. Range(before \o s) = Range(before) \cup Range(s)
    <3> HIDE DEF s, t
    <3> QED BY <2>1, RangeConcatenation
  <2>3. Range(t \o after) = Range(t) \cup Range(after)
    <3> HIDE DEF s, t
    <3> QED BY <2>1, RangeConcatenation
  <2> QED BY <2>2, <2>3
<1>4. \A k \in DOMAIN (before \o <<e>> \o after) :
        (before \o <<e>> \o after)[k] \in Range(before \o <<e>> \o after)
  BY DEF Range
<1> QED BY <1>1, <1>2, <1>3, <1>4

\* Declining a step keeps CancelInv: it happens only while none is cancelled.
LEMMA SettleUnstartedKeepsCancelInv ==
    ASSUME TypeOK, CancelInv, phase = "prepare", NEW st \in Outcomes, SettleUnstarted(st)
    PROVE  CancelInv'
<1> DEFINE e == StepFinished(Step, st, "null", 0)
           es == <<>> \o <<e>> \o <<>>
<1>1. ~cancelRequested /\ ~cancelRequested'
  BY DEF CancelInv, SettleUnstarted, flags
<1>2. e \in Event
  BY StepIsAStep, EventKinds DEF TypeOK, InLoop, Outputs
<1>3. e # CancelAnnounced
  BY DEF CancelAnnounced, StepFinished, RunStatusChanged
<1>4. Emit(es)
  BY DEF SettleUnstarted, Settle
<1>5. es \in Seq(Event) /\ \A k \in DOMAIN es : es[k] # CancelAnnounced
  <2> HIDE DEF e
  <2> QED BY <1>2, <1>3, SettleEvents, EmptySeq DEF Range
<1> QED BY <1>1, <1>4, <1>5, OtherEventsKeepCancelInv

\* So does finishing one.
LEMMA SettleExecutedKeepsCancelInv ==
    ASSUME TypeOK, CancelInv, phase = "execute", NEW r \in [status : Outcomes, output : Outputs],
           NEW st \in Outcomes, NEW n \in Nat, NEW announced \in Seq(Event),
           SettleExecuted(r, st, n, announced), CancelAnnounced \notin Range(announced)
    PROVE  CancelInv'
<1> DEFINE e == StepFinished(Step, st, r.output, n)
           after == IF st = "Succeeded" THEN <<RunOutputAccumulated(Step, r.output)>> ELSE <<>>
           es == announced \o <<e>> \o after
<1>1. ~cancelRequested /\ ~cancelRequested'
  BY DEF CancelInv, SettleExecuted, flags
<1>2. Step \in Steps
  BY StepIsAStep DEF TypeOK, InLoop
<1>3. e \in Event /\ after \in Seq(Event)
  BY <1>2, EventKinds, EmptySeq
<1>4. e # CancelAnnounced
  BY DEF CancelAnnounced, StepFinished, RunStatusChanged
<1>5. CancelAnnounced \notin Range(after)
  BY DEF CancelAnnounced, RunOutputAccumulated, RunStatusChanged, Range
<1>6. Emit(es)
  BY DEF SettleExecuted, Settle
<1>7. es \in Seq(Event) /\ \A k \in DOMAIN es : es[k] # CancelAnnounced
  <2> HIDE DEF e, after
  <2> QED BY <1>3, <1>4, <1>5, SettleEvents
<1> QED BY <1>1, <1>6, <1>7, OtherEventsKeepCancelInv

(* Once a cancel is announced, only RunCompleted(Canceled) can follow: for  *)
(* every workflow and every sequence of commands.                          *)
THEOREM CancelSafety == Spec => []CancelIsFinal
<1>1. Init => CancelInv
  BY DEF Init, Created, CancelInv, CancelIsFinal
<1>2. TypeOK /\ CancelInv /\ [Next]_vars => CancelInv'
  <2> SUFFICES ASSUME TypeOK, CancelInv, [Next]_vars PROVE CancelInv'
    OBVIOUS
  <2>1. CASE Begin
    <3>1. ~cancelRequested /\ ~cancelRequested'
      BY <2>1 DEF Begin, CancelInv, flags
    <3>2. CASE UNCHANGED events
      BY <2>1, <3>1, <3>2, SilenceKeepsCancelInv DEF Begin, flags
    <3>3. ASSUME NEW es \in {<<RunStarted, RunStatusChanged("Failed"), RunCompleted("Failed")>>,
                             <<RunStarted, RunStatusChanged("Running")>>},
                 Emit(es)
          PROVE  CancelInv'
      <4>1. es \in Seq(Event)
        <5>1. /\ RunStarted \in Event /\ RunStatusChanged("Failed") \in Event
              /\ RunCompleted("Failed") \in Event /\ RunStatusChanged("Running") \in Event
          BY EventKinds DEF Statuses
        <5> QED BY <5>1
      <4>2. \A k \in DOMAIN es : es[k] # CancelAnnounced
        BY DEF CancelAnnounced, RunStarted, RunStatusChanged, RunCompleted
      <4> QED BY <3>1, <3>3, <4>1, <4>2, OtherEventsKeepCancelInv
    <3> QED BY <2>1, <3>2, <3>3 DEF Begin
  <2>2. CASE Drain \/ AwaitCommand
    BY <2>2, ProcessCommandKeepsCancelInv DEF Drain, AwaitCommand, Waiting
  <2>3. CASE EndDrain \/ EndWait
    <3>1. UNCHANGED <<cancelRequested, events, paused>>
      BY <2>3 DEF EndDrain, EndWait, flags
    <3>2. cancelRequested => phase' = "complete"
      BY <2>3 DEF EndDrain, EndWait
    <3> QED BY <3>1, <3>2, SilenceKeepsCancelInv DEF CancelInv
  <2>4. CASE SkipBlocked \/ SkipByCondition \/ FailUnresolved
    BY <2>4, SettleUnstartedKeepsCancelInv DEF SkipBlocked, SkipByCondition, FailUnresolved, Outcomes
  <2>5. CASE StartStep \/ RepeatAgain
    <3>1. ~cancelRequested /\ ~cancelRequested'
      BY <2>5 DEF StartStep, RepeatAgain, CancelInv, flags
    <3>2. PICK e \in {StepStarted(pos - 1, Step), StepAttempt(Step, attempts + 1)} : Emit(<<e>>)
      BY <2>5 DEF StartStep, RepeatAgain
    <3>3. e \in Event
      BY <2>5, StepIsAStep, EventKinds DEF StartStep, RepeatAgain, TypeOK, InLoop
    <3>4. e # CancelAnnounced
      BY DEF CancelAnnounced, StepStarted, StepAttempt, RunStatusChanged
    <3>5. <<e>> \in Seq(Event) /\ \A k \in DOMAIN <<e>> : <<e>>[k] # CancelAnnounced
      BY <3>3, <3>4
    <3> QED BY <3>1, <3>2, <3>5, OtherEventsKeepCancelInv
  <2>6. CASE RunStep
    <3>1. PICK r \in CommandResults : SettleExecuted(r, r.status, 1, <<>>)
      BY <2>6 DEF RunStep
    <3>2. r \in [status : Outcomes, output : Outputs] /\ r.status \in Outcomes
      BY DEF CommandResults, Outcomes, Outputs
    <3>3. <<>> \in Seq(Event) /\ CancelAnnounced \notin Range(<<>>)
      BY EmptySeq DEF Range
    <3> QED BY <2>6, <3>1, <3>2, <3>3, SettleExecutedKeepsCancelInv DEF RunStep
  <2>7. CASE RepeatEnd
    <3> DEFINE announced == <<StepAttempt(Step, attempts + 1)>>
    <3>1. PICK r \in AttemptResults(Step), until \in {"holds", "unresolved", "fails"} :
            SettleExecuted(r, IF until = "holds" THEN r.status ELSE "Failed", attempts + 1, announced)
      BY <2>7 DEF RepeatEnd
    <3>2. r \in [status : Outcomes, output : Outputs]
      BY DEF AttemptResults, CommandResults, Outcomes, Outputs
    <3>3. (IF until = "holds" THEN r.status ELSE "Failed") \in Outcomes
      BY <3>2 DEF Outcomes
    <3>4. attempts + 1 \in Nat /\ announced \in Seq(Event)
      BY <2>7, StepIsAStep, EventKinds DEF RepeatEnd, TypeOK, InLoop
    <3>5. CancelAnnounced \notin Range(announced)
      BY DEF CancelAnnounced, StepAttempt, RunStatusChanged, Range
    <3>6. phase = "execute"
      BY <2>7 DEF RepeatEnd
    <3> HIDE DEF announced
    <3> QED BY <3>1, <3>2, <3>3, <3>4, <3>5, <3>6, SettleExecutedKeepsCancelInv
  <2>8. CASE Complete
    <3> DEFINE e == RunCompleted(CompletedStatus)
    <3>1. e \in Event /\ events \in Seq(Event)
      BY EventKinds DEF CompletedStatus, Statuses, TypeOK
    <3>2. e # CancelAnnounced
      BY DEF CancelAnnounced, RunCompleted, RunStatusChanged
    <3>3. <<e>> \in Seq(Event) /\ DOMAIN <<e>> = {1} /\ <<e>>[1] = e
      BY <3>1
    <3>4. Emit(<<e>>) /\ phase' = "ended" /\ UNCHANGED flags
      BY <2>8 DEF Complete
    <3>5. CASE ~cancelRequested
      BY <3>2, <3>3, <3>4, <3>5, OtherEventsKeepCancelInv DEF flags
    <3>6. CASE cancelRequested
      <4>1. e = RunCompleted("Canceled")
        BY <3>6 DEF CompletedStatus
      <4>2. \A i \in DOMAIN events' : i \notin DOMAIN events => events'[i] = e
        BY <3>1, <3>3, <3>4, EmitAppends
      <4>3. \A i \in DOMAIN events : i \in DOMAIN events' /\ events'[i] = events[i]
        BY <3>1, <3>3, <3>4, EmitAppends
      <4>4. CancelIsFinal'
        BY <3>2, <4>1, <4>2, <4>3 DEF CancelInv, CancelIsFinal, CancelAnnounced
      <4> QED BY <3>4, <3>6, <4>4 DEF CancelInv, flags
    <3> QED BY <3>5, <3>6
  <2>9. CASE SendCommand \/ DropControl \/ DropEvents \/ UNCHANGED vars
    <3>1. UNCHANGED <<phase, flags, events>>
      BY <2>9 DEF SendCommand, DropControl, DropEvents, vars
    <3> QED BY <3>1, SilenceKeepsCancelInv DEF CancelInv, flags
  <2> QED BY <2>1, <2>2, <2>3, <2>4, <2>5, <2>6, <2>7, <2>8, <2>9 DEF Next, RunTask
<1>3. CancelInv => CancelIsFinal
  BY DEF CancelInv
<1> QED BY <1>1, <1>2, <1>3, TypeCorrect, PTL DEF Spec

-----------------------------------------------------------------------------
(* Dependencies *)

Reported(s) == \E j \in DOMAIN events : IsFinish(events[j], s) /\ events[j].status = "Succeeded"

\* A step that succeeded was reported, unless the report had no receiver; then
\* the run is aborted and starts nothing.
DependencyInv ==
    /\ phase # "aborted" => \A s \in Steps : status[s] = "Succeeded" => Reported(s)
    /\ DependenciesHonoured

\* Whatever is sent, what was reported succeeded stays reported.
LEMMA EmitKeepsReports ==
    ASSUME TypeOK, UNCHANGED wf, NEW es \in Seq(Event), Emit(es)
    PROVE  /\ \A s \in Steps : Reported(s) => Reported(s)'
           /\ DependenciesHonoured /\ (\A k \in DOMAIN es : es[k].type # "StepStarted")
                  => DependenciesHonoured'
<1>0. events \in Seq(Event) /\ Len(events) \in Nat
  BY LenProperties DEF TypeOK
<1>1. /\ \A i \in DOMAIN events : i \in DOMAIN events' /\ events'[i] = events[i]
      /\ \A i \in DOMAIN events' : i \notin DOMAIN events => \E k \in DOMAIN es : events'[i] = es[k]
      /\ DOMAIN events = 1 .. Len(events)
  BY <1>0, EmitAppends
<1>2. \A s \in Steps : Reported(s) => Reported(s)'
  BY <1>1 DEF Reported, IsFinish
<1>3. ASSUME DependenciesHonoured, \A k \in DOMAIN es : es[k].type # "StepStarted"
      PROVE  DependenciesHonoured'
  <2> SUFFICES ASSUME NEW i \in DOMAIN events', events'[i].type = "StepStarted",
                      NEW d \in wf.deps[events'[i].step]
               PROVE  \E j \in 1 .. (i - 1) : IsFinish(events'[j], d) /\ events'[j].status = "Succeeded"
    BY DEF DependenciesHonoured, IsFinish
  <2>1. i \in DOMAIN events /\ events'[i] = events[i]
    BY <1>1, <1>3
  <2>2. PICK j \in 1 .. (i - 1) : IsFinish(events[j], d) /\ events[j].status = "Succeeded"
    BY <1>3, <2>1 DEF DependenciesHonoured
  <2>3. j \in DOMAIN events
    BY <1>0, <1>1, <2>1
  <2> QED BY <1>1, <2>2, <2>3
<1> QED BY <1>2, <1>3

\* Declining a step, or finishing one, records and reports the same outcome.
LEMMA SettleKeepsReports ==
    ASSUME TypeOK, DependencyInv, phase # "aborted", pos \in DOMAIN wf.order,
           NEW st \in Outcomes, NEW o \in Outputs, NEW n \in Nat,
           NEW before \in Seq(Event), NEW after \in Seq(Event),
           Settle(st, o, n, before, after), UNCHANGED wf,
           ~eventsOpen => phase' = "aborted",
           \A x \in Range(before) \cup Range(after) : x.type # "StepStarted"
    PROVE  DependencyInv'
<1> DEFINE e == StepFinished(Step, st, o, n)
           es == before \o <<e>> \o after
<1>1. Step \in Steps /\ e \in Event
  BY StepIsAStep, EventKinds
<1>2. es \in Seq(Event) /\ \A k \in DOMAIN es : es[k].type # "StepStarted"
  <2>1. e.type # "StepStarted"
    BY DEF StepFinished
  <2> HIDE DEF e
  <2> QED BY <1>1, <2>1, SettleEvents
<1>3. Emit(es)
  BY DEF Settle
<1>4. /\ \A s \in Steps : Reported(s) => Reported(s)'
      /\ DependenciesHonoured'
  <2> HIDE DEF es
  <2> QED BY <1>2, <1>3, EmitKeepsReports DEF DependencyInv
<1>5. ASSUME phase' # "aborted", st = "Succeeded", NEW s \in Steps, s = Step
      PROVE  Reported(s)'
  <2>1. eventsOpen /\ events' = events \o es
    BY <1>3, <1>5 DEF Emit, TypeOK
  <2>2. events \in Seq(Event)
    BY DEF TypeOK
  <2>3. \E j \in DOMAIN events' : events'[j] = e
    <3>1. e \in Range(es)
      <4> DEFINE t == <<e>>
                 u == before \o t
      <4>1. t \in Seq(Event) /\ u \in Seq(Event)
        BY <1>1, ConcatProperties
      <4>2. e \in Range(t)
        BY DEF Range
      <4>3. es = u \o after
        OBVIOUS
      <4> HIDE DEF t, e, es
      <4>4. Range(u) = Range(before) \cup Range(t)
        BY <4>1, RangeConcatenation
      <4> HIDE DEF u
      <4>5. Range(u \o after) = Range(u) \cup Range(after)
        BY <4>1, RangeConcatenation
      <4> QED BY <4>2, <4>3, <4>4, <4>5
    <3> HIDE DEF es, e
    <3>2. e \in Range(events \o es)
      BY <1>2, <2>2, <3>1, RangeConcatenation
    <3> QED BY <2>1, <3>2 DEF Range
  <2>4. e.type = "StepFinished" /\ e.step = s /\ e.status = "Succeeded"
    BY <1>5 DEF StepFinished
  <2> HIDE DEF e
  <2> QED BY <2>3, <2>4 DEF Reported, IsFinish
<1>6. status' = [status EXCEPT ![Step] = st] /\ status \in [Steps -> Outcomes \cup {"pending"}]
  BY DEF Settle, TypeOK
<1>7. ASSUME phase' # "aborted", NEW s \in Steps, status'[s] = "Succeeded"
      PROVE  Reported(s)'
  <2>1. CASE s = Step
    BY <1>1, <1>5, <1>6, <1>7, <2>1
  <2>2. CASE s # Step
    BY <1>4, <1>6, <1>7, <2>2 DEF DependencyInv
  <2> QED BY <2>1, <2>2
<1> QED BY <1>4, <1>7 DEF DependencyInv

\* A finished step is recorded Succeeded only when reported so.
LEMMA SettleExecutedKeepsReports ==
    ASSUME TypeOK, DependencyInv, phase = "execute", NEW r \in [status : Outcomes, output : Outputs],
           NEW st \in Outcomes, NEW n \in Nat, NEW announced \in Seq(Event),
           SettleExecuted(r, st, n, announced), \A x \in Range(announced) : x.type # "StepStarted"
    PROVE  DependencyInv'
<1> DEFINE after == IF st = "Succeeded" THEN <<RunOutputAccumulated(Step, r.output)>> ELSE <<>>
<1>1. pos \in DOMAIN wf.order /\ Step \in Steps
  BY StepIsAStep DEF TypeOK, InLoop
<1>2. after \in Seq(Event)
  BY <1>1, EventKinds, EmptySeq
<1>3. \A x \in Range(after) : x.type # "StepStarted"
  BY DEF RunOutputAccumulated, Range
<1>4. Settle(st, r.output, n, announced, after)
  BY DEF SettleExecuted
<1>5. (~eventsOpen => phase' = "aborted") /\ UNCHANGED wf
  BY DEF SettleExecuted
<1> HIDE DEF after
<1> QED BY <1>1, <1>2, <1>3, <1>4, <1>5, SettleKeepsReports

(* Every step that starts starts after its dependencies succeeded.         *)
THEOREM DependencySafety == Spec => []DependenciesHonoured
<1>1. Init => DependencyInv
  BY DEF Init, Created, DependencyInv, DependenciesHonoured
<1>2. TypeOK /\ DependencyInv /\ [Next]_vars => DependencyInv'
  <2> SUFFICES ASSUME TypeOK, DependencyInv, [Next]_vars PROVE DependencyInv'
    OBVIOUS
  <2>0. UNCHANGED wf
    BY DEF Next, RunTask, vars, Begin, Drain, AwaitCommand, ProcessCommand, EndDrain, EndWait,
           SkipBlocked, SkipByCondition, FailUnresolved, SettleUnstarted, StartStep, RunStep,
           RepeatAgain, RepeatEnd, SettleExecuted, Complete, SendCommand, DropControl, DropEvents
  <2>1. ASSUME NEW es \in Seq(Event), Emit(es), UNCHANGED status, phase # "aborted",
               \A k \in DOMAIN es : es[k].type # "StepStarted"
        PROVE  DependencyInv'
    BY <2>0, <2>1, EmitKeepsReports DEF DependencyInv
  <2>2. ASSUME UNCHANGED <<status, events>>, phase # "aborted" \/ phase' = "aborted"
        PROVE  DependencyInv'
    BY <2>0, <2>2 DEF DependencyInv, Reported, DependenciesHonoured, IsFinish
  <2>3. CASE Begin
    <3>1. UNCHANGED status /\ phase # "aborted"
      BY <2>3 DEF Begin, local
    <3>2. CASE UNCHANGED events
      BY <2>2, <3>1, <3>2
    <3>3. ASSUME NEW es \in {<<RunStarted, RunStatusChanged("Failed"), RunCompleted("Failed")>>,
                             <<RunStarted, RunStatusChanged("Running")>>},
                 Emit(es)
          PROVE  DependencyInv'
      <4>1. es \in Seq(Event)
        <5>1. /\ RunStarted \in Event /\ RunStatusChanged("Failed") \in Event
              /\ RunCompleted("Failed") \in Event /\ RunStatusChanged("Running") \in Event
          BY EventKinds DEF Statuses
        <5> QED BY <5>1
      <4>2. \A k \in DOMAIN es : es[k].type # "StepStarted"
        BY DEF RunStarted, RunStatusChanged, RunCompleted
      <4> QED BY <2>1, <3>1, <3>3, <4>1, <4>2
    <3> QED BY <2>3, <3>2, <3>3 DEF Begin
  <2>4. CASE Drain \/ AwaitCommand
    <3>1. ProcessCommand /\ phase # "aborted"
      BY <2>4 DEF Drain, AwaitCommand, Waiting
    <3>2. UNCHANGED status
      BY <3>1 DEF ProcessCommand, local
    <3>3. Head(control) \in Commands
      BY <3>1, HeadTailProperties DEF ProcessCommand, TypeOK
    <3> DEFINE e == RunStatusChanged(StatusOf(Head(control)))
    <3>4. e \in Event /\ e.type = "RunStatusChanged"
      BY <3>3, EventKinds DEF StatusOf, Commands, Statuses, RunStatusChanged
    <3>5. CASE Emit(<<e>>)
      <4> HIDE DEF e
      <4>1. <<e>> \in Seq(Event) /\ \A k \in DOMAIN <<e>> : <<e>>[k].type # "StepStarted"
        BY <3>4
      <4> QED BY <2>1, <3>1, <3>2, <3>5, <4>1
    <3> QED BY <2>2, <3>1, <3>2, <3>5 DEF ProcessCommand
  <2>5. CASE EndDrain \/ EndWait
    BY <2>2, <2>5 DEF EndDrain, EndWait, Waiting
  <2>6. CASE SkipBlocked \/ SkipByCondition \/ FailUnresolved
    <3>1. PICK st \in Outcomes : SettleUnstarted(st) /\ phase = "prepare"
      BY <2>6 DEF SkipBlocked, SkipByCondition, FailUnresolved, Outcomes
    <3>2. Settle(st, "null", 0, <<>>, <<>>) /\ (~eventsOpen => phase' = "aborted")
      BY <3>1 DEF SettleUnstarted
    <3>3. "null" \in Outputs /\ <<>> \in Seq(Event) /\ Range(<<>>) = {} /\ pos \in DOMAIN wf.order
      BY <3>1, EmptySeq DEF Outputs, Range, TypeOK, InLoop
    <3> QED BY <2>0, <3>1, <3>2, <3>3, SettleKeepsReports
  <2>7. CASE StartStep
    <3>1. phase = "prepare" /\ UNCHANGED status /\ ~Blocked(Step) /\ pos \in DOMAIN wf.order
      BY <2>7 DEF StartStep, TypeOK, InLoop
    <3> DEFINE e == StepStarted(pos - 1, Step)
    <3>2. <<e>> \in Seq(Event) /\ DOMAIN <<e>> = {1} /\ <<e>>[1] = e /\ e.step = Step
      <4>1. e \in Event
        BY <3>1, StepIsAStep, EventKinds DEF TypeOK
      <4>2. e.step = Step
        BY DEF StepStarted
      <4> QED BY <4>1, <4>2
    <3>3. Emit(<<e>>)
      BY <2>7 DEF StartStep
    <3>4. events \in Seq(Event) /\ Len(events) \in Nat
      BY LenProperties DEF TypeOK
    <3> HIDE DEF e
    <3>5. /\ \A i \in DOMAIN events : i \in DOMAIN events' /\ events'[i] = events[i]
          /\ \A i \in DOMAIN events' : i \notin DOMAIN events => i = Len(events) + 1 /\ events'[i] = e
          /\ DOMAIN events = 1 .. Len(events)
      <4> DEFINE es == <<e>>
      <4>1. es \in Seq(Event) /\ DOMAIN es = {1} /\ es[1] = e /\ Emit(es)
        BY <3>2, <3>3
      <4> HIDE DEF es
      <4> QED BY <3>4, <4>1, EmitAppends
    <3>6. \A s \in Steps : Reported(s) => Reported(s)'
      BY <2>0, <3>2, <3>3, EmitKeepsReports
    <3>7. \A d \in wf.deps[Step] : d \in Steps /\ Reported(d)
      <4>1. \A d \in wf.deps[Step] : d \in Steps
        BY <3>1, StepIsAStep, RunAssumption DEF TypeOK, Workflow
      <4>2. \A d \in wf.deps[Step] : status[d] = "Succeeded"
        BY <3>1 DEF Blocked
      <4> QED BY <3>1, <4>1, <4>2 DEF DependencyInv
    <3>8. DependenciesHonoured'
      <4> SUFFICES ASSUME NEW i \in DOMAIN events', events'[i].type = "StepStarted",
                          NEW d \in wf.deps[events'[i].step]
                   PROVE  \E j \in 1 .. (i - 1) : IsFinish(events'[j], d) /\ events'[j].status = "Succeeded"
        BY <2>0 DEF DependenciesHonoured, IsFinish
      <4>1. CASE i \in DOMAIN events
        <5>1. PICK j \in 1 .. (i - 1) : IsFinish(events[j], d) /\ events[j].status = "Succeeded"
          BY <3>5, <4>1 DEF DependencyInv, DependenciesHonoured
        <5>2. j \in DOMAIN events
          BY <3>4, <3>5, <4>1
        <5> QED BY <3>5, <5>1, <5>2
      <4>2. CASE i \notin DOMAIN events
        <5>1. i = Len(events) + 1 /\ events'[i].step = Step
          BY <3>2, <3>5, <4>2
        <5>2. PICK j \in DOMAIN events : IsFinish(events[j], d) /\ events[j].status = "Succeeded"
          BY <3>7, <5>1 DEF Reported
        <5>3. j \in 1 .. (i - 1)
          BY <3>4, <3>5, <5>1
        <5> QED BY <3>5, <5>2, <5>3
      <4> QED BY <4>1, <4>2
    <3> QED BY <3>1, <3>6, <3>8 DEF DependencyInv
  <2>8. CASE RunStep
    <3>1. PICK r \in CommandResults : SettleExecuted(r, r.status, 1, <<>>)
      BY <2>8 DEF RunStep
    <3>2. r \in [status : Outcomes, output : Outputs] /\ r.status \in Outcomes
      BY DEF CommandResults, Outcomes, Outputs
    <3>3. <<>> \in Seq(Event) /\ Range(<<>>) = {}
      BY EmptySeq DEF Range
    <3> QED BY <2>8, <3>1, <3>2, <3>3, SettleExecutedKeepsReports DEF RunStep
  <2>9. CASE RepeatAgain
    <3>1. UNCHANGED status /\ phase = "execute" /\ Emit(<<StepAttempt(Step, attempts + 1)>>)
      BY <2>9 DEF RepeatAgain
    <3> DEFINE e == StepAttempt(Step, attempts + 1)
    <3>2. e \in Event /\ e.type = "StepAttempt"
      <4>1. Step \in Steps /\ attempts + 1 \in Nat
        BY <3>1, StepIsAStep DEF TypeOK, InLoop
      <4>2. e \in Event
        BY <4>1, EventKinds
      <4> QED BY <4>2 DEF StepAttempt
    <3> HIDE DEF e
    <3>3. <<e>> \in Seq(Event) /\ \A k \in DOMAIN <<e>> : <<e>>[k].type # "StepStarted"
      BY <3>2
    <3> QED BY <2>1, <3>1, <3>3 DEF e
  <2>10. CASE RepeatEnd
    <3> DEFINE announced == <<StepAttempt(Step, attempts + 1)>>
    <3>1. PICK r \in AttemptResults(Step), until \in {"holds", "unresolved", "fails"} :
            SettleExecuted(r, IF until = "holds" THEN r.status ELSE "Failed", attempts + 1, announced)
      BY <2>10 DEF RepeatEnd
    <3>2. r \in [status : Outcomes, output : Outputs]
      BY DEF AttemptResults, CommandResults, Outcomes, Outputs
    <3>3. (IF until = "holds" THEN r.status ELSE "Failed") \in Outcomes
      BY <3>2 DEF Outcomes
    <3>4. attempts + 1 \in Nat /\ announced \in Seq(Event)
      BY <2>10, StepIsAStep, EventKinds DEF RepeatEnd, TypeOK, InLoop
    <3>5. \A x \in Range(announced) : x.type # "StepStarted"
      BY DEF StepAttempt, Range
    <3>6. phase = "execute"
      BY <2>10 DEF RepeatEnd
    <3> HIDE DEF announced
    <3> QED BY <3>1, <3>2, <3>3, <3>4, <3>5, <3>6, SettleExecutedKeepsReports
  <2>11. CASE Complete
    <3> DEFINE e == RunCompleted(CompletedStatus)
    <3>1. e \in Event /\ e.type = "RunCompleted"
      BY EventKinds DEF CompletedStatus, Statuses, RunCompleted
    <3>2. Emit(<<e>>) /\ UNCHANGED status /\ phase = "complete"
      BY <2>11 DEF Complete, local
    <3> HIDE DEF e
    <3>3. <<e>> \in Seq(Event) /\ \A k \in DOMAIN <<e>> : <<e>>[k].type # "StepStarted"
      BY <3>1
    <3> QED BY <2>1, <3>2, <3>3
  <2>12. CASE SendCommand \/ DropControl \/ DropEvents \/ UNCHANGED vars
    <3>1. UNCHANGED <<phase, status, events>>
      BY <2>12 DEF SendCommand, DropControl, DropEvents, vars, local
    <3> QED BY <2>2, <3>1
  <2> QED BY <2>3, <2>4, <2>5, <2>6, <2>7, <2>8, <2>9, <2>10, <2>11, <2>12 DEF Next, RunTask
<1>3. DependencyInv => DependenciesHonoured
  BY DEF DependencyInv
<1> QED BY <1>1, <1>2, <1>3, TypeCorrect, PTL DEF Spec

-----------------------------------------------------------------------------
(* How far a run is *)

Places == DOMAIN wf.order

\* The loop is past place i of the plan.
Passed(i) == i < pos \/ (i = pos /\ phase \in {"after", "waitAfter"})

\* Exactly the steps that the loop has passed are settled.
SettledUpToHere ==
    phase \in InLoop \cup {"created"} =>
        \A i \in Places : status[wf.order[i]] # "pending" <=> Passed(i)

\* How far a run is: it runs only what was planned, prepares and executes
\* nothing after a cancel, settles its steps in order and each once, completes
\* with all of them settled or cancelled, remembers a failure, and has said
\* nothing before it begins and something afterwards.
ProgressInv ==
    /\ phase \notin {"created", "ended"} => wf.planned
    /\ phase = "created" => pos = 1 /\ events = <<>> /\ \A s \in Steps : status[s] = "pending"
    /\ cancelRequested => phase \notin {"created", "prepare", "execute"}
    /\ SettledUpToHere
    /\ phase = "complete" /\ ~cancelRequested => \A i \in Places : status[wf.order[i]] # "pending"
    /\ anyFailed <=> \E i \in Places : status[wf.order[i]] = "Failed"
    /\ phase \in InLoop \cup {"complete"} => events # <<>>

-----------------------------------------------------------------------------
(* What sending, settling and moving on do to it *)

\* A stream that has something in it, or is given something, is not empty.
LEMMA EmitIsHeard ==
    ASSUME events \in Seq(Event), NEW es \in Seq(Event), Emit(es),
           events # <<>> \/ (eventsOpen /\ es # <<>>)
    PROVE  events' # <<>>
<1>1. CASE eventsOpen
  <2>1. events' = events \o es
    BY <1>1 DEF Emit
  <2>2. Len(events') = Len(events) + Len(es) /\ Len(events) \in Nat /\ Len(es) \in Nat
    BY <2>1, ConcatProperties, LenProperties
  <2>3. Len(events) # 0 \/ Len(es) # 0
    BY EmptySeq
  <2> QED BY <2>2, <2>3, EmptySeq
<1>2. CASE ~eventsOpen
  BY <1>2 DEF Emit
<1> QED BY <1>1, <1>2

\* The plan of a run under way names steps, each once.
LEMMA PlanIsInjective ==
    ASSUME TypeOK, wf.planned
    PROVE  /\ wf.order \in Seq(Steps) /\ Places = 1 .. Len(wf.order) /\ Len(wf.order) \in Nat
           /\ \A i \in Places : wf.order[i] \in Steps
           /\ \A i, j \in Places : wf.order[i] = wf.order[j] => i = j
<1>1. wf.order \in Seq(Steps)
  BY RunAssumption DEF TypeOK, Workflow
<1>2. \A i, j \in Places : wf.order[i] = wf.order[j] => i = j
  BY RunAssumption DEF TypeOK, IsPlanned, Distinct, Places
<1> QED BY <1>1, <1>2, LenProperties, ElementOfSeq DEF Places

\* Settling the step at hand: the steps up to here are settled, and a failure
\* is remembered exactly if there is one.
LEMMA SettlingIsProgress ==
    ASSUME TypeOK, ProgressInv, phase \in {"prepare", "execute"}, NEW st \in Outcomes,
           status' = [status EXCEPT ![Step] = st], anyFailed' = (anyFailed \/ st = "Failed"),
           UNCHANGED wf
    PROVE  /\ \A i \in Places : status'[wf.order[i]] # "pending" <=> i <= pos
           /\ anyFailed' <=> \E i \in Places' : status'[wf'.order[i]] = "Failed"
<1>1. wf.planned /\ pos \in Places /\ Step = wf.order[pos]
  BY DEF ProgressInv, TypeOK, InLoop, Places, Step
<1>2. /\ Places = 1 .. Len(wf.order) /\ Len(wf.order) \in Nat
      /\ \A i \in Places : wf.order[i] \in Steps
      /\ \A i, j \in Places : wf.order[i] = wf.order[j] => i = j
  BY <1>1, PlanIsInjective
<1>3. \A i \in Places : status[wf.order[i]] # "pending" <=> i < pos
  BY DEF ProgressInv, SettledUpToHere, Passed, InLoop
<1>4. \A i \in Places : status'[wf.order[i]] = IF i = pos THEN st ELSE status[wf.order[i]]
  BY <1>1, <1>2 DEF TypeOK
<1>5. \A i \in Places : status'[wf.order[i]] # "pending" <=> i <= pos
  BY <1>1, <1>2, <1>3, <1>4 DEF Outcomes
<1>6. anyFailed' <=> \E i \in Places : status'[wf.order[i]] = "Failed"
  <2>1. status[wf.order[pos]] = "pending"
    BY <1>1, <1>2, <1>3
  <2>2. anyFailed <=> \E i \in Places : status[wf.order[i]] = "Failed"
    BY DEF ProgressInv
  <2> QED BY <1>1, <1>4, <2>1, <2>2
<1> QED BY <1>5, <1>6 DEF Places

\* Leaving an iteration whose step is settled.
LEMMA NextIterationIsProgress ==
    ASSUME TypeOK, wf.planned, pos \in Places, NextIteration, UNCHANGED wf,
           \A i \in Places : status'[wf.order[i]] # "pending" <=> i <= pos
    PROVE  /\ phase' \in {"top", "complete"}
           /\ SettledUpToHere'
           /\ phase' = "complete" => \A i \in Places' : status'[wf'.order[i]] # "pending"
<1>1. Places = 1 .. Len(wf.order) /\ Len(wf.order) \in Nat
  BY PlanIsInjective
<1>2. Places' = Places /\ wf'.order = wf.order
  BY DEF Places
<1>3. CASE LastStep
  <2>1. pos' = pos /\ phase' = "complete" /\ pos = Len(wf.order)
    BY <1>3 DEF NextIteration, LastStep
  <2> QED BY <1>1, <1>2, <2>1 DEF SettledUpToHere, InLoop
<1>4. CASE ~LastStep
  <2>1. pos' = pos + 1 /\ phase' = "top"
    BY <1>4 DEF NextIteration
  <2>2. \A i \in Places : i <= pos <=> i < pos + 1
    BY <1>1
  <2> QED BY <1>1, <1>2, <2>1, <2>2 DEF SettledUpToHere, Passed
<1> QED BY <1>3, <1>4

\* A command changes the flags, and ends the run if nobody listens.
LEMMA ProcessCommandIsProgress ==
    ASSUME TypeOK, ProgressInv, ProcessCommand, phase \in {"top", "after", "waitTop", "waitAfter"}
    PROVE  ProgressInv'
<1>1. phase' \in {phase, "aborted"} /\ UNCHANGED <<wf, pos, status, anyFailed>>
  BY DEF ProcessCommand, local
<1>2. events' # <<>>
  <2>1. events # <<>> /\ events \in Seq(Event)
    BY DEF ProgressInv, InLoop, TypeOK
  <2>2. CASE UNCHANGED events
    BY <2>1, <2>2
  <2>3. CASE Emit(<<RunStatusChanged(StatusOf(Head(control)))>>)
    <3>1. Head(control) \in Commands
      BY HeadTailProperties DEF ProcessCommand, TypeOK
    <3>2. StatusOf(Head(control)) \in Statuses
      BY <3>1 DEF StatusOf, Commands, Statuses
    <3>3. <<RunStatusChanged(StatusOf(Head(control)))>> \in Seq(Event)
      BY <3>2, EventKinds
    <3> QED BY <2>1, <2>3, <3>3, EmitIsHeard
  <2> QED BY <2>2, <2>3 DEF ProcessCommand
<1>3. SettledUpToHere'
  BY <1>1 DEF ProgressInv, SettledUpToHere, Passed, Places, InLoop
<1> QED BY <1>1, <1>2, <1>3 DEF ProgressInv, Places, InLoop

\* Going on after a drain or a wait.
LEMMA ProceedIsProgress ==
    ASSUME TypeOK, ProgressInv, phase \in {"top", "after", "waitTop", "waitAfter"},
           UNCHANGED <<wf, status, anyFailed, cancelRequested, events>>,
           ~cancelRequested, Proceed(phase)
    PROVE  ProgressInv' /\ phase' \in {"prepare", "top", "complete"}
<1>1. wf.planned /\ pos \in Places /\ events # <<>>
  BY DEF ProgressInv, TypeOK, InLoop, Places
<1>2. /\ phase' \in {"prepare", "top", "complete"}
      /\ SettledUpToHere'
      /\ phase' = "complete" => \A i \in Places' : status'[wf'.order[i]] # "pending"
  <2>1. CASE phase \in {"top", "waitTop"}
    BY <2>1 DEF Proceed, ProgressInv, SettledUpToHere, Passed, Places, InLoop
  <2>2. CASE phase \in {"after", "waitAfter"}
    <3>1. Places = 1 .. Len(wf.order) /\ Len(wf.order) \in Nat
      BY <1>1, PlanIsInjective
    <3>2. \A i \in Places : status'[wf.order[i]] # "pending" <=> i <= pos
      BY <1>1, <2>2, <3>1 DEF ProgressInv, SettledUpToHere, Passed, InLoop
    <3>3. NextIteration
      BY <2>2 DEF Proceed
    <3> QED BY <1>1, <3>2, <3>3, NextIterationIsProgress
  <2> QED BY <2>1, <2>2
<1> QED BY <1>1, <1>2 DEF ProgressInv, Places, InLoop

\* Declining a step.
LEMMA SettleUnstartedIsProgress ==
    ASSUME TypeOK, ProgressInv, phase = "prepare", NEW st \in Outcomes, SettleUnstarted(st)
    PROVE  ProgressInv'
<1>1. /\ status' = [status EXCEPT ![Step] = st] /\ anyFailed' = (anyFailed \/ st = "Failed")
      /\ Emit(<<>> \o <<StepFinished(Step, st, "null", 0)>> \o <<>>)
      /\ UNCHANGED <<wf, cancelRequested>>
  BY DEF SettleUnstarted, Settle, flags
<1>2. wf.planned /\ pos \in Places /\ events # <<>> /\ ~cancelRequested
  BY DEF ProgressInv, TypeOK, InLoop, Places
<1>3. /\ \A i \in Places : status'[wf.order[i]] # "pending" <=> i <= pos
      /\ anyFailed' <=> \E i \in Places' : status'[wf'.order[i]] = "Failed"
  BY <1>1, SettlingIsProgress
<1>4. events' # <<>>
  <2>1. StepFinished(Step, st, "null", 0) \in Event
    BY StepIsAStep, EventKinds DEF TypeOK, InLoop, Outputs
  <2>2. <<>> \o <<StepFinished(Step, st, "null", 0)>> \o <<>> \in Seq(Event)
    <3> DEFINE e == StepFinished(Step, st, "null", 0)
    <3> HIDE DEF e
    <3>1. e \in Event
      BY <2>1 DEF e
    <3>2. <<>> \o <<e>> \o <<>> \in Seq(Event)
      BY <3>1, SettleEvents, EmptySeq
    <3> QED BY <3>2 DEF e
  <2> QED BY <1>1, <1>2, <2>2, EmitIsHeard DEF TypeOK
<1>5. CASE eventsOpen
  <2>1. NextIteration
    BY <1>5 DEF SettleUnstarted
  <2>2. /\ phase' \in {"top", "complete"} /\ SettledUpToHere'
        /\ phase' = "complete" => \A i \in Places' : status'[wf'.order[i]] # "pending"
    BY <1>1, <1>2, <1>3, <2>1, NextIterationIsProgress
  <2> QED BY <1>1, <1>2, <1>3, <1>4, <2>2 DEF ProgressInv
<1>6. CASE ~eventsOpen
  <2>1. phase' = "aborted"
    BY <1>6 DEF SettleUnstarted
  <2> QED BY <1>1, <1>2, <1>3, <2>1 DEF ProgressInv, SettledUpToHere, InLoop
<1> QED BY <1>5, <1>6

\* The end of an executed step.
LEMMA SettleExecutedIsProgress ==
    ASSUME TypeOK, ProgressInv, phase = "execute", NEW r \in [status : Outcomes, output : Outputs],
           NEW st \in Outcomes, NEW n \in Nat, NEW announced \in Seq(Event),
           SettleExecuted(r, st, n, announced)
    PROVE  ProgressInv'
<1> DEFINE after == IF st = "Succeeded" THEN <<RunOutputAccumulated(Step, r.output)>> ELSE <<>>
           e == StepFinished(Step, st, r.output, n)
<1>1. /\ status' = [status EXCEPT ![Step] = st] /\ anyFailed' = (anyFailed \/ st = "Failed")
      /\ Emit(announced \o <<e>> \o after)
      /\ UNCHANGED <<wf, pos, cancelRequested>> /\ phase' \in {"after", "aborted"}
  BY DEF SettleExecuted, Settle, flags
<1>2. wf.planned /\ pos \in Places /\ events # <<>> /\ ~cancelRequested
  BY DEF ProgressInv, TypeOK, InLoop, Places
<1>3. /\ \A i \in Places : status'[wf.order[i]] # "pending" <=> i <= pos
      /\ anyFailed' <=> \E i \in Places' : status'[wf'.order[i]] = "Failed"
  BY <1>1, SettlingIsProgress
<1>4. events' # <<>>
  <2>1. Step \in Steps
    BY StepIsAStep DEF TypeOK, InLoop
  <2>2. e \in Event /\ after \in Seq(Event)
    BY <2>1, EventKinds, EmptySeq
  <2> HIDE DEF e, after
  <2>3. announced \o <<e>> \o after \in Seq(Event)
    BY <2>2, SettleEvents
  <2> QED BY <1>1, <1>2, <2>3, EmitIsHeard DEF TypeOK
<1>5. SettledUpToHere'
  <2>1. Places = 1 .. Len(wf.order) /\ Len(wf.order) \in Nat
    BY <1>2, PlanIsInjective
  <2>2. \A i \in Places : i <= pos <=> i < pos \/ i = pos
    BY <1>2, <2>1
  <2> QED BY <1>1, <1>3, <2>2 DEF SettledUpToHere, Passed, Places, InLoop
<1> QED BY <1>1, <1>2, <1>3, <1>4, <1>5 DEF ProgressInv, InLoop

\* A run that has just been asked for is at its beginning.
LEMMA CreatedProgress == wf \in Workflows /\ Created => ProgressInv
<1> SUFFICES ASSUME wf \in Workflows, Created PROVE ProgressInv
  OBVIOUS
<1>1. /\ phase = "created" /\ pos = 1 /\ events = <<>>
      /\ anyFailed = FALSE /\ cancelRequested = FALSE
  BY DEF Created
<1>2. wf.order \in Seq(Steps) /\ Places = 1 .. Len(wf.order)
  BY RunAssumption DEF Created, Workflow, Places
<1>3. \A i \in Places : status[wf.order[i]] = "pending" /\ ~(i < 1)
  BY <1>2, ElementOfSeq DEF Created
<1>4. \A s \in Steps : status[s] = "pending"
  BY DEF Created
<1> QED BY <1>1, <1>3, <1>4 DEF ProgressInv, SettledUpToHere, Passed, InLoop

\* Every step keeps account of how far the run is.
LEMMA ProgressStep == TypeInv /\ ProgressInv /\ [Next]_vars => ProgressInv'
<1> SUFFICES ASSUME TypeOK, ProgressInv, [Next]_vars PROVE ProgressInv'
  BY DEF TypeInv
<1>1. CASE Begin
  <2>1. UNCHANGED <<wf, pos, status, anyFailed, cancelRequested>> /\ pos = 1 /\ ~cancelRequested
    BY <1>1 DEF Begin, local, flags, ProgressInv
  <2>2. CASE phase' = "ended"
    BY <2>1, <2>2 DEF ProgressInv, SettledUpToHere, Places, InLoop
  <2>3. CASE /\ eventsOpen /\ wf.planned /\ Emit(<<RunStarted, RunStatusChanged("Running")>>)
             /\ phase' = IF wf.order = <<>> THEN "complete" ELSE "top"
    <3>1. events' # <<>>
      <4>1. <<RunStarted, RunStatusChanged("Running")>> \in Seq(Event)
        BY EventKinds DEF Statuses
      <4>2. <<RunStarted, RunStatusChanged("Running")>> # <<>>
        OBVIOUS
      <4> QED BY <2>3, <4>1, <4>2, EmitIsHeard DEF TypeOK
    <3>2. wf.order = <<>> => Places = {}
      BY DEF Places
    <3>3. \A i \in Places : status[wf.order[i]] # "pending" <=> i < 1
      BY <1>1, <2>1 DEF Begin, ProgressInv, SettledUpToHere, Passed
    <3> QED BY <2>1, <2>3, <3>1, <3>2, <3>3 DEF ProgressInv, SettledUpToHere, Passed, Places, InLoop
  <2> QED BY <1>1, <2>2, <2>3 DEF Begin
<1>2. CASE Drain \/ AwaitCommand
  BY <1>2, ProcessCommandIsProgress DEF Drain, AwaitCommand, Waiting
<1>3. CASE EndDrain \/ EndWait
  <2>1. /\ phase \in {"top", "after", "waitTop", "waitAfter"}
        /\ UNCHANGED <<wf, status, anyFailed, cancelRequested, events>>
    BY <1>3 DEF EndDrain, EndWait, Waiting, flags
  <2>2. CASE ~cancelRequested /\ Proceed(phase)
    BY <2>1, <2>2, ProceedIsProgress
  <2>3. CASE cancelRequested /\ phase' = "complete" /\ UNCHANGED pos
    BY <2>1, <2>3 DEF ProgressInv, SettledUpToHere, Places, InLoop
  <2>4. CASE /\ phase \in {"top", "after"} /\ UNCHANGED pos
             /\ phase' = IF phase = "top" THEN "waitTop" ELSE "waitAfter"
    BY <2>1, <2>4 DEF ProgressInv, SettledUpToHere, Passed, Places, InLoop
  <2> QED BY <1>3, <2>2, <2>3, <2>4 DEF EndDrain, EndWait
<1>4. CASE SkipBlocked \/ SkipByCondition \/ FailUnresolved
  BY <1>4, SettleUnstartedIsProgress DEF SkipBlocked, SkipByCondition, FailUnresolved, Outcomes
<1>5. CASE StartStep \/ RepeatAgain
  <2>1. /\ phase \in {"prepare", "execute"} /\ phase' = "execute"
        /\ UNCHANGED <<wf, pos, status, anyFailed, cancelRequested>>
    BY <1>5 DEF StartStep, RepeatAgain, flags
  <2>2. events' # <<>>
    <3>1. PICK e \in {StepStarted(pos - 1, Step), StepAttempt(Step, attempts + 1)} : Emit(<<e>>)
      BY <1>5 DEF StartStep, RepeatAgain
    <3>2. e \in Event
      BY <2>1, StepIsAStep, EventKinds DEF TypeOK, InLoop
    <3>3. <<e>> \in Seq(Event) /\ events # <<>>
      BY <2>1, <3>2 DEF ProgressInv, InLoop
    <3> QED BY <3>1, <3>3, EmitIsHeard DEF TypeOK
  <2> QED BY <2>1, <2>2 DEF ProgressInv, SettledUpToHere, Passed, Places, InLoop
<1>6. CASE RunStep
  <2>1. PICK r \in CommandResults : SettleExecuted(r, r.status, 1, <<>>)
    BY <1>6 DEF RunStep
  <2>2. r \in [status : Outcomes, output : Outputs] /\ r.status \in Outcomes
    BY DEF CommandResults, Outcomes, Outputs
  <2> QED BY <1>6, <2>1, <2>2, EmptySeq, SettleExecutedIsProgress DEF RunStep
<1>7. CASE RepeatEnd
  <2>1. attempts + 1 \in Nat /\ Step \in Steps
    BY <1>7, StepIsAStep DEF RepeatEnd, TypeOK, InLoop
  <2>2. <<StepAttempt(Step, attempts + 1)>> \in Seq(Event)
    BY <2>1, EventKinds
  <2>3. PICK r \in AttemptResults(Step), until \in {"holds", "unresolved", "fails"} :
          SettleExecuted(r, IF until = "holds" THEN r.status ELSE "Failed",
                         attempts + 1, <<StepAttempt(Step, attempts + 1)>>)
    BY <1>7 DEF RepeatEnd
  <2>4. r \in [status : Outcomes, output : Outputs] /\ r.status \in Outcomes
    BY DEF AttemptResults, CommandResults, Outcomes, Outputs
  <2>5. (IF until = "holds" THEN r.status ELSE "Failed") \in Outcomes
    BY <2>4 DEF Outcomes
  <2> QED BY <1>7, <2>1, <2>2, <2>3, <2>4, <2>5, SettleExecutedIsProgress DEF RepeatEnd
<1>8. CASE Complete
  BY <1>8 DEF Complete, local, flags, ProgressInv, SettledUpToHere, Places, InLoop
<1>9. CASE SendCommand \/ DropControl \/ DropEvents \/ UNCHANGED vars
  BY <1>9 DEF SendCommand, DropControl, DropEvents, vars, local, flags,
              ProgressInv, SettledUpToHere, Passed, Places
<1> QED BY <1>1, <1>2, <1>3, <1>4, <1>5, <1>6, <1>7, <1>8, <1>9 DEF Next, RunTask

\* How far a run is, is an invariant.
THEOREM ProgressInvariant == Spec => []ProgressInv
<1>1. Init => ProgressInv
  BY CreatedProgress DEF Init
<1> QED BY <1>1, ProgressStep, TypeInvariant, PTL DEF Spec

-----------------------------------------------------------------------------
(* Completion *)

Said  == Range(events)
Under == phase \notin {"ended", "aborted"}

\* What a run has said is what it remembers, for as long as it is under way: a
\* cancel, a failure and every settled step; RunCompleted is not said before it ends.
RecordInv ==
    /\ Under =>
          /\ cancelRequested <=> CancelAnnounced \in Said
          /\ anyFailed <=> \E e \in Said : e.type = "StepFinished" /\ e.status = "Failed"
          /\ \A s \in Steps : status[s] # "pending" => \E e \in Said : IsFinish(e, s)
    /\ phase # "ended" => \A e \in Said : e.type # "RunCompleted"

CompletionInv == RecordInv /\ CompletionIsTruthful

\* Sending adds what is sent to what was said, if anybody listens.
LEMMA EmitSays ==
    ASSUME events \in Seq(Event), NEW es \in Seq(Event), Emit(es)
    PROVE  Said' = IF eventsOpen THEN Said \cup Range(es) ELSE Said
<1>1. CASE eventsOpen
  <2>1. events' = events \o es
    BY <1>1 DEF Emit
  <2> QED BY <1>1, <2>1, RangeConcatenation DEF Said
<1>2. CASE ~eventsOpen
  BY <1>2 DEF Emit, Said
<1> QED BY <1>1, <1>2

\* What is said around the end of a step.
LEMMA SettleSays ==
    ASSUME NEW e \in Event, NEW before \in Seq(Event), NEW after \in Seq(Event)
    PROVE  /\ before \o <<e>> \o after \in Seq(Event)
           /\ Range(before \o <<e>> \o after) = Range(before) \cup {e} \cup Range(after)
<1> DEFINE s == <<e>>
           t == before \o s
<1>1. s \in Seq(Event) /\ Range(s) = {e}
  BY DEF Range
<1>2. t \in Seq(Event) /\ Range(t) = Range(before) \cup Range(s)
  <2> HIDE DEF s
  <2> QED BY <1>1, ConcatProperties, RangeConcatenation
<1>3. t \o after \in Seq(Event) /\ Range(t \o after) = Range(t) \cup Range(after)
  <2> HIDE DEF t
  <2> QED BY <1>2, ConcatProperties, RangeConcatenation
<1> QED BY <1>1, <1>2, <1>3

\* Before a run ends nothing it says can falsify CompletionIsTruthful.
LEMMA NothingCompletedYet ==
    /\ (\A e \in Said : e.type # "RunCompleted") => CompletionIsTruthful
    /\ (\A e \in Said' : e.type # "RunCompleted") => CompletionIsTruthful'
BY DEF Said, Range, CompletionIsTruthful

\* Events that are neither ends of steps, nor a cancel, nor the end of the run
\* leave the record as it was.
LEMMA AsidesKeepRecord ==
    ASSUME TypeOK, CompletionInv, phase # "ended", phase' # "ended",
           phase = "aborted" => phase' = "aborted",
           UNCHANGED <<wf, status, anyFailed, cancelRequested>>,
           NEW es \in Seq(Event), Emit(es),
           \A e \in Range(es) : /\ e.type \notin {"StepFinished", "RunCompleted"}
                                /\ e # CancelAnnounced
    PROVE  CompletionInv'
<1>1. Said' = Said \/ Said' = Said \cup Range(es)
  BY EmitSays DEF TypeOK
<1>2. RecordInv'
  BY <1>1 DEF CompletionInv, RecordInv, Under, IsFinish, CancelAnnounced
<1> QED BY <1>2, NothingCompletedYet DEF CompletionInv, RecordInv

\* So do steps that say nothing.
LEMMA SilenceKeepsRecord ==
    ASSUME CompletionInv, Under' => Under, phase' # "ended" => phase # "ended",
           UNCHANGED <<wf, status, anyFailed, cancelRequested, events>>
    PROVE  CompletionInv'
BY DEF CompletionInv, RecordInv, CompletionIsTruthful, Said, Planned, IsFinish, CancelAnnounced

\* The end of a step is remembered and said alike.
LEMMA SettleKeepsRecord ==
    ASSUME TypeOK, CompletionInv, Under, phase' # "ended", pos \in DOMAIN wf.order,
           NEW st \in Outcomes, NEW o \in Outputs, NEW n \in Nat,
           NEW before \in Seq(Event), NEW after \in Seq(Event),
           Settle(st, o, n, before, after), UNCHANGED <<wf, cancelRequested>>,
           ~eventsOpen => phase' = "aborted",
           \A x \in Range(before) \cup Range(after) :
               x.type \notin {"StepFinished", "RunCompleted"} /\ x # CancelAnnounced
    PROVE  CompletionInv'
<1> DEFINE e == StepFinished(Step, st, o, n)
           es == before \o <<e>> \o after
<1>1. Step \in Steps /\ e \in Event
  BY StepIsAStep, EventKinds
<1>2. e.type = "StepFinished" /\ e.step = Step /\ e.status = st /\ e # CancelAnnounced
  BY DEF StepFinished, CancelAnnounced, RunStatusChanged
<1>3. Emit(es)
  BY DEF Settle
<1> HIDE DEF e
<1>4. es \in Seq(Event) /\ Range(es) = Range(before) \cup {e} \cup Range(after)
  BY <1>1, SettleSays
<1> HIDE DEF es
<1>5. Said' = IF eventsOpen THEN Said \cup Range(before) \cup {e} \cup Range(after) ELSE Said
  BY <1>3, <1>4, EmitSays DEF TypeOK
<1>6. \A x \in Said' : x.type # "RunCompleted"
  BY <1>2, <1>5 DEF CompletionInv, RecordInv, Under
<1>7. ASSUME Under'
      PROVE  /\ cancelRequested' <=> CancelAnnounced \in Said'
             /\ anyFailed' <=> \E x \in Said' : x.type = "StepFinished" /\ x.status = "Failed"
             /\ \A s \in Steps : status'[s] # "pending" => \E x \in Said' : IsFinish(x, s)
  <2>1. Said' = Said \cup Range(before) \cup {e} \cup Range(after)
    BY <1>5, <1>7 DEF Under
  <2>2. cancelRequested' <=> CancelAnnounced \in Said'
    BY <1>2, <2>1 DEF CompletionInv, RecordInv
  <2>3. anyFailed' = (anyFailed \/ st = "Failed") /\ status' = [status EXCEPT ![Step] = st]
    BY DEF Settle
  <2>4. anyFailed' <=> \E x \in Said' : x.type = "StepFinished" /\ x.status = "Failed"
    BY <1>2, <2>1, <2>3 DEF CompletionInv, RecordInv, TypeOK
  <2>5. ASSUME NEW s \in Steps, status'[s] # "pending"
        PROVE  \E x \in Said' : IsFinish(x, s)
    <3>1. CASE s = Step
      BY <1>2, <2>1, <3>1 DEF IsFinish
    <3>2. CASE s # Step
      BY <1>1, <2>1, <2>3, <2>5, <3>2 DEF CompletionInv, RecordInv, TypeOK
    <3> QED BY <3>1, <3>2
  <2> QED BY <2>2, <2>4, <2>5
<1>8. RecordInv'
  BY <1>6, <1>7 DEF RecordInv, CancelAnnounced, IsFinish
<1> QED BY <1>6, <1>8, NothingCompletedYet DEF CompletionInv

\* An executed step comes to its end.
LEMMA SettleExecutedKeepsRecord ==
    ASSUME TypeOK, CompletionInv, phase = "execute", NEW r \in [status : Outcomes, output : Outputs],
           NEW st \in Outcomes, NEW n \in Nat, NEW announced \in Seq(Event),
           SettleExecuted(r, st, n, announced), \A x \in Range(announced) : x.type = "StepAttempt"
    PROVE  CompletionInv'
<1> DEFINE after == IF st = "Succeeded" THEN <<RunOutputAccumulated(Step, r.output)>> ELSE <<>>
<1>1. pos \in DOMAIN wf.order /\ Step \in Steps /\ Under
  BY StepIsAStep DEF TypeOK, InLoop, Under
<1>2. after \in Seq(Event)
  BY <1>1, EventKinds, EmptySeq
<1>3. \A x \in Range(after) : x.type = "RunOutputAccumulated"
  BY DEF RunOutputAccumulated, Range
<1>4. CancelAnnounced.type = "RunStatusChanged"
  BY DEF CancelAnnounced, RunStatusChanged
<1>5. \A x \in Range(announced) \cup Range(after) :
          x.type \notin {"StepFinished", "RunCompleted"} /\ x # CancelAnnounced
  BY <1>3, <1>4
<1>6. Settle(st, r.output, n, announced, after)
  BY DEF SettleExecuted
<1>7. (~eventsOpen => phase' = "aborted") /\ phase' # "ended" /\ UNCHANGED <<wf, cancelRequested>>
  BY DEF SettleExecuted, flags
<1> HIDE DEF after
<1> QED BY <1>1, <1>2, <1>5, <1>6, <1>7, SettleKeepsRecord

\* A command that is accepted is remembered and said alike.
LEMMA ProcessCommandKeepsRecord ==
    ASSUME TypeOK, CompletionInv, ProcessCommand, Under
    PROVE  CompletionInv'
<1> DEFINE c == Head(control)
           e == RunStatusChanged(StatusOf(c))
<1>1. c \in Commands /\ UNCHANGED <<wf, status, anyFailed>> /\ phase' # "ended"
  BY HeadTailProperties DEF ProcessCommand, TypeOK, local, Under
<1>2. CASE ~Accepts(c)
  BY <1>1, <1>2, SilenceKeepsRecord DEF ProcessCommand, flags, Under
<1>3. CASE Accepts(c)
  <2>1. /\ cancelRequested' = (cancelRequested \/ c = "Cancel")
        /\ Emit(<<e>>) /\ (~eventsOpen => phase' = "aborted")
    BY <1>3 DEF ProcessCommand
  <2>2. e \in Event /\ e.type = "RunStatusChanged" /\ (e = CancelAnnounced <=> c = "Cancel")
    BY <1>1, EventKinds DEF StatusOf, Commands, Statuses, RunStatusChanged, CancelAnnounced
  <2> HIDE DEF e
  <2>3. <<e>> \in Seq(Event) /\ Range(<<e>>) = {e}
    BY <2>2 DEF Range
  <2>4. Said' = IF eventsOpen THEN Said \cup {e} ELSE Said
    BY <2>1, <2>3, EmitSays DEF TypeOK
  <2>5. \A x \in Said' : x.type # "RunCompleted"
    BY <2>2, <2>4 DEF CompletionInv, RecordInv, Under
  <2>6. RecordInv'
    BY <1>1, <2>1, <2>2, <2>4, <2>5 DEF CompletionInv, RecordInv, Under, IsFinish, CancelAnnounced
  <2> QED BY <2>5, <2>6, NothingCompletedYet DEF CompletionInv
<1> QED BY <1>2, <1>3

\* The last event of a run tells the truth about it.
LEMMA CompleteKeepsRecord ==
    ASSUME TypeOK, ProgressInv, CompletionInv, Complete
    PROVE  CompletionInv'
<1> DEFINE e == RunCompleted(CompletedStatus)
<1>1. /\ phase = "complete" /\ phase' = "ended" /\ Emit(<<e>>) /\ Under
      /\ UNCHANGED <<wf, status, anyFailed, cancelRequested>>
  BY DEF Complete, local, flags, Under
<1>2. e \in Event /\ e.status = CompletedStatus
  BY EventKinds DEF CompletedStatus, Statuses, RunCompleted
<1>3. CASE ~eventsOpen
  BY <1>1, <1>3, SilenceKeepsRecord DEF Emit, Under
<1>4. CASE eventsOpen
  <2> HIDE DEF e
  <2>1. events \in Seq(Event) /\ <<e>> \in Seq(Event) /\ DOMAIN <<e>> = {1} /\ <<e>>[1] = e
    BY <1>2 DEF TypeOK
  <2>2. /\ \A i \in DOMAIN events : i \in DOMAIN events' /\ events'[i] = events[i]
        /\ \A i \in DOMAIN events' : i \notin DOMAIN events => i = Len(events) + 1 /\ events'[i] = e
        /\ Len(events) + 1 \in DOMAIN events'
        /\ DOMAIN events = 1 .. Len(events) /\ DOMAIN events' = 1 .. Len(events')
    <3> DEFINE es == <<e>>
    <3>1. es \in Seq(Event) /\ DOMAIN es = {1} /\ es[1] = e /\ Emit(es)
      BY <1>1, <2>1
    <3> HIDE DEF es
    <3> QED BY <1>4, <2>1, <3>1, EmitAppends
  <2>3. Len(events) \in Nat /\ Len(events') = Len(events) + 1
    <3>1. Len(events) \in Nat /\ Len(events') \in Nat
      BY <1>1, <2>1, EmitKeepsType, LenProperties
    <3>2. Len(events') >= Len(events) + 1
      BY <2>2, <3>1
    <3>3. Len(events') \in DOMAIN events' /\ Len(events') \notin DOMAIN events
      BY <2>2, <3>1, <3>2
    <3> QED BY <2>2, <3>1, <3>3
  <2>4. \A i \in DOMAIN events : events[i].type # "RunCompleted"
    BY <1>1 DEF CompletionInv, RecordInv, Said, Range
  <2>5. ASSUME NEW i \in DOMAIN events', events'[i].type = "RunCompleted"
        PROVE  LET before == {events'[j] : j \in 1 .. (i - 1)}
                   canceled == RunStatusChanged("CancelRequested") \in before
                   failed == ~wf.planned \/ \E x \in before : x.type = "StepFinished" /\ x.status = "Failed"
               IN  /\ i = Len(events')
                   /\ events'[i].status = (IF canceled THEN "Canceled" ELSE IF failed THEN "Failed" ELSE "Succeeded")
                   /\ wf.planned /\ ~canceled =>
                          \A s \in Planned : \E x \in before : IsFinish(x, s)
    <3> DEFINE before == {events'[j] : j \in 1 .. (i - 1)}
    <3>1. i = Len(events) + 1 /\ events'[i] = e
      BY <2>2, <2>4, <2>5
    <3>2. 1 .. (i - 1) = DOMAIN events
      BY <2>2, <2>3, <3>1
    <3>3. before = Said
      BY <2>2, <3>2 DEF Said, Range
    <3>4. wf.planned
      BY <1>1 DEF ProgressInv
    <3>5. /\ cancelRequested <=> CancelAnnounced \in before
          /\ anyFailed <=> \E x \in before : x.type = "StepFinished" /\ x.status = "Failed"
          /\ \A s \in Steps : status[s] # "pending" => \E x \in before : IsFinish(x, s)
      <4> HIDE DEF before
      <4> QED BY <1>1, <3>3 DEF CompletionInv, RecordInv
    <3>6. ~cancelRequested => \A s \in Planned : s \in Steps /\ status[s] # "pending"
      <4>1. ~cancelRequested => \A k \in Places : status[wf.order[k]] # "pending"
        BY <1>1 DEF ProgressInv
      <4>2. \A k \in Places : wf.order[k] \in Steps
        BY <3>4, PlanIsInjective
      <4> QED BY <4>1, <4>2 DEF Planned, Places, Range
    <3> HIDE DEF before
    <3>7. ~cancelRequested => \A s \in Planned : \E x \in before : IsFinish(x, s)
      BY <3>5, <3>6
    <3>8. events'[i].status =
            (IF CancelAnnounced \in before THEN "Canceled"
             ELSE IF ~wf.planned \/ \E x \in before : x.type = "StepFinished" /\ x.status = "Failed"
             THEN "Failed" ELSE "Succeeded")
      BY <1>2, <3>1, <3>4, <3>5 DEF CompletedStatus
    <3> QED BY <2>3, <3>1, <3>5, <3>7, <3>8 DEF before, CancelAnnounced
  <2>6. CompletionIsTruthful'
    BY <1>1, <2>5 DEF CompletionIsTruthful, Planned, IsFinish
  <2>7. RecordInv'
    BY <1>1 DEF RecordInv, Under
  <2> QED BY <2>6, <2>7 DEF CompletionInv
<1> QED BY <1>3, <1>4

\* So does the only thing that a run of a refused workflow says.
LEMMA RefusalKeepsRecord ==
    ASSUME TypeOK, events = <<>>, eventsOpen, ~wf.planned, UNCHANGED wf, phase' = "ended",
           Emit(<<RunStarted, RunStatusChanged("Failed"), RunCompleted("Failed")>>)
    PROVE  CompletionInv'
<1>1. events' = <<RunStarted, RunStatusChanged("Failed"), RunCompleted("Failed")>>
  <2> DEFINE es == <<RunStarted, RunStatusChanged("Failed"), RunCompleted("Failed")>>
  <2>1. es \in Seq(Event)
    BY EventKinds DEF Statuses
  <2>2. Emit(es)
    OBVIOUS
  <2> HIDE DEF es
  <2>3. events' = es
    BY <2>1, <2>2, ConcatEmptySeq DEF Emit
  <2> QED BY <2>3 DEF es
<1>2. /\ DOMAIN events' = {1, 2, 3} /\ Len(events') = 3
      /\ events'[1].type = "RunStarted" /\ events'[2] = RunStatusChanged("Failed")
      /\ events'[3] = RunCompleted("Failed")
  BY <1>1 DEF RunStarted
<1>3. ASSUME NEW i \in DOMAIN events', events'[i].type = "RunCompleted"
      PROVE  i = 3
  BY <1>2, <1>3 DEF RunStatusChanged
<1>4. RunStatusChanged("CancelRequested") \notin {events'[j] : j \in 1 .. 2}
  BY <1>2 DEF RunStatusChanged
<1>5. CompletionIsTruthful'
  <2>1. events'[3].status = "Failed" /\ ~wf'.planned /\ 3 - 1 = 2
    BY <1>2 DEF RunCompleted
  <2> QED BY <1>2, <1>3, <1>4, <2>1 DEF CompletionIsTruthful
<1> QED BY <1>5 DEF CompletionInv, RecordInv, Under

\* A run that has just been asked for has said nothing, and nothing of it is false.
LEMMA CreatedRecord == Created => CompletionInv
<1> SUFFICES ASSUME Created PROVE CompletionInv
  OBVIOUS
<1>1. Said = {} /\ \A s \in Steps : status[s] = "pending"
  BY DEF Created, Said, Range
<1> QED BY <1>1, NothingCompletedYet DEF Created, CompletionInv, RecordInv

\* Every step keeps the record true.
LEMMA CompletionStep == TypeOK /\ ProgressInv /\ CompletionInv /\ [Next]_vars => CompletionInv'
<1> SUFFICES ASSUME TypeOK, ProgressInv, CompletionInv, [Next]_vars PROVE CompletionInv'
  OBVIOUS
<1>1. CASE Begin
  <2>1. /\ phase = "created" /\ events = <<>> /\ Under
        /\ UNCHANGED <<wf, status, anyFailed, cancelRequested>>
    BY <1>1 DEF Begin, local, flags, ProgressInv, Under
  <2>2. CASE UNCHANGED events /\ phase' = "ended"
    BY <2>1, <2>2, SilenceKeepsRecord DEF Under
  <2>3. CASE /\ eventsOpen /\ ~wf.planned /\ phase' = "ended"
             /\ Emit(<<RunStarted, RunStatusChanged("Failed"), RunCompleted("Failed")>>)
    BY <2>1, <2>3, RefusalKeepsRecord
  <2>4. CASE /\ eventsOpen /\ Emit(<<RunStarted, RunStatusChanged("Running")>>)
             /\ phase' \in {"complete", "top"}
    <3> DEFINE es == <<RunStarted, RunStatusChanged("Running")>>
    <3>1. es \in Seq(Event) /\ Emit(es)
      BY <2>4, EventKinds DEF Statuses
    <3>2. \A x \in Range(es) : /\ x.type \notin {"StepFinished", "RunCompleted"}
                               /\ x # CancelAnnounced
      BY DEF Range, RunStarted, RunStatusChanged, CancelAnnounced
    <3> HIDE DEF es
    <3> QED BY <2>1, <2>4, <3>1, <3>2, AsidesKeepRecord
  <2> QED BY <1>1, <2>2, <2>3, <2>4 DEF Begin
<1>2. CASE Drain \/ AwaitCommand
  BY <1>2, ProcessCommandKeepsRecord DEF Drain, AwaitCommand, Waiting, Under
<1>3. CASE EndDrain \/ EndWait
  BY <1>3, SilenceKeepsRecord DEF EndDrain, EndWait, Waiting, Proceed, NextIteration, flags, Under
<1>4. CASE SkipBlocked \/ SkipByCondition \/ FailUnresolved
  <2>1. PICK st \in Outcomes : SettleUnstarted(st) /\ phase = "prepare"
    BY <1>4 DEF SkipBlocked, SkipByCondition, FailUnresolved, Outcomes
  <2>2. /\ Settle(st, "null", 0, <<>>, <<>>) /\ (~eventsOpen => phase' = "aborted")
        /\ phase' # "ended" /\ UNCHANGED <<wf, cancelRequested>>
    BY <2>1 DEF SettleUnstarted, NextIteration, flags
  <2>3. "null" \in Outputs /\ <<>> \in Seq(Event) /\ Range(<<>>) = {} /\ pos \in DOMAIN wf.order
    BY <2>1, EmptySeq DEF Outputs, Range, TypeOK, InLoop
  <2> QED BY <2>1, <2>2, <2>3, SettleKeepsRecord DEF Under
<1>5. CASE StartStep \/ RepeatAgain
  <2>1. /\ phase \in {"prepare", "execute"} /\ phase' = "execute"
        /\ UNCHANGED <<wf, status, anyFailed, cancelRequested>>
    BY <1>5 DEF StartStep, RepeatAgain, flags
  <2>2. PICK e \in {StepStarted(pos - 1, Step), StepAttempt(Step, attempts + 1)} : Emit(<<e>>)
    BY <1>5 DEF StartStep, RepeatAgain
  <2>3. e \in Event /\ e.type \in {"StepStarted", "StepAttempt"}
    <3>1. Step \in Steps /\ pos - 1 \in Nat /\ attempts + 1 \in Nat
      BY <2>1, StepIsAStep DEF TypeOK, InLoop
    <3>2. StepStarted(pos - 1, Step) \in Event /\ StepAttempt(Step, attempts + 1) \in Event
      BY <3>1, EventKinds
    <3>3. StepStarted(pos - 1, Step).type = "StepStarted" /\ StepAttempt(Step, attempts + 1).type = "StepAttempt"
      BY DEF StepStarted, StepAttempt
    <3> QED BY <2>2, <3>2, <3>3
  <2>4. CancelAnnounced.type = "RunStatusChanged"
    BY DEF CancelAnnounced, RunStatusChanged
  <2>5. <<e>> \in Seq(Event) /\ Range(<<e>>) = {e}
    BY <2>3 DEF Range
  <2> QED BY <2>1, <2>2, <2>3, <2>4, <2>5, AsidesKeepRecord
<1>6. CASE RunStep
  <2>1. PICK r \in CommandResults : SettleExecuted(r, r.status, 1, <<>>)
    BY <1>6 DEF RunStep
  <2>2. r \in [status : Outcomes, output : Outputs] /\ r.status \in Outcomes
    BY DEF CommandResults, Outcomes, Outputs
  <2>3. <<>> \in Seq(Event) /\ Range(<<>>) = {}
    BY EmptySeq DEF Range
  <2> QED BY <1>6, <2>1, <2>2, <2>3, SettleExecutedKeepsRecord DEF RunStep
<1>7. CASE RepeatEnd
  <2> DEFINE announced == <<StepAttempt(Step, attempts + 1)>>
  <2>1. PICK r \in AttemptResults(Step), until \in {"holds", "unresolved", "fails"} :
          SettleExecuted(r, IF until = "holds" THEN r.status ELSE "Failed", attempts + 1, announced)
    BY <1>7 DEF RepeatEnd
  <2>2. r \in [status : Outcomes, output : Outputs]
    BY DEF AttemptResults, CommandResults, Outcomes, Outputs
  <2>3. (IF until = "holds" THEN r.status ELSE "Failed") \in Outcomes
    BY <2>2 DEF Outcomes
  <2>4. attempts + 1 \in Nat /\ announced \in Seq(Event) /\ phase = "execute"
    BY <1>7, StepIsAStep, EventKinds DEF RepeatEnd, TypeOK, InLoop
  <2>5. \A x \in Range(announced) : x.type = "StepAttempt"
    BY DEF StepAttempt, Range
  <2> HIDE DEF announced
  <2> QED BY <2>1, <2>2, <2>3, <2>4, <2>5, SettleExecutedKeepsRecord
<1>8. CASE Complete
  BY <1>8, CompleteKeepsRecord
<1>9. CASE SendCommand \/ DropControl \/ DropEvents \/ UNCHANGED vars
  BY <1>9, SilenceKeepsRecord DEF SendCommand, DropControl, DropEvents, vars, local, flags, Under
<1> QED BY <1>1, <1>2, <1>3, <1>4, <1>5, <1>6, <1>7, <1>8, <1>9 DEF Next, RunTask

(* What a run says of itself when it completes is true of everything that   *)
(* it said before: canceled, failed, and every step of the plan settled.    *)
THEOREM CompletionSafety == Spec => []CompletionIsTruthful
<1>1. Init => CompletionInv
  BY CreatedRecord DEF Init
<1>2. CompletionInv => CompletionIsTruthful
  BY DEF CompletionInv
<1> QED BY <1>1, <1>2, CompletionStep, TypeCorrect, ProgressInvariant, PTL DEF Spec

-----------------------------------------------------------------------------
(* Pauses *)

\* The last status that was announced is Paused only while the run is paused.
StatusSaid ==
    \E i \in DOMAIN events :
        /\ events[i].type = "RunStatusChanged"
        /\ \A j \in DOMAIN events : events[j].type = "RunStatusChanged" => j <= i
        /\ events[i].status = "Paused" => paused

\* A run about to start a step is not paused, or has nobody left to resume it.
PauseInv ==
    /\ phase = "prepare" /\ paused => ~controlOpen
    /\ phase \in InLoop => StatusSaid

\* Events that are no statuses leave the last status the last one.
LEMMA AsidesKeepStatus ==
    ASSUME TypeOK, StatusSaid, UNCHANGED paused, NEW es \in Seq(Event), Emit(es),
           \A k \in DOMAIN es : es[k].type # "RunStatusChanged"
    PROVE  StatusSaid'
<1>1. events \in Seq(Event)
  BY DEF TypeOK
<1>2. /\ \A i \in DOMAIN events : i \in DOMAIN events' /\ events'[i] = events[i]
      /\ \A i \in DOMAIN events' : i \notin DOMAIN events => \E k \in DOMAIN es : events'[i] = es[k]
  BY <1>1, EmitAppends
<1>3. PICK i \in DOMAIN events :
          /\ events[i].type = "RunStatusChanged"
          /\ \A j \in DOMAIN events : events[j].type = "RunStatusChanged" => j <= i
          /\ events[i].status = "Paused" => paused
  BY DEF StatusSaid
<1>4. \A j \in DOMAIN events' : events'[j].type = "RunStatusChanged" => j \in DOMAIN events
  BY <1>2
<1> QED BY <1>2, <1>3, <1>4 DEF StatusSaid

\* A status that is announced is the last one.
LEMMA NewsIsLast ==
    ASSUME TypeOK, eventsOpen, NEW es \in Seq(Event), Emit(es), Len(es) \in DOMAIN es,
           NEW st, es[Len(es)] = RunStatusChanged(st), st = "Paused" => paused'
    PROVE  StatusSaid'
<1> DEFINE i == Len(events) + Len(es)
<1>1. events \in Seq(Event) /\ Len(events) \in Nat /\ Len(es) \in Nat /\ DOMAIN es = 1 .. Len(es)
  BY LenProperties DEF TypeOK
<1>2. i \in DOMAIN events' /\ events'[i] = RunStatusChanged(st)
  BY <1>1, EmitAppends
<1>3. \A j \in DOMAIN events' : j <= i
  <2>1. /\ \A j \in DOMAIN events' : j \notin DOMAIN events => \E k \in DOMAIN es : j = Len(events) + k
        /\ DOMAIN events = 1 .. Len(events)
    BY <1>1, EmitAppends
  <2> QED BY <1>1, <2>1
<1>4. RunStatusChanged(st).type = "RunStatusChanged" /\ RunStatusChanged(st).status = st
  BY DEF RunStatusChanged
<1> HIDE DEF i
<1> QED BY <1>2, <1>3, <1>4 DEF StatusSaid

\* Every step of a run keeps to it.
LEMMA StepsKeepPauseInv ==
    ASSUME TypeOK, PauseInv, [Next]_vars
    PROVE  PauseInv'
<1>1. ASSUME UNCHANGED <<paused, events>>, phase' \in InLoop => phase \in InLoop,
             phase' = "prepare" /\ paused => ~controlOpen'
      PROVE  PauseInv'
  BY <1>1 DEF PauseInv, StatusSaid
<1>2. ASSUME NEW es \in Seq(Event), Emit(es), UNCHANGED <<paused, controlOpen>>,
             phase \in InLoop, phase' # "prepare",
             \A k \in DOMAIN es : es[k].type # "RunStatusChanged"
      PROVE  PauseInv'
  BY <1>2, AsidesKeepStatus DEF PauseInv
<1>3. CASE Begin
  <2>1. CASE phase' = "ended"
    BY <2>1 DEF PauseInv, InLoop
  <2>2. CASE phase' # "ended"
    <3> DEFINE es == <<RunStarted, RunStatusChanged("Running")>>
    <3>1. eventsOpen /\ Emit(es) /\ phase' \in {"top", "complete"}
      BY <1>3, <2>2 DEF Begin
    <3>2. es \in Seq(Event) /\ Len(es) \in DOMAIN es /\ es[Len(es)] = RunStatusChanged("Running")
      BY EventKinds DEF Statuses
    <3> HIDE DEF es
    <3>3. StatusSaid'
      BY <3>1, <3>2, NewsIsLast
    <3> QED BY <3>1, <3>3 DEF PauseInv
  <2> QED BY <2>1, <2>2
<1>4. CASE Drain \/ AwaitCommand
  <2>1. ProcessCommand /\ phase \in InLoop \ {"prepare"}
    BY <1>4 DEF Drain, AwaitCommand, Waiting, InLoop
  <2> DEFINE c == Head(control)
             e == RunStatusChanged(StatusOf(c))
  <2>2. CASE ~Accepts(c)
    BY <1>1, <2>1, <2>2 DEF ProcessCommand, flags
  <2>3. CASE Accepts(c) /\ ~eventsOpen
    BY <2>1, <2>3 DEF ProcessCommand, PauseInv, InLoop
  <2>4. CASE Accepts(c) /\ eventsOpen
    <3>1. paused' = (c = "Pause") /\ Emit(<<e>>) /\ phase' = phase
      BY <2>1, <2>4 DEF ProcessCommand
    <3>2. c \in Commands
      BY <2>1, HeadTailProperties DEF ProcessCommand, TypeOK
    <3>3. e \in Event /\ (StatusOf(c) = "Paused" => c = "Pause")
      BY <3>2, EventKinds DEF StatusOf, Commands, Statuses
    <3> DEFINE es == <<e>>
    <3>4. es \in Seq(Event) /\ Len(es) \in DOMAIN es /\ es[Len(es)] = e /\ Emit(es)
      <4> HIDE DEF e
      <4> QED BY <3>1, <3>3
    <3> HIDE DEF es
    <3>5. StatusSaid'
      BY <2>4, <3>1, <3>3, <3>4, NewsIsLast
    <3> QED BY <2>1, <3>1, <3>5 DEF PauseInv
  <2> QED BY <2>2, <2>3, <2>4
<1>5. CASE EndDrain \/ EndWait
  <2>1. UNCHANGED <<paused, events, controlOpen>> /\ phase \in InLoop
    BY <1>5 DEF EndDrain, EndWait, Waiting, flags, channels, InLoop
  <2>2. phase' = "prepare" /\ paused => ~controlOpen
    BY <1>5 DEF EndDrain, EndWait, WaitIsOver, Proceed, NextIteration
  <2> QED BY <1>1, <2>1, <2>2
<1>6. CASE SkipBlocked \/ SkipByCondition \/ FailUnresolved
  <2>1. PICK st \in Outcomes : SettleUnstarted(st) /\ phase = "prepare"
    BY <1>6 DEF SkipBlocked, SkipByCondition, FailUnresolved, Outcomes
  <2> DEFINE e == StepFinished(Step, st, "null", 0)
             es == <<>> \o <<e>> \o <<>>
  <2>2. Emit(es) /\ UNCHANGED <<paused, controlOpen>> /\ phase' # "prepare"
    BY <2>1 DEF SettleUnstarted, Settle, flags, channels, NextIteration
  <2>3. e \in Event /\ e.type = "StepFinished"
    BY <2>1, StepIsAStep, EventKinds DEF TypeOK, InLoop, Outputs, StepFinished
  <2> HIDE DEF e
  <2>4. es \in Seq(Event) /\ \A k \in DOMAIN es : es[k].type # "RunStatusChanged"
    BY <2>3, SettleEvents, EmptySeq DEF Range
  <2> HIDE DEF es
  <2> QED BY <1>2, <2>1, <2>2, <2>4 DEF InLoop
<1>7. CASE StartStep \/ RepeatAgain
  <2>1. /\ phase \in {"prepare", "execute"} /\ phase' = "execute" /\ UNCHANGED <<paused, controlOpen>>
    BY <1>7 DEF StartStep, RepeatAgain, flags, channels
  <2>2. PICK e \in {StepStarted(pos - 1, Step), StepAttempt(Step, attempts + 1)} : Emit(<<e>>)
    BY <1>7 DEF StartStep, RepeatAgain
  <2>3. e \in Event /\ e.type # "RunStatusChanged"
    <3>1. Step \in Steps /\ pos - 1 \in Nat /\ attempts + 1 \in Nat
      BY <2>1, StepIsAStep DEF TypeOK, InLoop
    <3>2. StepStarted(pos - 1, Step) \in Event /\ StepAttempt(Step, attempts + 1) \in Event
      BY <3>1, EventKinds
    <3>3. StepStarted(pos - 1, Step).type = "StepStarted" /\ StepAttempt(Step, attempts + 1).type = "StepAttempt"
      BY DEF StepStarted, StepAttempt
    <3> QED BY <2>2, <3>2, <3>3
  <2>4. <<e>> \in Seq(Event) /\ \A k \in DOMAIN <<e>> : <<e>>[k].type # "RunStatusChanged"
    BY <2>3
  <2> QED BY <1>2, <2>1, <2>2, <2>4 DEF InLoop
<1>8. ASSUME phase = "execute", NEW r \in [status : Outcomes, output : Outputs],
             NEW st \in Outcomes, NEW n \in Nat, NEW announced \in Seq(Event),
             SettleExecuted(r, st, n, announced), \A x \in Range(announced) : x.type = "StepAttempt"
      PROVE  PauseInv'
  <2> DEFINE e == StepFinished(Step, st, r.output, n)
             after == IF st = "Succeeded" THEN <<RunOutputAccumulated(Step, r.output)>> ELSE <<>>
             es == announced \o <<e>> \o after
  <2>1. Emit(es) /\ UNCHANGED <<paused, controlOpen>> /\ phase' # "prepare"
    BY <1>8 DEF SettleExecuted, Settle, flags, channels
  <2>2. Step \in Steps
    BY <1>8, StepIsAStep DEF TypeOK, InLoop
  <2>3. e \in Event /\ e.type = "StepFinished"
    BY <2>2, EventKinds DEF StepFinished
  <2>4. after \in Seq(Event) /\ \A x \in Range(after) : x.type = "RunOutputAccumulated"
    BY <2>2, EventKinds, EmptySeq DEF Range, RunOutputAccumulated
  <2> HIDE DEF e, after
  <2>5. es \in Seq(Event) /\ \A k \in DOMAIN es : es[k].type # "RunStatusChanged"
    BY <1>8, <2>3, <2>4, SettleEvents
  <2> HIDE DEF es
  <2> QED BY <1>2, <1>8, <2>1, <2>5 DEF InLoop
<1>9. CASE RunStep
  <2>1. PICK r \in CommandResults : SettleExecuted(r, r.status, 1, <<>>)
    BY <1>9 DEF RunStep
  <2>2. r \in [status : Outcomes, output : Outputs] /\ r.status \in Outcomes
    BY DEF CommandResults, Outcomes, Outputs
  <2>3. <<>> \in Seq(Event) /\ Range(<<>>) = {}
    BY EmptySeq DEF Range
  <2> QED BY <1>8, <1>9, <2>1, <2>2, <2>3 DEF RunStep
<1>10. CASE RepeatEnd
  <2> DEFINE announced == <<StepAttempt(Step, attempts + 1)>>
  <2>1. PICK r \in AttemptResults(Step), until \in {"holds", "unresolved", "fails"} :
          SettleExecuted(r, IF until = "holds" THEN r.status ELSE "Failed", attempts + 1, announced)
    BY <1>10 DEF RepeatEnd
  <2>2. r \in [status : Outcomes, output : Outputs]
    BY DEF AttemptResults, CommandResults, Outcomes, Outputs
  <2>3. (IF until = "holds" THEN r.status ELSE "Failed") \in Outcomes
    BY <2>2 DEF Outcomes
  <2>4. attempts + 1 \in Nat /\ announced \in Seq(Event) /\ phase = "execute"
    BY <1>10, StepIsAStep, EventKinds DEF RepeatEnd, TypeOK, InLoop
  <2>5. \A x \in Range(announced) : x.type = "StepAttempt"
    BY DEF StepAttempt, Range
  <2> HIDE DEF announced
  <2> QED BY <1>8, <2>1, <2>2, <2>3, <2>4, <2>5
<1>11. CASE Complete
  BY <1>11 DEF Complete, PauseInv, InLoop
<1>12. CASE SendCommand \/ DropControl \/ DropEvents \/ UNCHANGED vars
  <2>1. UNCHANGED <<paused, events, phase>> /\ (~controlOpen => ~controlOpen')
    BY <1>12 DEF SendCommand, DropControl, DropEvents, vars, flags, channels
  <2> QED BY <1>1, <2>1 DEF PauseInv
<1> QED BY <1>3, <1>4, <1>5, <1>6, <1>7, <1>9, <1>10, <1>11, <1>12 DEF Next, RunTask

(* While somebody is left who can resume the run, no step starts after      *)
(* Paused was announced.                                                   *)
THEOREM PauseSafety == Spec => PauseHoldsWhileControlled
<1>1. Init => PauseInv
  BY DEF Init, Created, PauseInv, InLoop
<1>2. TypeOK /\ PauseInv /\ [Next]_vars => PauseInv'
  BY StepsKeepPauseInv
<1>3. TypeOK /\ PauseInv /\ [Next]_vars =>
          [phase' = "execute" /\ phase # "execute" /\ LastStatus = "Paused" => ~controlOpen]_vars
  <2> SUFFICES ASSUME TypeOK, PauseInv, Next, phase' = "execute", phase # "execute",
                      LastStatus = "Paused", controlOpen
               PROVE  FALSE
    OBVIOUS
  <2>1. phase = "prepare"
    BY DEF Next, RunTask, Begin, Drain, AwaitCommand, ProcessCommand, EndDrain, EndWait, Waiting,
           Proceed, NextIteration, SkipBlocked, SkipByCondition, FailUnresolved, SettleUnstarted,
           StartStep, RunStep, RepeatAgain, RepeatEnd, SettleExecuted, Complete, SendCommand,
           DropControl, DropEvents
  <2>2. PICK i \in DOMAIN events :
            /\ events[i].type = "RunStatusChanged"
            /\ \A j \in DOMAIN events : events[j].type = "RunStatusChanged" => j <= i
            /\ events[i].status = "Paused" => paused
    BY <2>1 DEF PauseInv, StatusSaid, InLoop
  <2> DEFINE changes == {k \in DOMAIN events : events[k].type = "RunStatusChanged"}
  <2>3. i \in changes /\ \A j \in changes : j <= i
    BY <2>2
  <2>4. changes \subseteq Nat
    BY LenProperties DEF TypeOK
  <2>5. \A k \in changes : (\A j \in changes : j <= k) => k = i
    <3> HIDE DEF changes
    <3> QED BY <2>3, <2>4
  <2>6. (CHOOSE k \in changes : \A j \in changes : j <= k) = i
    <3> HIDE DEF changes
    <3> QED BY <2>3, <2>5
  <2>7. events[i].status = "Paused"
    BY <2>6 DEF LastStatus
  <2> QED BY <2>1, <2>2, <2>7 DEF PauseInv
<1> QED BY <1>1, <1>2, <1>3, TypeCorrect, PTL DEF Spec, PauseHoldsWhileControlled

-----------------------------------------------------------------------------
(* A cancel sent while a step executes *)

CancelSent == "Cancel" \in Range(control)

\* The step s executes with a cancel waiting in the channel, or the drain that
\* follows it finds the cancel, or nothing is executed any more.
LettingGo(s) ==
    \/ phase = "execute" /\ Step = s /\ CancelSent
    \/ phase = "after" /\ (CancelSent \/ cancelRequested)
    \/ phase \in {"complete", "ended", "aborted"}

\* A queue keeps what is not at its head when the head is taken, and what is in
\* it when something is appended.
LEMMA QueueKeeps ==
    ASSUME NEW S, NEW q \in Seq(S), NEW x \in Range(q)
    PROVE  /\ q # <<>> /\ x # Head(q) => x \in Range(Tail(q))
           /\ \A y \in S : x \in Range(Append(q, y))
<1>1. PICK i \in DOMAIN q : q[i] = x
  BY DEF Range
<1>2. DOMAIN q = 1 .. Len(q) /\ Len(q) \in Nat
  BY LenProperties
<1>3. ASSUME q # <<>>, x # Head(q)
      PROVE  x \in Range(Tail(q))
  <2>1. /\ Len(Tail(q)) = Len(q) - 1 /\ \A j \in 1 .. Len(Tail(q)) : Tail(q)[j] = q[j + 1]
        /\ Tail(q) \in Seq(S) /\ Head(q) = q[1]
    BY <1>3, HeadTailProperties
  <2>2. i # 1
    BY <1>1, <1>3, <2>1
  <2>3. i - 1 \in DOMAIN Tail(q) /\ Tail(q)[i - 1] = x
    BY <1>1, <1>2, <2>1, <2>2, LenProperties
  <2> QED BY <2>3 DEF Range
<1>4. ASSUME NEW y \in S
      PROVE  x \in Range(Append(q, y))
  <2>1. Append(q, y)[i] = x /\ i \in DOMAIN Append(q, y)
    BY <1>1, <1>2, AppendProperties
  <2> QED BY <2>1 DEF Range
<1> QED BY <1>3, <1>4

\* Once a cancel waits for the step to end, no step of the run undoes it.
LEMMA LettingGoIsKept ==
    ASSUME TypeOK, NEW s \in Steps, LettingGo(s), [Next]_vars
    PROVE  LettingGo(s)'
<1>1. CASE Drain
  <2>1. /\ ProcessCommand /\ phase = "after"
    BY <1>1 DEF Drain, LettingGo
  <2>2. control # <<>> /\ control' = Tail(control) /\ control \in Seq(Commands)
    BY <2>1 DEF ProcessCommand, TypeOK
  <2>3. CASE ~cancelRequested /\ Head(control) = "Cancel"
    BY <2>1, <2>3 DEF ProcessCommand, Accepts, LettingGo
  <2>4. CASE cancelRequested
    BY <2>1, <2>4 DEF ProcessCommand, LettingGo, flags
  <2>5. CASE ~cancelRequested /\ Head(control) # "Cancel"
    <3>1. CancelSent'
      BY <2>1, <2>2, <2>5, QueueKeeps DEF LettingGo, CancelSent
    <3> QED BY <2>1, <3>1 DEF ProcessCommand, LettingGo
  <2> QED BY <2>3, <2>4, <2>5
<1>2. CASE EndDrain
  <2>1. phase = "after" /\ ~CancelSent
    BY <1>2 DEF EndDrain, Drained, LettingGo, CancelSent, Range
  <2> QED BY <1>2, <2>1 DEF EndDrain, LettingGo
<1>3. CASE RunStep \/ RepeatEnd
  <2>1. /\ phase = "execute" /\ phase' \in {"after", "aborted"} /\ UNCHANGED control
    BY <1>3 DEF RunStep, RepeatEnd, SettleExecuted, channels
  <2> QED BY <2>1 DEF LettingGo, CancelSent
<1>4. CASE RepeatAgain
  BY <1>4 DEF RepeatAgain, LettingGo, CancelSent, Step, channels
<1>5. CASE Complete
  BY <1>5 DEF Complete, LettingGo
<1>6. CASE SendCommand
  <2>1. CancelSent => CancelSent'
    BY <1>6, QueueKeeps DEF SendCommand, CancelSent, TypeOK
  <2> QED BY <1>6, <2>1 DEF SendCommand, LettingGo, Step, local, flags
<1>7. CASE DropControl \/ DropEvents \/ UNCHANGED vars
  BY <1>7 DEF DropControl, DropEvents, vars, LettingGo, CancelSent, Step, local, flags, channels
<1>8. ~(Begin \/ AwaitCommand \/ EndWait \/ SkipBlocked \/ SkipByCondition \/ FailUnresolved \/ StartStep)
  BY DEF Begin, AwaitCommand, EndWait, Waiting, SkipBlocked, SkipByCondition, FailUnresolved,
         StartStep, LettingGo
<1> QED BY <1>1, <1>2, <1>3, <1>4, <1>5, <1>6, <1>7, <1>8 DEF Next, RunTask

(* A cancel sent while a step executes lets no other step start.            *)
THEOREM CancelStops == Spec => CancelStopsAtTheStep
<1> SUFFICES ASSUME NEW s \in Steps
             PROVE  Spec => []( phase = "execute" /\ Step = s /\ "Cancel" \in Range(control)
                                => [](phase = "execute" => Step = s) )
  BY DEF CancelStopsAtTheStep
<1>1. phase = "execute" /\ Step = s /\ "Cancel" \in Range(control) => LettingGo(s)
  BY DEF LettingGo, CancelSent
<1>2. TypeOK /\ LettingGo(s) /\ [Next]_vars => LettingGo(s)'
  BY LettingGoIsKept
<1>3. LettingGo(s) => (phase = "execute" => Step = s)
  BY DEF LettingGo
<1> QED BY <1>1, <1>2, <1>3, TypeCorrect, PTL DEF Spec

-----------------------------------------------------------------------------
(* Attempts *)

AttemptsOf(s) == {j \in DOMAIN events : events[j].type = "StepAttempt" /\ events[j].step = s}

\* The loop has not come to the execution of the step at place i of the plan.
Untried(i) == i > pos \/ (i = pos /\ phase \in {"created", "top", "waitTop", "prepare"})

\* What is announced of a step are the attempts made of it, never as many as
\* allowed before the last.
AttemptInv ==
    /\ AttemptsAccounted
    /\ Under => \A i \in Places : Untried(i) => AttemptsOf(wf.order[i]) = {}
    /\ phase = "execute" /\ Step \in wf.repeats =>
          /\ attempts < AttemptLimit(Step)
          /\ eventsOpen => attempts = Cardinality(AttemptsOf(Step))

\* At least one attempt is allowed.
LEMMA LimitIsPositive ==
    ASSUME TypeOK, NEW s \in Steps
    PROVE  AttemptLimit(s) \in Nat /\ AttemptLimit(s) >= 1
<1>1. wf.limit[s] \in Nat /\ MaxRepeatAttempts \in Nat \ {0}
  BY RunAssumption DEF TypeOK, Workflow
<1> QED BY <1>1 DEF AttemptLimit

\* The attempts announced are finitely many, so that they can be counted.
LEMMA AttemptsAreFinite ==
    ASSUME TypeOK, NEW s
    PROVE  IsFiniteSet(AttemptsOf(s)) /\ Len(events) \in Nat /\ DOMAIN events = 1 .. Len(events)
<1>1. Len(events) \in Nat /\ DOMAIN events = 1 .. Len(events)
  BY LenProperties DEF TypeOK
<1>2. IsFiniteSet(1 .. Len(events))
  BY <1>1, FS_Interval
<1>3. AttemptsOf(s) \in SUBSET (1 .. Len(events))
  BY <1>1 DEF AttemptsOf
<1> QED BY <1>1, <1>2, <1>3, FS_Subset

\* The attempts of a step that other steps' events do not concern.
LEMMA EmitKeepsAttempts ==
    ASSUME TypeOK, NEW es \in Seq(Event), Emit(es), NEW s,
           \A k \in DOMAIN es : es[k].type = "StepAttempt" => es[k].step # s
    PROVE  AttemptsOf(s)' = AttemptsOf(s)
<1>1. events \in Seq(Event)
  BY DEF TypeOK
<1>2. /\ \A i \in DOMAIN events : i \in DOMAIN events' /\ events'[i] = events[i]
      /\ \A i \in DOMAIN events' : i \notin DOMAIN events => \E k \in DOMAIN es : events'[i] = es[k]
  BY <1>1, EmitAppends
<1> QED BY <1>2 DEF AttemptsOf

\* Accounts that were right stay so, when every end of a repeated step that is
\* now said says what was announced before it.
LEMMA EmitKeepsAccounts ==
    ASSUME TypeOK, AttemptsAccounted, UNCHANGED wf, NEW es \in Seq(Event), Emit(es),
           \A i \in DOMAIN events' :
               i \notin DOMAIN events /\ events'[i].type = "StepFinished" /\ events'[i].step \in wf.repeats =>
                   LET s == events'[i].step IN
                   /\ events'[i].attempts =
                        Cardinality({j \in 1 .. (i - 1) : events'[j].type = "StepAttempt" /\ events'[j].step = s})
                   /\ events'[i].attempts <= AttemptLimit(s)
    PROVE  AttemptsAccounted'
<1>1. events \in Seq(Event) /\ Len(events) \in Nat
  BY LenProperties DEF TypeOK
<1>2. /\ \A i \in DOMAIN events : i \in DOMAIN events' /\ events'[i] = events[i]
      /\ DOMAIN events = 1 .. Len(events)
  BY <1>1, EmitAppends
<1>3. \A s : AttemptLimit(s)' = AttemptLimit(s)
  BY DEF AttemptLimit
<1>4. ASSUME NEW i \in DOMAIN events', events'[i].type = "StepFinished", events'[i].step \in wf.repeats
      PROVE  LET s == events'[i].step IN
             /\ events'[i].attempts =
                  Cardinality({j \in 1 .. (i - 1) : events'[j].type = "StepAttempt" /\ events'[j].step = s})
             /\ events'[i].attempts <= AttemptLimit(s)
  <2>1. CASE i \in DOMAIN events
    <3> DEFINE s == events[i].step
    <3>1. \A j \in 1 .. (i - 1) : events'[j] = events[j]
      BY <1>1, <1>2, <2>1
    <3>2. {j \in 1 .. (i - 1) : events'[j].type = "StepAttempt" /\ events'[j].step = s}
            = {j \in 1 .. (i - 1) : events[j].type = "StepAttempt" /\ events[j].step = s}
      BY <3>1
    <3>3. /\ events[i].attempts =
               Cardinality({j \in 1 .. (i - 1) : events[j].type = "StepAttempt" /\ events[j].step = s})
          /\ events[i].attempts <= AttemptLimit(s)
      BY <1>2, <1>4, <2>1 DEF AttemptsAccounted
    <3> QED BY <1>2, <2>1, <3>2, <3>3
  <2>2. CASE i \notin DOMAIN events
    BY <1>4, <2>2
  <2> QED BY <2>1, <2>2
<1> QED BY <1>3, <1>4 DEF AttemptsAccounted

\* Where the events around the end of a step stand.
LEMMA SettlePlaces ==
    ASSUME NEW e \in Event, NEW before \in Seq(Event), NEW after \in Seq(Event)
    PROVE  LET es == before \o <<e>> \o after IN
           /\ es \in Seq(Event) /\ Len(before) \in Nat
           /\ \A k \in DOMAIN es :
                  \/ k \in DOMAIN before /\ es[k] = before[k]
                  \/ k = Len(before) + 1 /\ es[k] = e
                  \/ es[k] \in Range(after)
           /\ \A k \in DOMAIN before : k \in DOMAIN es /\ es[k] = before[k]
<1> DEFINE es == before \o <<e>> \o after
<1> DEFINE t == <<e>>
           u == before \o t
<1>1. t \in Seq(Event) /\ Len(t) = 1 /\ t[1] = e
  OBVIOUS
<1>2. u \in Seq(Event) /\ Len(u) = Len(before) + 1 /\ Len(before) \in Nat
      /\ \A k \in 1 .. Len(before) + 1 : u[k] = IF k <= Len(before) THEN before[k] ELSE e
  <2> HIDE DEF t
  <2>1. u \in Seq(Event) /\ Len(u) = Len(before) + 1 /\ Len(before) \in Nat
    <3>1. before \o t \in Seq(Event) /\ Len(before \o t) = Len(before) + Len(t)
      BY <1>1, ConcatProperties
    <3>2. Len(before) \in Nat
      BY LenProperties
    <3> QED BY <1>1, <3>1, <3>2
  <2>2. \A k \in 1 .. Len(before) + 1 : u[k] = IF k <= Len(before) THEN before[k] ELSE t[k - Len(before)]
    BY <1>1, ConcatProperties
  <2>3. ASSUME NEW k \in 1 .. Len(before) + 1
        PROVE  u[k] = IF k <= Len(before) THEN before[k] ELSE e
    <3>1. k <= Len(before) \/ k - Len(before) = 1
      BY <2>1
    <3> QED BY <1>1, <2>2, <3>1
  <2> QED BY <2>1, <2>3
<1>3. es = u \o after
  OBVIOUS
<1> HIDE DEF u, t, es
<1>4. /\ es \in Seq(Event) /\ Len(es) = Len(before) + 1 + Len(after) /\ Len(after) \in Nat
      /\ DOMAIN es = 1 .. Len(es) /\ DOMAIN before = 1 .. Len(before) /\ DOMAIN after = 1 .. Len(after)
  <2>1. es \in Seq(Event) /\ Len(es) = Len(u) + Len(after)
    BY <1>2, <1>3, ConcatProperties
  <2> QED BY <1>2, <2>1, LenProperties
<1>5. \A k \in 1 .. Len(u) + Len(after) : es[k] = IF k <= Len(u) THEN u[k] ELSE after[k - Len(u)]
  BY <1>2, <1>3, ConcatProperties
<1>6. ASSUME NEW k \in DOMAIN es
      PROVE  \/ k \in DOMAIN before /\ es[k] = before[k]
             \/ k = Len(before) + 1 /\ es[k] = e
             \/ es[k] \in Range(after)
  <2>1. CASE k <= Len(u)
    BY <1>2, <1>4, <1>5, <2>1
  <2>2. CASE k > Len(u)
    <3>1. k - Len(u) \in DOMAIN after /\ es[k] = after[k - Len(u)]
      BY <1>2, <1>4, <1>5, <2>2
    <3> QED BY <3>1 DEF Range
  <2> QED BY <1>2, <1>4, <2>1, <2>2
<1>7. \A k \in DOMAIN before : k \in DOMAIN es /\ es[k] = before[k]
  BY <1>2, <1>4, <1>5
<1> QED BY <1>2, <1>4, <1>6, <1>7 DEF es

\* The end of a step: its account is right if it counts what was announced, and
\* nothing else is concerned.
LEMMA SettleKeepsAccounts ==
    ASSUME TypeOK, AttemptsAccounted, pos \in DOMAIN wf.order,
           NEW st \in Outcomes, NEW o \in Outputs, NEW n \in Nat,
           NEW before \in {<<>>, <<StepAttempt(Step, n)>>}, NEW after \in Seq(Event),
           \A x \in Range(after) : x.type \notin {"StepFinished", "StepAttempt"},
           Settle(st, o, n, before, after), UNCHANGED wf,
           eventsOpen /\ Step \in wf.repeats =>
               n = Cardinality(AttemptsOf(Step)) + Len(before) /\ n <= AttemptLimit(Step)
    PROVE  /\ AttemptsAccounted'
           /\ \A s : s # Step => AttemptsOf(s)' = AttemptsOf(s)
<1> DEFINE e == StepFinished(Step, st, o, n)
           es == before \o <<e>> \o after
<1>1. Step \in Steps /\ e \in Event /\ StepAttempt(Step, n) \in Event
  BY StepIsAStep, EventKinds
<1>2. before \in Seq(Event) /\ Emit(es)
  <2>1. <<StepAttempt(Step, n)>> \in Seq(Event) /\ <<>> \in Seq(Event)
    BY <1>1
  <2>2. Emit(es)
    BY DEF Settle
  <2> QED BY <2>1, <2>2
<1>3. /\ e.type = "StepFinished" /\ e.step = Step /\ e.attempts = n
      /\ StepAttempt(Step, n).type = "StepAttempt" /\ StepAttempt(Step, n).step = Step
  BY DEF StepFinished, StepAttempt
<1> HIDE DEF e
<1>4. /\ es \in Seq(Event) /\ Len(before) \in Nat
      /\ \A k \in DOMAIN es :
             \/ k \in DOMAIN before /\ es[k] = before[k]
             \/ k = Len(before) + 1 /\ es[k] = e
             \/ es[k] \in Range(after)
      /\ \A k \in DOMAIN before : k \in DOMAIN es /\ es[k] = before[k]
  BY <1>1, <1>2, SettlePlaces
<1> HIDE DEF es
<1>5. /\ before = <<>> => DOMAIN before = {} /\ Len(before) = 0
      /\ before # <<>> => DOMAIN before = {1} /\ Len(before) = 1 /\ before[1] = StepAttempt(Step, n)
  OBVIOUS
<1>6. \A k \in DOMAIN es : es[k].type = "StepAttempt" => es[k].step = Step
  BY <1>3, <1>4, <1>5
<1>7. \A s : s # Step => AttemptsOf(s)' = AttemptsOf(s)
  BY <1>2, <1>4, <1>6, EmitKeepsAttempts
<1>8. events \in Seq(Event) /\ Len(events) \in Nat /\ DOMAIN events = 1 .. Len(events)
  BY LenProperties DEF TypeOK
<1>9. /\ \A i \in DOMAIN events : i \in DOMAIN events' /\ events'[i] = events[i]
      /\ \A i \in DOMAIN events' : i \notin DOMAIN events =>
             eventsOpen /\ \E k \in DOMAIN es : i = Len(events) + k /\ events'[i] = es[k]
      /\ eventsOpen => \A k \in DOMAIN es :
             Len(events) + k \in DOMAIN events' /\ events'[Len(events) + k] = es[k]
  BY <1>2, <1>4, <1>8, EmitAppends
<1>10. ASSUME NEW i \in DOMAIN events', i \notin DOMAIN events, events'[i].type = "StepFinished",
              events'[i].step \in wf.repeats
       PROVE  LET s == events'[i].step IN
              /\ events'[i].attempts =
                   Cardinality({j \in 1 .. (i - 1) : events'[j].type = "StepAttempt" /\ events'[j].step = s})
              /\ events'[i].attempts <= AttemptLimit(s)
  <2>1. eventsOpen /\ i = Len(events) + Len(before) + 1 /\ events'[i] = e
    <3>1. PICK k \in DOMAIN es : i = Len(events) + k /\ events'[i] = es[k]
      BY <1>9, <1>10
    <3>2. k \notin DOMAIN before /\ es[k] \notin Range(after)
      BY <1>3, <1>4, <1>5, <1>10, <3>1
    <3>3. k = Len(before) + 1 /\ es[k] = e
      BY <1>4, <3>2
    <3> QED BY <1>4, <1>8, <1>9, <1>10, <3>1, <3>3
  <2>2. n = Cardinality(AttemptsOf(Step)) + Len(before) /\ n <= AttemptLimit(Step)
    BY <1>3, <1>10, <2>1
  <2> DEFINE counted == {j \in 1 .. (i - 1) : events'[j].type = "StepAttempt" /\ events'[j].step = Step}
  <2>3. \A j \in DOMAIN events : events'[j] = events[j]
    BY <1>9
  <2>4. CASE before = <<>>
    <3>1. 1 .. (i - 1) = DOMAIN events
      BY <1>5, <1>8, <2>1, <2>4
    <3>2. counted = AttemptsOf(Step)
      BY <2>3, <3>1 DEF AttemptsOf
    <3>3. Cardinality(AttemptsOf(Step)) \in Nat
      BY AttemptsAreFinite, FS_CardinalityType
    <3> HIDE DEF counted
    <3>4. Cardinality(counted) = n
      BY <1>5, <2>2, <2>4, <3>2, <3>3
    <3> QED BY <1>3, <2>1, <2>2, <3>4 DEF counted
  <2>5. CASE before # <<>>
    <3> DEFINE new == Len(events) + 1
    <3>1. 1 .. (i - 1) = DOMAIN events \cup {new} /\ new \notin DOMAIN events
      <4>1. i - 1 = Len(events) + 1
        <5>1. Len(before) = 1
          BY <1>5, <2>5
        <5> QED BY <1>8, <2>1, <5>1
      <4>2. 1 .. (Len(events) + 1) = (1 .. Len(events)) \cup {Len(events) + 1}
        BY <1>8
      <4> QED BY <1>8, <4>1, <4>2
    <3>2. events'[new] = StepAttempt(Step, n)
      BY <1>4, <1>5, <1>9, <2>1, <2>5
    <3> HIDE DEF new
    <3>3. counted = AttemptsOf(Step) \cup {new} /\ new \notin AttemptsOf(Step)
      BY <1>3, <2>3, <3>1, <3>2 DEF AttemptsOf
    <3> HIDE DEF counted
    <3>4. Cardinality(counted) = Cardinality(AttemptsOf(Step)) + 1
      BY <3>3, AttemptsAreFinite, FS_AddElement
    <3>5. Cardinality(counted) = n
      BY <1>5, <2>2, <2>5, <3>4
    <3> QED BY <1>3, <2>1, <2>2, <3>5 DEF counted
  <2> QED BY <2>4, <2>5
<1>11. AttemptsAccounted'
  BY <1>2, <1>4, <1>10, EmitKeepsAccounts
<1> QED BY <1>7, <1>11

\* A step that settles leaves the steps after it untried.
LEMMA SettleKeepsAttemptInv ==
    ASSUME TypeOK, AttemptInv, wf.planned, Under, pos \in Places, UNCHANGED wf, AttemptsAccounted',
           \A s : s # Step => AttemptsOf(s)' = AttemptsOf(s), phase' # "execute",
           \A i \in Places : Untried(i)' /\ Under' => i > pos
    PROVE  AttemptInv'
<1>1. \A i \in Places : i > pos => wf.order[i] # Step /\ Untried(i)
  <2>1. \A i \in Places : i # pos => wf.order[i] # wf.order[pos]
    BY PlanIsInjective
  <2>2. Places \subseteq Nat
    BY PlanIsInjective
  <2> QED BY <2>1, <2>2 DEF Step, Untried
<1>2. ASSUME Under', NEW i \in Places, Untried(i)'
      PROVE  AttemptsOf(wf.order[i])' = {}
  BY <1>1, <1>2 DEF AttemptInv
<1> QED BY <1>2 DEF AttemptInv, Places, AttemptsOf

\* Declining a step, which was never tried.
LEMMA SettleUnstartedKeepsAttemptInv ==
    ASSUME TypeOK, ProgressInv, AttemptInv, phase = "prepare", NEW st \in Outcomes, SettleUnstarted(st)
    PROVE  AttemptInv'
<1>1. wf.planned /\ pos \in Places /\ pos \in DOMAIN wf.order /\ Under /\ Step \in Steps
  BY StepIsAStep DEF ProgressInv, TypeOK, InLoop, Places, Under
<1>2. /\ Settle(st, "null", 0, <<>>, <<>>) /\ UNCHANGED wf
      /\ phase' = "aborted" \/ NextIteration
  BY DEF SettleUnstarted
<1>3. AttemptsOf(Step) = {}
  BY <1>1 DEF AttemptInv, Untried, Step, TypeOK
<1>4. 0 = Cardinality(AttemptsOf(Step)) + Len(<<>>) /\ 0 <= AttemptLimit(Step)
  BY <1>1, <1>3, FS_EmptySet, LimitIsPositive
<1>5. /\ AttemptsAccounted'
      /\ \A s : s # Step => AttemptsOf(s)' = AttemptsOf(s)
  <2>1. AttemptsAccounted /\ <<>> \in Seq(Event) /\ Range(<<>>) = {} /\ "null" \in Outputs
    BY EmptySeq DEF AttemptInv, Range, Outputs
  <2>2. <<>> \in {<<>>, <<StepAttempt(Step, 0)>>} /\ 0 \in Nat
    OBVIOUS
  <2>3. \A x \in Range(<<>>) : x.type \notin {"StepFinished", "StepAttempt"}
    BY <2>1
  <2>4. eventsOpen /\ Step \in wf.repeats =>
            0 = Cardinality(AttemptsOf(Step)) + Len(<<>>) /\ 0 <= AttemptLimit(Step)
    BY <1>4
  <2> QED BY <1>1, <1>2, <2>1, <2>2, <2>3, <2>4, SettleKeepsAccounts
<1>6. \A i \in Places : Untried(i)' /\ Under' => i > pos
  <2>1. Places \subseteq Nat /\ pos \in Nat
    BY <1>1, PlanIsInjective DEF TypeOK
  <2> QED BY <1>2, <2>1 DEF Untried, Under, NextIteration
<1>7. phase' # "execute"
  BY <1>2 DEF NextIteration
<1> QED BY <1>1, <1>2, <1>5, <1>6, <1>7, SettleKeepsAttemptInv

\* Finishing a step, whose last attempt is announced with it.
LEMMA SettleExecutedKeepsAttemptInv ==
    ASSUME TypeOK, ProgressInv, AttemptInv, phase = "execute",
           NEW r \in [status : Outcomes, output : Outputs], NEW st \in Outcomes, NEW n \in Nat,
           NEW announced \in {<<>>, <<StepAttempt(Step, n)>>}, SettleExecuted(r, st, n, announced),
           Step \in wf.repeats => announced # <<>> /\ n = attempts + 1
    PROVE  AttemptInv'
<1>1. wf.planned /\ pos \in Places /\ pos \in DOMAIN wf.order /\ Under /\ Step \in Steps
  BY StepIsAStep DEF ProgressInv, TypeOK, InLoop, Places, Under
<1> DEFINE after == IF st = "Succeeded" THEN <<RunOutputAccumulated(Step, r.output)>> ELSE <<>>
<1>2. after \in Seq(Event) /\ \A x \in Range(after) : x.type = "RunOutputAccumulated"
  BY <1>1, EventKinds, EmptySeq DEF RunOutputAccumulated, Range
<1>3. /\ Settle(st, r.output, n, announced, after) /\ UNCHANGED <<wf, pos>>
      /\ phase' \in {"after", "aborted"}
  BY DEF SettleExecuted
<1>4. eventsOpen /\ Step \in wf.repeats =>
          n = Cardinality(AttemptsOf(Step)) + Len(announced) /\ n <= AttemptLimit(Step)
  <2>1. Step \in wf.repeats => Len(announced) = 1 /\ n = attempts + 1
    OBVIOUS
  <2>2. AttemptLimit(Step) \in Nat /\ attempts \in Nat
    BY <1>1, LimitIsPositive DEF TypeOK
  <2>3. eventsOpen /\ Step \in wf.repeats =>
            attempts = Cardinality(AttemptsOf(Step)) /\ attempts < AttemptLimit(Step)
    BY DEF AttemptInv
  <2>4. Cardinality(AttemptsOf(Step)) \in Nat
    BY AttemptsAreFinite, FS_CardinalityType
  <2> SUFFICES ASSUME eventsOpen, Step \in wf.repeats
               PROVE  n = Cardinality(AttemptsOf(Step)) + Len(announced) /\ n <= AttemptLimit(Step)
    OBVIOUS
  <2>5. Cardinality(AttemptsOf(Step)) + 1 = n /\ n <= AttemptLimit(Step)
    BY <2>1, <2>2, <2>3, <2>4
  <2> QED BY <2>1, <2>5
<1> HIDE DEF after
<1>5. /\ AttemptsAccounted'
      /\ \A s : s # Step => AttemptsOf(s)' = AttemptsOf(s)
  <2>1. AttemptsAccounted /\ r.output \in Outputs
    BY DEF AttemptInv
  <2> QED BY <1>1, <1>2, <1>3, <1>4, <2>1, SettleKeepsAccounts
<1>6. \A i \in Places : Untried(i)' /\ Under' => i > pos
  BY <1>3 DEF Untried, Under
<1> QED BY <1>1, <1>3, <1>5, <1>6, SettleKeepsAttemptInv

\* Events that tell neither of attempts nor of ends.
LEMMA AsidesKeepAttemptInv ==
    ASSUME TypeOK, AttemptInv, UNCHANGED wf, NEW es \in Seq(Event), Emit(es),
           \A k \in DOMAIN es : es[k].type \notin {"StepAttempt", "StepFinished"}
    PROVE  /\ AttemptsAccounted'
           /\ \A s : AttemptsOf(s)' = AttemptsOf(s)
<1>1. \A s : AttemptsOf(s)' = AttemptsOf(s)
  BY EmitKeepsAttempts
<1>2. events \in Seq(Event)
  BY DEF TypeOK
<1>3. \A i \in DOMAIN events' : i \notin DOMAIN events => events'[i].type # "StepFinished"
  BY <1>2, EmitAppends
<1> QED BY <1>1, <1>3, EmitKeepsAccounts DEF AttemptInv

\* Such events, or none, on the way to a step that is no further than this one.
LEMMA MovesKeepAttemptInv ==
    ASSUME TypeOK, AttemptInv, UNCHANGED wf, AttemptsAccounted',
           \A s : AttemptsOf(s)' = AttemptsOf(s),
           Under' => Under /\ \A i \in Places : Untried(i)' => Untried(i),
           phase' = "execute" => phase = "execute" /\ UNCHANGED <<pos, attempts>> /\ (eventsOpen' => eventsOpen)
    PROVE  AttemptInv'
BY DEF AttemptInv, Places, Step, AttemptLimit

\* Every step of a run keeps to it.
LEMMA StepsKeepAttemptInv ==
    ASSUME TypeInv, ProgressInv, AttemptInv, [Next]_vars
    PROVE  AttemptInv'
<1> TypeOK
  BY DEF TypeInv
<1>1. ASSUME UNCHANGED <<wf, events>>, Under' => Under /\ \A i \in Places : Untried(i)' => Untried(i),
             phase' = "execute" => phase = "execute" /\ UNCHANGED <<pos, attempts>> /\ (eventsOpen' => eventsOpen)
      PROVE  AttemptInv'
  <2>1. AttemptsAccounted' /\ \A s : AttemptsOf(s)' = AttemptsOf(s)
    BY <1>1 DEF AttemptInv, AttemptsAccounted, AttemptsOf, AttemptLimit
  <2> QED BY <1>1, <2>1, MovesKeepAttemptInv
<1>2. pos \in Nat
  BY DEF TypeOK
<1>3. ASSUME wf.planned
      PROVE  Places \subseteq Nat
  BY <1>3, PlanIsInjective
<1>4. CASE Begin
  <2>1. phase = "created" /\ pos = 1 /\ UNCHANGED <<wf, pos>> /\ phase' \in {"ended", "complete", "top"}
    BY <1>4 DEF Begin, TypeInv, local
  <2>2. PICK es \in {<<>>, <<RunStarted, RunStatusChanged("Failed"), RunCompleted("Failed")>>,
                     <<RunStarted, RunStatusChanged("Running")>>} : Emit(es)
    BY <1>4 DEF Begin, Emit
  <2>3. es \in Seq(Event)
    <3>1. /\ RunStarted \in Event /\ RunStatusChanged("Failed") \in Event
          /\ RunCompleted("Failed") \in Event /\ RunStatusChanged("Running") \in Event
      BY EventKinds DEF Statuses
    <3>2. /\ <<RunStarted, RunStatusChanged("Failed"), RunCompleted("Failed")>> \in Seq(Event)
          /\ <<RunStarted, RunStatusChanged("Running")>> \in Seq(Event) /\ <<>> \in Seq(Event)
      BY <3>1
    <3> QED BY <2>2, <3>2
  <2>4. \A k \in DOMAIN es : es[k].type \notin {"StepAttempt", "StepFinished"}
    BY DEF RunStarted, RunStatusChanged, RunCompleted
  <2>5. Under' => Under /\ \A i \in Places : Untried(i)' => Untried(i)
    BY <2>1 DEF Under, Untried
  <2> QED BY <2>1, <2>2, <2>3, <2>4, <2>5, AsidesKeepAttemptInv, MovesKeepAttemptInv
<1>5. CASE Drain \/ AwaitCommand
  <2>1. /\ ProcessCommand /\ phase \in {"top", "after", "waitTop", "waitAfter"}
        /\ phase' \in {phase, "aborted"} /\ UNCHANGED <<wf, pos>>
    BY <1>5 DEF Drain, AwaitCommand, Waiting, ProcessCommand, local
  <2>2. Under' => Under /\ \A i \in Places : Untried(i)' => Untried(i)
    BY <2>1 DEF Under, Untried
  <2> DEFINE e == RunStatusChanged(StatusOf(Head(control)))
  <2>3. CASE UNCHANGED events
    BY <1>1, <2>1, <2>2, <2>3
  <2>4. CASE Emit(<<e>>)
    <3>1. Head(control) \in Commands
      BY <2>1, HeadTailProperties DEF ProcessCommand, TypeOK
    <3>2. e \in Event /\ e.type = "RunStatusChanged"
      BY <3>1, EventKinds DEF StatusOf, Commands, Statuses, RunStatusChanged
    <3> HIDE DEF e
    <3>3. <<e>> \in Seq(Event) /\ \A k \in DOMAIN <<e>> : <<e>>[k].type \notin {"StepAttempt", "StepFinished"}
      BY <3>2
    <3> QED BY <2>1, <2>2, <2>4, <3>3, AsidesKeepAttemptInv, MovesKeepAttemptInv
  <2> QED BY <2>1, <2>3, <2>4 DEF ProcessCommand
<1>6. CASE EndDrain \/ EndWait
  <2>1. /\ phase \in {"top", "after", "waitTop", "waitAfter"} /\ UNCHANGED <<wf, events>> /\ phase' # "execute"
    BY <1>6 DEF EndDrain, EndWait, Waiting, Proceed, NextIteration
  <2>2. \/ pos' = pos /\ phase' \in {"waitTop", "prepare"} /\ phase \in {"top", "waitTop"}
        \/ pos' = pos /\ phase' \in {"complete", "waitAfter"}
        \/ pos' = pos + 1
    BY <1>6 DEF EndDrain, EndWait, Waiting, Proceed, NextIteration
  <2>3. \A i \in Places : Untried(i)' => Untried(i)
    <3>1. Places \subseteq Nat
      BY <1>3, <2>1 DEF ProgressInv
    <3> QED BY <1>2, <2>2, <3>1 DEF Untried
  <2> QED BY <1>1, <2>1, <2>3 DEF Under
<1>7. CASE SkipBlocked \/ SkipByCondition \/ FailUnresolved
  BY <1>7, SettleUnstartedKeepsAttemptInv DEF SkipBlocked, SkipByCondition, FailUnresolved, Outcomes
<1>8. CASE StartStep
  <2> DEFINE e == StepStarted(pos - 1, Step)
  <2>1. /\ phase = "prepare" /\ phase' = "execute" /\ attempts' = 0 /\ Emit(<<e>>)
        /\ UNCHANGED <<wf, pos, eventsOpen>>
    BY <1>8 DEF StartStep, channels
  <2>2. Step \in Steps /\ pos - 1 \in Nat /\ pos \in Places /\ Step' = Step
    BY <2>1, StepIsAStep DEF TypeOK, InLoop, Places, Step
  <2>3. e \in Event /\ e.type = "StepStarted"
    BY <2>2, EventKinds DEF StepStarted
  <2> HIDE DEF e
  <2>4. <<e>> \in Seq(Event) /\ \A k \in DOMAIN <<e>> : <<e>>[k].type \notin {"StepAttempt", "StepFinished"}
    BY <2>3
  <2>5. AttemptsAccounted' /\ \A s : AttemptsOf(s)' = AttemptsOf(s)
    BY <2>1, <2>4, AsidesKeepAttemptInv
  <2>6. AttemptsOf(Step) = {}
    BY <1>2, <2>1, <2>2 DEF AttemptInv, Under, Untried, Step
  <2>7. Cardinality(AttemptsOf(Step)') = 0
    <3>1. AttemptsOf(Step)' = {}
      BY <2>2, <2>5, <2>6 DEF AttemptsOf
    <3> QED BY <3>1, FS_EmptySet
  <2>8. AttemptLimit(Step)' = AttemptLimit(Step) /\ 0 < AttemptLimit(Step)
    BY <2>1, <2>2, LimitIsPositive DEF AttemptLimit
  <2>9. \A i \in Places : Untried(i)' => Untried(i)
    BY <2>1 DEF Untried
  <2> QED BY <2>1, <2>2, <2>5, <2>7, <2>8, <2>9 DEF AttemptInv, Places, Under
<1>9. CASE RunStep
  <2>1. PICK r \in CommandResults : SettleExecuted(r, r.status, 1, <<>>)
    BY <1>9 DEF RunStep
  <2>2. r \in [status : Outcomes, output : Outputs] /\ r.status \in Outcomes
    BY DEF CommandResults, Outcomes, Outputs
  <2>3. <<>> \in {<<>>, <<StepAttempt(Step, 1)>>} /\ phase = "execute" /\ Step \notin wf.repeats
    BY <1>9 DEF RunStep
  <2> QED BY <2>1, <2>2, <2>3, SettleExecutedKeepsAttemptInv
<1>10. CASE RepeatAgain
  <2> DEFINE e == StepAttempt(Step, attempts + 1)
             new == Len(events) + 1
  <2>1. /\ phase = "execute" /\ phase' = "execute" /\ attempts' = attempts + 1 /\ Emit(<<e>>)
        /\ UNCHANGED <<wf, pos, eventsOpen>> /\ AttemptsLeft /\ Step \in wf.repeats
    BY <1>10 DEF RepeatAgain, channels
  <2>2. Step \in Steps /\ attempts + 1 \in Nat /\ pos \in Places /\ Step' = Step
    BY <2>1, StepIsAStep DEF TypeOK, InLoop, Places, Step
  <2>3. e \in Event /\ e.type = "StepAttempt" /\ e.step = Step
    BY <2>2, EventKinds DEF StepAttempt
  <2> HIDE DEF e
  <2> DEFINE es == <<e>>
  <2>4. es \in Seq(Event) /\ DOMAIN es = {1} /\ es[1] = e /\ Emit(es)
    BY <2>1, <2>3
  <2> HIDE DEF es
  <2>5. events \in Seq(Event) /\ Len(events) \in Nat /\ DOMAIN events = 1 .. Len(events)
    BY LenProperties DEF TypeOK
  <2>6. /\ \A i \in DOMAIN events : i \in DOMAIN events' /\ events'[i] = events[i]
        /\ \A i \in DOMAIN events' : i \notin DOMAIN events => i = new /\ events'[i] = e
        /\ eventsOpen => new \in DOMAIN events' /\ events'[new] = e
    BY <2>4, <2>5, EmitAppends
  <2>7. AttemptsAccounted'
    BY <2>1, <2>3, <2>4, <2>6, EmitKeepsAccounts DEF AttemptInv
  <2>8. \A s : s # Step => AttemptsOf(s)' = AttemptsOf(s)
    BY <2>3, <2>4, EmitKeepsAttempts
  <2>9. \A i \in Places : Untried(i)' => Untried(i) /\ wf.order[i] # Step
    <3>1. \A i \in Places : i # pos => wf.order[i] # wf.order[pos]
      BY <2>1, <2>2, PlanIsInjective DEF ProgressInv
    <3>2. Places \subseteq Nat
      BY <1>3, <2>1 DEF ProgressInv
    <3> QED BY <1>2, <2>1, <3>1, <3>2 DEF Untried, Step
  <2>10. eventsOpen => attempts + 1 = Cardinality(AttemptsOf(Step)')
    <3>1. eventsOpen => AttemptsOf(Step)' = AttemptsOf(Step) \cup {new}
      BY <2>2, <2>3, <2>6 DEF AttemptsOf
    <3>2. new \notin AttemptsOf(Step)
      BY <2>5 DEF AttemptsOf
    <3>3. eventsOpen => Cardinality(AttemptsOf(Step)') = Cardinality(AttemptsOf(Step)) + 1
      BY <3>1, <3>2, AttemptsAreFinite, FS_AddElement
    <3> QED BY <2>1, <3>3 DEF AttemptInv
  <2>11. attempts + 1 < AttemptLimit(Step) /\ AttemptLimit(Step)' = AttemptLimit(Step)
    BY <2>1, <2>2 DEF AttemptsLeft, AttemptLimit
  <2>12. \A i \in Places : Untried(i)' => AttemptsOf(wf.order[i])' = {}
    BY <2>1, <2>8, <2>9 DEF AttemptInv, Under
  <2> QED BY <2>1, <2>2, <2>7, <2>10, <2>11, <2>12 DEF AttemptInv, Places, AttemptsOf
<1>11. CASE RepeatEnd
  <2> DEFINE announced == <<StepAttempt(Step, attempts + 1)>>
  <2>1. PICK r \in AttemptResults(Step), until \in {"holds", "unresolved", "fails"} :
          SettleExecuted(r, IF until = "holds" THEN r.status ELSE "Failed", attempts + 1, announced)
    BY <1>11 DEF RepeatEnd
  <2>2. r \in [status : Outcomes, output : Outputs]
    BY DEF AttemptResults, CommandResults, Outcomes, Outputs
  <2>3. (IF until = "holds" THEN r.status ELSE "Failed") \in Outcomes
    BY <2>2 DEF Outcomes
  <2>4. attempts + 1 \in Nat /\ phase = "execute"
    BY <1>11 DEF RepeatEnd, TypeOK
  <2>5. announced \in {<<>>, <<StepAttempt(Step, attempts + 1)>>} /\ announced # <<>>
    OBVIOUS
  <2> HIDE DEF announced
  <2> QED BY <2>1, <2>2, <2>3, <2>4, <2>5, SettleExecutedKeepsAttemptInv
<1>12. CASE Complete
  <2> DEFINE e == RunCompleted(CompletedStatus)
  <2>1. /\ phase = "complete" /\ phase' = "ended" /\ Emit(<<e>>) /\ UNCHANGED wf
    BY <1>12 DEF Complete
  <2>2. e \in Event /\ e.type = "RunCompleted"
    BY EventKinds DEF CompletedStatus, Statuses, RunCompleted
  <2> HIDE DEF e
  <2>3. <<e>> \in Seq(Event) /\ \A k \in DOMAIN <<e>> : <<e>>[k].type \notin {"StepAttempt", "StepFinished"}
    BY <2>2
  <2> QED BY <2>1, <2>3, AsidesKeepAttemptInv, MovesKeepAttemptInv DEF Under
<1>13. CASE SendCommand \/ DropControl \/ DropEvents \/ UNCHANGED vars
  <2>1. UNCHANGED <<wf, events, phase, pos, attempts>> /\ (eventsOpen' => eventsOpen)
    BY <1>13 DEF SendCommand, DropControl, DropEvents, vars, local, channels
  <2> QED BY <1>1, <2>1 DEF Under, Untried
<1> QED BY <1>4, <1>5, <1>6, <1>7, <1>8, <1>9, <1>10, <1>11, <1>12, <1>13 DEF Next, RunTask

(* StepFinished counts the attempts that were announced of the step, which  *)
(* are never more than its limit.                                          *)
THEOREM AttemptSafety == Spec => []AttemptsAccounted
<1>1. Init => AttemptInv
  BY DEF Init, Created, AttemptInv, AttemptsAccounted, AttemptsOf
<1>2. TypeInv /\ ProgressInv /\ AttemptInv /\ [Next]_vars => AttemptInv'
  BY StepsKeepAttemptInv
<1>3. AttemptInv => AttemptsAccounted
  BY DEF AttemptInv
<1> QED BY <1>1, <1>2, <1>3, TypeInvariant, ProgressInvariant, PTL DEF Spec

-----------------------------------------------------------------------------
(* The steps of a run as steps of the lifecycle *)

\* Between executions the lifecycle's outcomes are the statuses.
LEMMA BarOutsideExecution ==
    /\ TypeOK /\ phase # "execute" => OutcomeBar = status /\ Lifecycle!Idle
    /\ TypeOK' /\ phase' # "execute" => OutcomeBar' = status'
BY DEF OutcomeBar, Executing, TypeOK, Outcomes, Lifecycle!Idle

\* While it executes a step, that step is running.
LEMMA BarInExecution ==
    ASSUME TypeOK, phase = "execute"
    PROVE  /\ OutcomeBar = [status EXCEPT ![Step] = "running"]
           /\ OutcomeBar[Step] = "running"
           /\ \A st \in Outcomes : [OutcomeBar EXCEPT ![Step] = st] = [status EXCEPT ![Step] = st]
<1>1. Step \in Steps
  BY StepIsAStep DEF TypeOK, InLoop
<1> QED BY <1>1 DEF OutcomeBar, Executing, TypeOK

\* A result is known when the run is over.
LEMMA ResultOfUnfinished ==
    /\ phase \notin {"ended", "aborted"} => ResultBar = "none"
    /\ phase' \notin {"ended", "aborted"} => ResultBar' = "none"
    /\ phase = "aborted" => ResultBar = "abandoned"
    /\ phase' = "aborted" => ResultBar' = "abandoned"
BY DEF ResultBar

\* The step at hand is a member of the plan.
LEMMA StepIsMember ==
    ASSUME TypeOK, pos \in Places
    PROVE  Step \in Lifecycle!Members /\ Step \in Steps
BY StepIsAStep DEF Places, Step, Lifecycle!Members

\* A step that changes no status, no flag and no phase the lifecycle can see.
LEMMA InvisibleSteps ==
    ASSUME TypeOK, TypeOK', phase \notin {"execute", "ended", "aborted"},
           phase' \notin {"execute", "ended", "aborted"},
           UNCHANGED <<wf, status, cancelRequested>>
    PROVE  UNCHANGED Lifecycle!vars
BY BarOutsideExecution, ResultOfUnfinished DEF Lifecycle!vars

\* A command that is accepted is invisible, cancels the run, or finds nobody
\* who listens.
LEMMA ProcessCommandImplements ==
    ASSUME TypeOK, TypeOK', ProcessCommand, phase \in {"top", "after", "waitTop", "waitAfter"}
    PROVE  [Lifecycle!Next]_(Lifecycle!vars)
<1>1. phase' \in {phase, "aborted"} /\ UNCHANGED <<wf, status>>
  BY DEF ProcessCommand, local
<1>2. OutcomeBar' = OutcomeBar /\ Lifecycle!Idle /\ ResultBar = "none"
  BY <1>1, BarOutsideExecution, ResultOfUnfinished
<1>3. CASE ~Accepts(Head(control))
  BY <1>3, InvisibleSteps DEF ProcessCommand, local, flags
<1>4. CASE Accepts(Head(control))
  <2>1. cancelRequested' # cancelRequested => ~cancelRequested /\ cancelRequested' = TRUE
    BY <1>4 DEF ProcessCommand, TypeOK
  <2>2. CASE eventsOpen
    <3>1. phase' = phase
      BY <1>4, <2>2 DEF ProcessCommand
    <3>2. ResultBar' = "none"
      BY <3>1, ResultOfUnfinished
    <3>3. CASE cancelRequested' = cancelRequested
      BY <1>1, <1>2, <3>2, <3>3 DEF Lifecycle!vars
    <3>4. CASE cancelRequested' # cancelRequested
      BY <1>1, <1>2, <2>1, <3>2, <3>4 DEF Lifecycle!Cancel, Lifecycle!Next
    <3> QED BY <3>3, <3>4
  <2>3. CASE ~eventsOpen
    <3>1. ResultBar' = "abandoned"
      BY <1>4, <2>3, ResultOfUnfinished DEF ProcessCommand
    <3>2. Lifecycle!Abandon
      BY <1>1, <1>2, <2>1, <3>1 DEF Lifecycle!Abandon
    <3> QED BY <3>2 DEF Lifecycle!Next
  <2> QED BY <2>2, <2>3
<1> QED BY <1>3, <1>4

\* A step that is not executed is declined, or the last thing a run does that
\* nobody listens to.
LEMMA SettleUnstartedImplements ==
    ASSUME TypeOK, TypeOK', ProgressInv, phase = "prepare", NEW st \in {"Skipped", "Failed"},
           SettleUnstarted(st), st = "Failed" => ~Blocked(Step)
    PROVE  Lifecycle!Next
<1>1. /\ pos \in Places /\ wf.planned /\ ~cancelRequested
      /\ status[wf.order[pos]] = "pending"
  <2>1. pos \in Places /\ wf.planned /\ ~cancelRequested
    BY DEF ProgressInv, TypeOK, InLoop, Places
  <2> QED BY <2>1 DEF ProgressInv, SettledUpToHere, Passed, InLoop, TypeOK
<1>2. Step \in Lifecycle!Members /\ Step \in Steps /\ status[Step] = "pending"
  BY <1>1, StepIsMember DEF Step
<1>3. /\ status' = [status EXCEPT ![Step] = st] /\ UNCHANGED <<wf, cancelRequested>>
      /\ phase' \in {"top", "complete", "aborted"}
      /\ phase' = "aborted" <=> ~eventsOpen
  BY DEF SettleUnstarted, Settle, flags, NextIteration
<1>4. OutcomeBar = status /\ OutcomeBar' = status' /\ Lifecycle!Idle /\ ResultBar = "none"
  BY <1>3, BarOutsideExecution, ResultOfUnfinished
<1>5. CASE eventsOpen
  <2>1. ResultBar' = "none"
    BY <1>3, <1>5, ResultOfUnfinished
  <2>2. st = "Failed" => Lifecycle!Ready(Step)
    BY <1>4 DEF Lifecycle!Ready, Blocked
  <2>3. Lifecycle!Decline(Step)
    BY <1>1, <1>2, <1>3, <1>4, <2>1, <2>2 DEF Lifecycle!Decline
  <2> QED BY <1>2, <2>3 DEF Lifecycle!Next
<1>6. CASE ~eventsOpen
  <2>1. ResultBar' = "abandoned"
    BY <1>3, <1>6, ResultOfUnfinished
  <2>2. Lifecycle!Abandon
    BY <1>2, <1>3, <1>4, <2>1 DEF Lifecycle!Abandon, Lifecycle!Settled
  <2> QED BY <2>2 DEF Lifecycle!Next
<1> QED BY <1>5, <1>6

\* The end of an executed step finishes it.
LEMMA SettleExecutedImplements ==
    ASSUME TypeOK, TypeOK', phase = "execute", NEW r, NEW st \in Outcomes, NEW n, NEW announced,
           SettleExecuted(r, st, n, announced)
    PROVE  Lifecycle!Next
<1>1. Step \in Lifecycle!Members /\ Step \in Steps
  BY StepIsMember DEF TypeOK, InLoop, Places
<1>2. /\ status' = [status EXCEPT ![Step] = st] /\ UNCHANGED <<wf, cancelRequested>>
      /\ phase' = IF eventsOpen THEN "after" ELSE "aborted"
  BY DEF SettleExecuted, Settle, flags
<1>3. OutcomeBar' = [OutcomeBar EXCEPT ![Step] = st] /\ OutcomeBar[Step] = "running"
  BY <1>2, BarInExecution, BarOutsideExecution
<1>4. ResultBar = "none" /\ st \in Lifecycle!Settled
  BY ResultOfUnfinished DEF Outcomes, Lifecycle!Settled
<1>5. CASE eventsOpen
  <2>1. ResultBar' = "none"
    BY <1>2, <1>5, ResultOfUnfinished
  <2>2. Lifecycle!Finish(Step)
    BY <1>2, <1>3, <1>4, <2>1 DEF Lifecycle!Finish
  <2> QED BY <1>1, <2>2 DEF Lifecycle!Next
<1>6. CASE ~eventsOpen
  <2>1. ResultBar' = "abandoned"
    BY <1>2, <1>6, ResultOfUnfinished
  <2>2. Lifecycle!Abandon
    BY <1>1, <1>2, <1>3, <1>4, <2>1 DEF Lifecycle!Abandon
  <2> QED BY <2>2 DEF Lifecycle!Next
<1> QED BY <1>5, <1>6

\* The run keeps the promise of the lifecycle: steps settle one at a time, each
\* once and after what it depends on, an accepted cancel stays, and the result
\* is what they came to.
THEOREM RunImplementsLifecycle == Spec => ImplementsLifecycle
<1>1. Init => Lifecycle!Init
  <2> SUFFICES ASSUME Init PROVE Lifecycle!Init
    OBVIOUS
  <2>1. OutcomeBar = [s \in Steps |-> "pending"] /\ ResultBar = "none"
    BY DEF Init, Created, OutcomeBar, Executing, ResultBar
  <2> QED BY <2>1 DEF Init, Created, Lifecycle!Init
<1>2. TypeOK /\ TypeOK' /\ ProgressInv /\ [Next]_vars => [Lifecycle!Next]_(Lifecycle!vars)
  <2> SUFFICES ASSUME TypeOK, TypeOK', ProgressInv, [Next]_vars
               PROVE  [Lifecycle!Next]_(Lifecycle!vars)
    OBVIOUS
  <2>1. CASE Begin
    <3>1. phase = "created" /\ UNCHANGED <<wf, status, cancelRequested>>
      BY <2>1 DEF Begin, local, flags
    <3>2. CASE phase' # "ended"
      <4>1. phase' \in {"complete", "top"}
        BY <2>1, <3>2 DEF Begin
      <4> QED BY <3>1, <4>1, InvisibleSteps
    <3>3. CASE phase' = "ended"
      <4>1. OutcomeBar = status /\ OutcomeBar' = status /\ ResultBar = "none"
        BY <3>1, <3>3, BarOutsideExecution, ResultOfUnfinished
      <4>2. CASE ~wf.planned /\ ResultBar' = "Failed"
        <5>1. Lifecycle!Refuse
          BY <3>1, <4>1, <4>2 DEF Lifecycle!Refuse, ProgressInv
        <5> QED BY <5>1 DEF Lifecycle!Next
      <4>3. CASE ResultBar' = "abandoned"
        <5>1. Lifecycle!Abandon
          BY <3>1, <4>1, <4>3 DEF Lifecycle!Abandon
        <5> QED BY <5>1 DEF Lifecycle!Next
      <4>4. \/ events' = <<>> /\ ResultBar' = "abandoned"
            \/ ~wf.planned /\ ResultBar' = "Failed"
            \/ wf.planned /\ events' # <<>>
        BY <3>1, <3>3 DEF ResultBar
      <4>5. ~(wf.planned /\ events' # <<>>)
        BY <2>1, <3>3 DEF Begin, ProgressInv
      <4> QED BY <4>2, <4>3, <4>4, <4>5
    <3> QED BY <3>2, <3>3
  <2>2. CASE Drain \/ AwaitCommand
    BY <2>2, ProcessCommandImplements DEF Drain, AwaitCommand, Waiting
  <2>3. CASE EndDrain \/ EndWait
    <3>1. /\ phase \in {"top", "after", "waitTop", "waitAfter"}
          /\ phase' \in {"top", "waitTop", "waitAfter", "prepare", "complete"}
          /\ UNCHANGED <<wf, status, cancelRequested>>
      BY <2>3 DEF EndDrain, EndWait, Waiting, Proceed, NextIteration, flags
    <3> QED BY <3>1, InvisibleSteps
  <2>4. CASE SkipBlocked \/ SkipByCondition
    BY <2>4, SettleUnstartedImplements DEF SkipBlocked, SkipByCondition
  <2>5. CASE FailUnresolved
    BY <2>5, SettleUnstartedImplements DEF FailUnresolved
  <2>6. CASE StartStep
    <3>1. /\ phase = "prepare" /\ phase' = "execute" /\ ~Blocked(Step)
          /\ UNCHANGED <<wf, pos, status, cancelRequested>>
      BY <2>6 DEF StartStep, flags
    <3>2. pos \in Places /\ ~cancelRequested
      BY <3>1 DEF ProgressInv, TypeOK, InLoop, Places
    <3>3. Step \in Lifecycle!Members /\ Step \in Steps /\ Step' = Step
      BY <3>1, <3>2, StepIsMember DEF Step
    <3>4. status[Step] = "pending"
      BY <3>1, <3>2 DEF ProgressInv, SettledUpToHere, Passed, InLoop, TypeOK, Step
    <3>5. OutcomeBar = status /\ Lifecycle!Idle /\ ResultBar = "none" /\ ResultBar' = "none"
      BY <3>1, BarOutsideExecution, ResultOfUnfinished
    <3>6. OutcomeBar' = [OutcomeBar EXCEPT ![Step] = "running"]
      BY <3>1, <3>3, <3>5 DEF OutcomeBar, Executing, TypeOK
    <3>7. Lifecycle!Ready(Step)
      BY <3>1, <3>5 DEF Lifecycle!Ready, Blocked
    <3>8. Lifecycle!Start(Step)
      BY <3>1, <3>2, <3>3, <3>4, <3>5, <3>6, <3>7 DEF Lifecycle!Start
    <3> QED BY <3>3, <3>8 DEF Lifecycle!Next
  <2>7. CASE RunStep
    <3>1. PICK r \in CommandResults : SettleExecuted(r, r.status, 1, <<>>)
      BY <2>7 DEF RunStep
    <3>2. r.status \in Outcomes
      BY DEF CommandResults, Outcomes
    <3>3. Lifecycle!Next
      BY <2>7, <3>1, <3>2, SettleExecutedImplements DEF RunStep
    <3> QED BY <3>3
  <2>8. CASE RepeatAgain
    <3>1. /\ phase = "execute" /\ phase' = "execute"
          /\ UNCHANGED <<wf, pos, status, cancelRequested>>
      BY <2>8 DEF RepeatAgain, flags
    <3>2. OutcomeBar' = OutcomeBar /\ ResultBar' = ResultBar
      BY <3>1, ResultOfUnfinished DEF OutcomeBar, Executing, Step
    <3> QED BY <3>1, <3>2 DEF Lifecycle!vars
  <2>9. CASE RepeatEnd
    <3>1. PICK r \in AttemptResults(Step), until \in {"holds", "unresolved", "fails"} :
            SettleExecuted(r, IF until = "holds" THEN r.status ELSE "Failed",
                           attempts + 1, <<StepAttempt(Step, attempts + 1)>>)
      BY <2>9 DEF RepeatEnd
    <3>2. (IF until = "holds" THEN r.status ELSE "Failed") \in Outcomes
      BY DEF AttemptResults, CommandResults, Outcomes
    <3>3. Lifecycle!Next
      BY <2>9, <3>1, <3>2, SettleExecutedImplements DEF RepeatEnd
    <3> QED BY <3>3
  <2>10. CASE Complete
    <3>1. /\ phase = "complete" /\ phase' = "ended" /\ wf.planned
          /\ UNCHANGED <<wf, status, anyFailed, cancelRequested>>
      BY <2>10 DEF Complete, local, flags, ProgressInv
    <3>2. events' # <<>>
      <4>1. RunCompleted(CompletedStatus) \in Event
        BY EventKinds DEF CompletedStatus, Statuses
      <4>2. <<RunCompleted(CompletedStatus)>> \in Seq(Event) /\ events # <<>>
        BY <3>1, <4>1 DEF ProgressInv
      <4> QED BY <2>10, <4>2, EmitIsHeard DEF Complete, TypeOK
    <3>3. OutcomeBar = status /\ OutcomeBar' = status /\ Lifecycle!Idle /\ ResultBar = "none"
      BY <3>1, BarOutsideExecution, ResultOfUnfinished
    <3>4. ResultBar' = CompletedStatus
      BY <3>1, <3>2 DEF ResultBar, CompletedStatus
    <3>5. /\ anyFailed <=> \E s \in Lifecycle!Members : status[s] = "Failed"
          /\ ~cancelRequested => \A s \in Lifecycle!Members : status[s] \in Lifecycle!Settled
      <4>1. Lifecycle!Members = {wf.order[i] : i \in Places}
        BY DEF Lifecycle!Members, Places
      <4>2. \A i \in Places : status[wf.order[i]] \in Outcomes \cup {"pending"}
        BY <3>1, PlanIsInjective DEF TypeOK
      <4> QED BY <3>1, <4>1, <4>2 DEF ProgressInv, Lifecycle!Settled, Outcomes
    <3>6. Lifecycle!Conclude
      BY <3>1, <3>3, <3>4, <3>5 DEF Lifecycle!Conclude, CompletedStatus
    <3> QED BY <3>6 DEF Lifecycle!Next
  <2>11. CASE SendCommand \/ DropControl \/ DropEvents \/ UNCHANGED vars
    BY <2>11 DEF SendCommand, DropControl, DropEvents, vars, local, flags, Lifecycle!vars,
                 OutcomeBar, Executing, ResultBar, CompletedStatus, Step
  <2> QED BY <2>1, <2>2, <2>3, <2>4, <2>5, <2>6, <2>7, <2>8, <2>9, <2>10, <2>11 DEF Next, RunTask
<1> QED BY <1>1, <1>2, TypeCorrect, ProgressInvariant, PTL
        DEF Spec, ImplementsLifecycle, Lifecycle!Spec

-----------------------------------------------------------------------------
(* Loops over a sequence *)

\* The elements of a sequence, of which there are no more than it is long.
LEMMA ElementsOf ==
    ASSUME NEW S, NEW q \in Seq(S)
    PROVE  /\ Len(q) \in Nat /\ DOMAIN q = 1 .. Len(q) /\ Range(q) \subseteq S
           /\ \A n \in 1 .. Len(q) : q[n] \in S /\ q[n] \in Range(q)
           /\ \A x \in Range(q) : \E n \in 1 .. Len(q) : q[n] = x
           /\ IsFiniteSet(Range(q)) /\ Cardinality(Range(q)) <= Len(q)
<1>1. DOMAIN q = 1 .. Len(q) /\ Len(q) \in Nat /\ \A n \in 1 .. Len(q) : q[n] \in S
  BY LenProperties, ElementOfSeq
<1>2. Range(q) = {q[n] : n \in 1 .. Len(q)}
  BY <1>1 DEF Range
<1>3. /\ Range(q) \subseteq S /\ \A n \in 1 .. Len(q) : q[n] \in S /\ q[n] \in Range(q)
      /\ \A x \in Range(q) : \E n \in 1 .. Len(q) : q[n] = x
  BY <1>1, <1>2
<1>4. IsFiniteSet(Range(q)) /\ Cardinality(Range(q)) <= Len(q)
  <2> DEFINE f == [n \in 1 .. Len(q) |-> q[n]]
  <2>1. f \in [1 .. Len(q) -> Range(q)] /\ \A x \in Range(q) : \E n \in 1 .. Len(q) : f[n] = x
    BY <1>3
  <2> HIDE DEF f
  <2>2. f \in Surjection(1 .. Len(q), Range(q))
    BY <2>1 DEF Surjection
  <2>3. IsFiniteSet(1 .. Len(q)) /\ Cardinality(1 .. Len(q)) = Len(q)
    <3>1. Len(q) \in Nat
      BY <1>1
    <3> HIDE DEF f
    <3> QED BY <3>1, FS_Interval
  <2> QED BY <2>2, <2>3, FS_Surjection
<1> QED BY <1>1, <1>3, <1>4

\* Every set of numbers that is not empty has a least one.
LEMMA LeastNumber ==
    ASSUME NEW T, T \subseteq Nat, T # {}
    PROVE  \E x \in T : \A y \in T : x <= y
<1> DEFINE R == {r \in Nat \X Nat : r[1] < r[2]}
<1>1. IsWellFoundedOn(R, Nat)
  BY NatLessThanWellFounded DEF OpToRel
<1> HIDE DEF R
<1>2. PICK x \in T : \A y \in T : ~ (<<y, x>> \in R)
  BY <1>1, WFMin
<1>3. ASSUME NEW y \in T PROVE x <= y
  <2>1. x \in Nat /\ y \in Nat /\ <<y, x>> \notin R
    BY <1>2, <1>3
  <2>2. ~(y < x)
    BY <2>1 DEF R
  <2> QED BY <2>1, <2>2
<1> QED BY <1>3

\* A loop of n turns starts at b, and its turn k takes x to g[k][x].
Loop(h, n, b, g) == h = [k \in 0 .. n |-> IF k = 0 THEN b ELSE g[k][h[k - 1]]]

\* What holds before a loop, and after a turn if before it, holds after every turn.
LEMMA LoopKeeps ==
    ASSUME NEW n \in Nat, NEW K, NEW h, h[0] \in K[0],
           \A k \in 1 .. n : h[k - 1] \in K[k - 1] => h[k] \in K[k]
    PROVE  \A k \in 0 .. n : h[k] \in K[k]
<1> DEFINE T == {k \in 0 .. n : h[k] \notin K[k]}
<1>1. SUFFICES ASSUME T # {} PROVE FALSE
  OBVIOUS
<1>2. T \subseteq Nat
  OBVIOUS
<1>3. PICK x \in T : \A y \in T : x <= y
  <2> HIDE DEF T
  <2> QED BY <1>1, <1>2, LeastNumber
<1>4. x \in 1 .. n /\ h[x] \notin K[x] /\ x - 1 \in 0 .. n /\ x - 1 \notin T
  BY <1>3
<1> QED BY <1>4

\* A loop can be run, for any number of turns.
LEMMA LoopRuns ==
    ASSUME NEW n \in Nat, NEW b, NEW g
    PROVE  \E h : Loop(h, n, b, g)
<1> USE DEF Loop
<1> DEFINE T == {m \in Nat : ~ \E h : Loop(h, m, b, g)}
<1>1. SUFFICES ASSUME T # {} PROVE FALSE
  OBVIOUS
<1>2. PICK m \in T : \A y \in T : m <= y
  <2>1. T \subseteq Nat
    OBVIOUS
  <2> HIDE DEF T
  <2> QED BY <1>1, <2>1, LeastNumber
<1>3. m # 0
  <2>1. [k \in 0 .. 0 |-> b] = [k \in 0 .. 0 |-> IF k = 0 THEN b ELSE g[k][[l \in 0 .. 0 |-> b][k - 1]]]
    OBVIOUS
  <2> QED BY <1>2, <2>1
<1>4. m \in Nat /\ m - 1 \in Nat /\ m - 1 \notin T
  <2>1. m \in Nat /\ m - 1 \in Nat
    BY <1>2, <1>3
  <2> HIDE DEF T
  <2> QED BY <1>2, <2>1
<1>5. PICK h : h = [k \in 0 .. m - 1 |-> IF k = 0 THEN b ELSE g[k][h[k - 1]]]
  BY <1>4
<1> DEFINE f == [k \in 0 .. m |-> IF k = m THEN g[m][h[m - 1]] ELSE h[k]]
<1>6. ASSUME NEW k \in 0 .. m PROVE f[k] = IF k = 0 THEN b ELSE g[k][f[k - 1]]
  <2>1. CASE k = m
    <3>1. m - 1 \in 0 .. m /\ m - 1 # m /\ f[m - 1] = h[m - 1]
      BY <1>3, <1>4
    <3> QED BY <1>3, <2>1, <3>1
  <2>2. CASE k # m
    <3>1. k \in 0 .. m - 1 /\ f[k] = h[k]
      BY <1>4, <2>2
    <3>2. h[k] = IF k = 0 THEN b ELSE g[k][h[k - 1]]
      BY <1>5, <3>1
    <3>3. k # 0 => k - 1 \in 0 .. m /\ k - 1 # m /\ f[k - 1] = h[k - 1]
      BY <1>4, <3>1
    <3> QED BY <3>1, <3>2, <3>3
  <2> QED BY <2>1, <2>2
<1>7. f = [k \in 0 .. m |-> IF k = 0 THEN b ELSE g[k][f[k - 1]]]
  <2>1. DOMAIN f = 0 .. m /\ f = [k \in DOMAIN f |-> f[k]]
    OBVIOUS
  <2> HIDE DEF f
  <2> QED BY <1>6, <2>1
<1> HIDE DEF f
<1> QED BY <1>2, <1>4, <1>7

-----------------------------------------------------------------------------
(* What Among leaves of a sequence *)

AmongLoop(h, s, T) ==
    h = [n \in 0 .. Len(s) |->
             IF n = 0 THEN <<>> ELSE IF s[n] \in T THEN Append(h[n - 1], s[n]) ELSE h[n - 1]]

\* The loop of Among runs.
LEMMA AmongRuns ==
    ASSUME NEW S, NEW s \in Seq(S), NEW T
    PROVE  \E h : /\ h[0] = <<>> /\ Among(s, T) = h[Len(s)]
                  /\ \A n \in 1 .. Len(s) : h[n] = IF s[n] \in T THEN Append(h[n - 1], s[n]) ELSE h[n - 1]
<1> DEFINE g == [n \in 1 .. Len(s) |-> [q \in Seq(S) |-> IF s[n] \in T THEN Append(q, s[n]) ELSE q]]
           K == [n \in 0 .. Len(s) |-> Seq(S)]
<1>1. Len(s) \in Nat /\ \A n \in 1 .. Len(s) : s[n] \in S /\ n \in 0 .. Len(s) /\ n # 0 /\ n - 1 \in 0 .. Len(s)
  BY ElementsOf
<1>2. PICK h : Loop(h, Len(s), <<>>, g)
  <2> HIDE DEF g
  <2> QED BY <1>1, LoopRuns
<1>3. h[0] = <<>> /\ \A n \in 1 .. Len(s) : h[n] = g[n][h[n - 1]]
  <2> HIDE DEF g
  <2>1. 0 \in 0 .. Len(s)
    BY <1>1
  <2>2. \A n \in 0 .. Len(s) : h[n] = IF n = 0 THEN <<>> ELSE g[n][h[n - 1]]
    BY <1>2 DEF Loop
  <2> QED BY <1>1, <2>1, <2>2
<1>4. \A n \in 1 .. Len(s) : h[n - 1] \in Seq(S) =>
          h[n] = IF s[n] \in T THEN Append(h[n - 1], s[n]) ELSE h[n - 1]
  BY <1>3
<1> HIDE DEF g
<1>5. \A n \in 1 .. Len(s) : h[n - 1] \in Seq(S) => h[n] \in Seq(S)
  <2> SUFFICES ASSUME NEW n \in 1 .. Len(s), h[n - 1] \in Seq(S) PROVE h[n] \in Seq(S)
    OBVIOUS
  <2>1. Append(h[n - 1], s[n]) \in Seq(S)
    BY <1>1, AppendProperties
  <2> QED BY <1>4, <2>1
<1>6. \A n \in 0 .. Len(s) : h[n] \in K[n]
  <2>1. h[0] \in K[0]
    BY <1>1, <1>3, EmptySeq
  <2>2. \A n \in 1 .. Len(s) : h[n - 1] \in K[n - 1] => h[n] \in K[n]
    BY <1>1, <1>5
  <2> HIDE DEF K
  <2> QED BY <1>1, <2>1, <2>2, LoopKeeps
<1>7. \A n \in 1 .. Len(s) : h[n] = IF s[n] \in T THEN Append(h[n - 1], s[n]) ELSE h[n - 1]
  BY <1>1, <1>4, <1>6
<1>8. \A n \in 0 .. Len(s) :
          h[n] = IF n = 0 THEN <<>> ELSE IF s[n] \in T THEN Append(h[n - 1], s[n]) ELSE h[n - 1]
  <2>1. \A n \in 0 .. Len(s) : n # 0 => n \in 1 .. Len(s)
    BY <1>1
  <2> QED BY <1>3, <1>7, <2>1
<1>9. h = [n \in 0 .. Len(s) |-> h[n]]
  BY <1>2 DEF Loop
<1>10. h = [n \in 0 .. Len(s) |->
               IF n = 0 THEN <<>> ELSE IF s[n] \in T THEN Append(h[n - 1], s[n]) ELSE h[n - 1]]
  BY <1>8, <1>9
<1>11. PICK f : AmongLoop(f, s, T) /\ Among(s, T) = f[Len(s)]
  BY <1>10 DEF Among, AmongLoop
<1>12. /\ f[0] = <<>>
       /\ \A n \in 1 .. Len(s) : f[n] = IF s[n] \in T THEN Append(f[n - 1], s[n]) ELSE f[n - 1]
  <2>1. 0 \in 0 .. Len(s)
    BY <1>1
  <2>2. \A n \in 0 .. Len(s) :
            f[n] = IF n = 0 THEN <<>> ELSE IF s[n] \in T THEN Append(f[n - 1], s[n]) ELSE f[n - 1]
    BY <1>11 DEF AmongLoop
  <2> QED BY <1>1, <2>1, <2>2
<1> QED BY <1>11, <1>12

\* One more element at the end of a sequence.
LEMMA OneMoreElement ==
    ASSUME NEW S, NEW q \in Seq(S), NEW e \in S
    PROVE  /\ Append(q, e) \in Seq(S) /\ Len(Append(q, e)) = Len(q) + 1
           /\ Range(Append(q, e)) = Range(q) \cup {e}
           /\ Distinct(q) /\ e \notin Range(q) => Distinct(Append(q, e))
<1> DEFINE r == Append(q, e)
<1>1. /\ r \in Seq(S) /\ Len(q) \in Nat /\ Len(r) = Len(q) + 1
      /\ DOMAIN q = 1 .. Len(q) /\ DOMAIN r = 1 .. Len(q) + 1
      /\ \A p \in 1 .. Len(q) : r[p] = q[p]
      /\ r[Len(q) + 1] = e
  BY AppendProperties, LenProperties
<1> HIDE DEF r
<1>2. DOMAIN r = DOMAIN q \cup {Len(q) + 1}
  BY <1>1
<1>3. Range(r) = Range(q) \cup {e}
  BY <1>1, <1>2 DEF Range
<1>4. ASSUME Distinct(q), e \notin Range(q) PROVE Distinct(r)
  <2> SUFFICES ASSUME NEW i \in DOMAIN r, NEW j \in DOMAIN r, r[i] = r[j] PROVE i = j
    BY DEF Distinct
  <2>1. \A p \in DOMAIN q : q[p] # e
    BY <1>4 DEF Range
  <2> QED BY <1>1, <1>2, <1>4, <2>1 DEF Distinct
<1> QED BY <1>1, <1>3, <1>4 DEF r

\* Among(s, T) is a sequence of what s and T share, each as often as in s.
LEMMA AmongIs ==
    ASSUME NEW S, NEW s \in Seq(S), NEW T
    PROVE  /\ Among(s, T) \in Seq(S) /\ Range(Among(s, T)) = Range(s) \cap T
           /\ Distinct(s) => Distinct(Among(s, T))
<1> DEFINE first(n) == {s[p] : p \in 1 .. n}
           Fits(q, n) == Range(q) = first(n) \cap T /\ (Distinct(s) => Distinct(q))
           K == [n \in 0 .. Len(s) |-> {q \in Seq(S) : Fits(q, n)}]
<1>1. /\ Len(s) \in Nat /\ DOMAIN s = 1 .. Len(s) /\ (\A n \in 1 .. Len(s) : s[n] \in S)
      /\ Range(s) = first(Len(s))
  <2>1. DOMAIN s = 1 .. Len(s)
    BY ElementsOf
  <2> QED BY <2>1, ElementsOf DEF Range
<1>2. \A n \in 0 .. Len(s) : K[n] = {q \in Seq(S) : Fits(q, n)}
  OBVIOUS
<1>3. ASSUME NEW n \in 1 .. Len(s), NEW q \in K[n - 1]
      PROVE  (IF s[n] \in T THEN Append(q, s[n]) ELSE q) \in K[n]
  <2>1. n - 1 \in 0 .. Len(s) /\ n \in 0 .. Len(s) /\ 1 .. n = 1 .. (n - 1) \cup {n} /\ s[n] \in S
    BY <1>1
  <2>2. q \in Seq(S) /\ Range(q) = first(n - 1) \cap T /\ (Distinct(s) => Distinct(q))
    BY <1>2, <1>3, <2>1
  <2>3. first(n) = first(n - 1) \cup {s[n]}
    BY <2>1
  <2>4. Distinct(s) => s[n] \notin first(n - 1)
    BY <1>1, <2>1 DEF Distinct
  <2>5. K[n] = {r \in Seq(S) : Fits(r, n)}
    BY <2>1
  <2> HIDE DEF first, K
  <2>6. CASE s[n] \in T
    <3>1. /\ Append(q, s[n]) \in Seq(S) /\ Range(Append(q, s[n])) = Range(q) \cup {s[n]}
          /\ Distinct(q) /\ s[n] \notin Range(q) => Distinct(Append(q, s[n]))
      BY <2>1, <2>2, OneMoreElement
    <3>2. Range(Append(q, s[n])) = first(n) \cap T
      BY <2>2, <2>3, <2>6, <3>1
    <3>3. Distinct(s) => Distinct(Append(q, s[n]))
      BY <2>2, <2>4, <3>1
    <3> QED BY <2>5, <2>6, <3>1, <3>2, <3>3
  <2>7. CASE s[n] \notin T
    BY <2>2, <2>3, <2>5, <2>7
  <2> QED BY <2>6, <2>7
<1>4. <<>> \in K[0]
  <2>1. <<>> \in Seq(S) /\ Range(<<>>) = {} /\ first(0) = {} /\ 0 \in 0 .. Len(s)
    BY <1>1, EmptySeq DEF Range
  <2>2. Distinct(<<>>)
    BY DEF Distinct
  <2> QED BY <2>1, <2>2
<1> HIDE DEF K
<1>5. PICK h : /\ h[0] = <<>> /\ Among(s, T) = h[Len(s)]
               /\ \A n \in 1 .. Len(s) : h[n] = IF s[n] \in T THEN Append(h[n - 1], s[n]) ELSE h[n - 1]
  BY AmongRuns
<1>6. \A n \in 1 .. Len(s) : h[n - 1] \in K[n - 1] => h[n] \in K[n]
  BY <1>3, <1>5
<1>7. \A n \in 0 .. Len(s) : h[n] \in K[n]
  BY <1>1, <1>4, <1>5, <1>6, LoopKeeps
<1>8. Len(s) \in 0 .. Len(s)
  BY <1>1
<1>9. Among(s, T) \in {q \in Seq(S) : Fits(q, Len(s))}
  BY <1>2, <1>5, <1>7, <1>8
<1> QED BY <1>1, <1>9

-----------------------------------------------------------------------------
(* What a pass over a declaration finds, and all of them together *)

\* T holds every step that is declared with a dependency in T.
Closed(d, T) == \A x \in Range(d.declared) : d.deps[x] \cap T # {} => x \in T

Declaration(d) == d.declared \in Seq(Steps) /\ d.deps \in [Steps -> SUBSET Steps]

SweptLoop(h, d, found) ==
    h = [k \in 0 .. Len(d.declared) |->
             IF k = 0 THEN found
             ELSE IF d.deps[d.declared[k]] \cap h[k - 1] = {} THEN h[k - 1]
             ELSE h[k - 1] \cup {d.declared[k]}]

\* A pass can be made.
LEMMA SweptRuns ==
    ASSUME NEW d, Declaration(d), NEW found \in SUBSET Steps
    PROVE  \E h : SweptLoop(h, d, found)
<1> DEFINE n == Len(d.declared)
           turn(k, F) == IF d.deps[d.declared[k]] \cap F = {} THEN F ELSE F \cup {d.declared[k]}
           g == [k \in 1 .. n |-> [F \in SUBSET Steps |-> turn(k, F)]]
           K == [k \in 0 .. n |-> SUBSET Steps]
<1>1. n \in Nat /\ \A k \in 1 .. n : d.declared[k] \in Steps
  BY ElementsOf DEF Declaration
<1>2. \A k \in 1 .. n : k \in 0 .. n /\ k # 0 /\ k - 1 \in 0 .. n
  BY <1>1
<1>3. PICK h : Loop(h, n, found, g)
  <2> HIDE DEF g, n
  <2> QED BY <1>1, LoopRuns
<1>4. h[0] = found /\ \A k \in 1 .. n : h[k] = g[k][h[k - 1]]
  <2> HIDE DEF g, n
  <2> QED BY <1>1, <1>2, <1>3 DEF Loop
<1>5. \A k \in 1 .. n : h[k - 1] \in SUBSET Steps => h[k] = turn(k, h[k - 1])
  <2> HIDE DEF n, turn
  <2> QED BY <1>4
<1>6. \A k \in 1 .. n : h[k - 1] \in SUBSET Steps => h[k] \in SUBSET Steps
  <2>1. \A k \in 1 .. n, F \in SUBSET Steps : turn(k, F) \in SUBSET Steps
    BY <1>1
  <2> HIDE DEF n, turn
  <2> QED BY <1>5, <2>1
<1>7. \A k \in 0 .. n : h[k] \in SUBSET Steps
  <2>1. h[0] \in K[0] /\ \A k \in 1 .. n : h[k - 1] \in K[k - 1] => h[k] \in K[k]
    BY <1>1, <1>2, <1>4, <1>6
  <2>2. \A k \in 0 .. n : K[k] = SUBSET Steps
    OBVIOUS
  <2> HIDE DEF K, n
  <2> QED BY <1>1, <2>1, <2>2, LoopKeeps
<1>8. \A k \in 0 .. n : h[k] = IF k = 0 THEN found ELSE turn(k, h[k - 1])
  <2>1. \A k \in 0 .. n : k # 0 => k \in 1 .. n
    BY <1>1
  <2> HIDE DEF n, turn
  <2> QED BY <1>2, <1>4, <1>5, <1>7, <2>1
<1>9. h = [k \in 0 .. n |-> h[k]]
  BY <1>3 DEF Loop
<1>10. h = [k \in 0 .. n |-> IF k = 0 THEN found ELSE turn(k, h[k - 1])]
  <2> HIDE DEF n, turn
  <2> QED BY <1>8, <1>9
<1> QED BY <1>10 DEF SweptLoop

\* A pass finds declared steps besides what was found, none that a closed set
\* around it does not hold, and something unless what was found is closed.
LEMMA SweptIs ==
    ASSUME NEW d, Declaration(d), NEW found \in SUBSET Steps
    PROVE  /\ found \subseteq Swept(d, found)
           /\ Swept(d, found) \subseteq found \cup Range(d.declared)
           /\ \A T : found \subseteq T /\ Closed(d, T) => Swept(d, found) \subseteq T
           /\ Swept(d, found) = found => Closed(d, found)
<1> DEFINE n == Len(d.declared)
           D == d.declared
           K == [k \in 0 .. n |->
                    {F \in SUBSET Steps :
                        /\ found \subseteq F /\ F \subseteq found \cup Range(D)
                        /\ \A T \in SUBSET Steps : found \subseteq T /\ Closed(d, T) => F \subseteq T
                        /\ \A j \in 1 .. k : d.deps[D[j]] \cap found # {} => D[j] \in F}]
<1>1. /\ n \in Nat /\ \A k \in 1 .. n : D[k] \in Steps /\ D[k] \in Range(D)
      /\ Range(D) \subseteq Steps /\ \A x \in Range(D) : \E k \in 1 .. n : D[k] = x
  BY ElementsOf DEF Declaration
<1>2. PICK h : SweptLoop(h, d, found) /\ Swept(d, found) = h[n]
  BY SweptRuns DEF Swept, SweptLoop
<1>3. /\ h[0] = found
      /\ \A k \in 1 .. n : h[k] = IF d.deps[D[k]] \cap h[k - 1] = {} THEN h[k - 1] ELSE h[k - 1] \cup {D[k]}
  <2>1. 0 \in 0 .. n /\ \A k \in 1 .. n : k \in 0 .. n /\ k # 0
    BY <1>1
  <2> QED BY <1>2, <2>1 DEF SweptLoop
<1>4. \A k \in 0 .. n : \A F : F \in K[k] <=>
          /\ F \in SUBSET Steps
          /\ found \subseteq F /\ F \subseteq found \cup Range(D)
          /\ \A T \in SUBSET Steps : found \subseteq T /\ Closed(d, T) => F \subseteq T
          /\ \A j \in 1 .. k : d.deps[D[j]] \cap found # {} => D[j] \in F
  <2> HIDE DEF n, D
  <2> QED OBVIOUS
<1> HIDE DEF K, n, D
<1>5. h[0] \in K[0]
  BY <1>1, <1>3, <1>4
<1>6. ASSUME NEW k \in 1 .. n, h[k - 1] \in K[k - 1] PROVE h[k] \in K[k]
  <2>1. k \in 0 .. n /\ k - 1 \in 0 .. n /\ 1 .. k = 1 .. (k - 1) \cup {k} /\ D[k] \in Steps /\ D[k] \in Range(D)
    BY <1>1
  <2>2. PICK F : F = h[k - 1]
    OBVIOUS
  <2>3. /\ F \in SUBSET Steps
        /\ found \subseteq F /\ F \subseteq found \cup Range(D)
        /\ \A T \in SUBSET Steps : found \subseteq T /\ Closed(d, T) => F \subseteq T
        /\ \A j \in 1 .. (k - 1) : d.deps[D[j]] \cap found # {} => D[j] \in F
    BY <1>4, <1>6, <2>1, <2>2
  <2>4. CASE d.deps[D[k]] \cap F = {}
    <3>1. h[k] = F /\ d.deps[D[k]] \cap found = {}
      BY <1>3, <2>2, <2>3, <2>4
    <3> QED BY <1>4, <2>1, <2>3, <3>1
  <2>5. CASE d.deps[D[k]] \cap F # {}
    <3>1. h[k] = F \cup {D[k]}
      BY <1>3, <2>2, <2>5
    <3>2. \A T \in SUBSET Steps : found \subseteq T /\ Closed(d, T) => F \cup {D[k]} \subseteq T
      <4> SUFFICES ASSUME NEW T \in SUBSET Steps, found \subseteq T, Closed(d, T) PROVE D[k] \in T
        BY <2>3
      <4>1. d.deps[D[k]] \cap T # {}
        BY <2>3, <2>5
      <4> QED BY <2>1, <4>1 DEF Closed, D
    <3>3. \A j \in 1 .. k : d.deps[D[j]] \cap found # {} => D[j] \in F \cup {D[k]}
      BY <2>1, <2>3
    <3>4. F \cup {D[k]} \in SUBSET Steps /\ F \cup {D[k]} \subseteq found \cup Range(D) /\ found \subseteq F \cup {D[k]}
      BY <2>1, <2>3
    <3> QED BY <1>4, <2>1, <3>1, <3>2, <3>3, <3>4
  <2> QED BY <2>4, <2>5
<1>7. h[n] \in K[n] /\ n \in 0 .. n
  <2>1. \A k \in 1 .. n : h[k - 1] \in K[k - 1] => h[k] \in K[k]
    BY <1>6
  <2>2. \A k \in 0 .. n : h[k] \in K[k]
    BY <1>1, <1>5, <2>1, LoopKeeps
  <2> QED BY <1>1, <2>2
<1>8. /\ found \subseteq h[n] /\ h[n] \subseteq found \cup Range(D) /\ h[n] \in SUBSET Steps
      /\ \A T \in SUBSET Steps : found \subseteq T /\ Closed(d, T) => h[n] \subseteq T
      /\ \A j \in 1 .. n : d.deps[D[j]] \cap found # {} => D[j] \in h[n]
  BY <1>4, <1>7
<1>9. \A T : found \subseteq T /\ Closed(d, T) => h[n] \subseteq T
  <2> SUFFICES ASSUME NEW T, found \subseteq T, Closed(d, T) PROVE h[n] \subseteq T
    OBVIOUS
  <2>1. Closed(d, T \cap Steps)
    <3> SUFFICES ASSUME NEW x \in Range(D), d.deps[x] \cap (T \cap Steps) # {} PROVE x \in T \cap Steps
      BY DEF Closed, D
    <3> QED BY <1>1 DEF Closed, D
  <2> QED BY <1>8, <2>1
<1>10. h[n] = found => Closed(d, found)
  BY <1>1, <1>8 DEF Closed, D
<1> QED BY <1>2, <1>8, <1>9, <1>10 DEF D

ImpactedLoop(h, d, s) ==
    h = [k \in 0 .. Len(d.declared) |-> IF k = 0 THEN {s} ELSE Swept(d, h[k - 1])]

\* The passes can be made.
LEMMA ImpactedRuns ==
    ASSUME NEW d, Declaration(d), NEW s \in Steps
    PROVE  \E h : ImpactedLoop(h, d, s)
<1> DEFINE n == Len(d.declared)
           g == [k \in 1 .. n |-> [F \in SUBSET Steps |-> Swept(d, F)]]
           K == [k \in 0 .. n |-> SUBSET Steps]
<1>1. n \in Nat /\ Range(d.declared) \subseteq Steps
  BY ElementsOf DEF Declaration
<1>2. \A k \in 1 .. n : k \in 0 .. n /\ k # 0 /\ k - 1 \in 0 .. n
  BY <1>1
<1>3. PICK h : Loop(h, n, {s}, g)
  <2> HIDE DEF g, n
  <2> QED BY <1>1, LoopRuns
<1>4. h[0] = {s} /\ \A k \in 1 .. n : h[k] = g[k][h[k - 1]]
  <2> DEFINE b == {s}
  <2> HIDE DEF g, n, b
  <2>1. h = [k \in 0 .. n |-> IF k = 0 THEN b ELSE g[k][h[k - 1]]]
    BY <1>3 DEF Loop, b
  <2>2. h[0] = b /\ \A k \in 1 .. n : h[k] = g[k][h[k - 1]]
    BY <1>1, <1>2, <2>1
  <2> QED BY <2>2 DEF b
<1>5. \A k \in 1 .. n : h[k - 1] \in SUBSET Steps => h[k] = Swept(d, h[k - 1])
  <2> HIDE DEF n
  <2> QED BY <1>4
<1>6. \A F \in SUBSET Steps : Swept(d, F) \in SUBSET Steps
  BY <1>1, SweptIs
<1>7. \A k \in 0 .. n : h[k] \in SUBSET Steps
  <2>1. h[0] \in K[0] /\ \A k \in 1 .. n : h[k - 1] \in K[k - 1] => h[k] \in K[k]
    BY <1>1, <1>2, <1>4, <1>5, <1>6
  <2>2. \A k \in 0 .. n : K[k] = SUBSET Steps
    OBVIOUS
  <2> HIDE DEF K, n
  <2> QED BY <1>1, <2>1, <2>2, LoopKeeps
<1>8. \A k \in 0 .. n : h[k] = IF k = 0 THEN {s} ELSE Swept(d, h[k - 1])
  <2>1. \A k \in 0 .. n : k # 0 => k \in 1 .. n
    BY <1>1
  <2> HIDE DEF n
  <2> QED BY <1>2, <1>4, <1>5, <1>7, <2>1
<1>9. h = [k \in 0 .. n |-> h[k]]
  BY <1>3 DEF Loop
<1>10. h = [k \in 0 .. n |-> IF k = 0 THEN {s} ELSE Swept(d, h[k - 1])]
  <2> HIDE DEF n
  <2> QED BY <1>8, <1>9
<1> QED BY <1>10 DEF ImpactedLoop

\* As many passes as there are steps find the least closed set around s: each
\* finds another step, or there is none left to find.
LEMMA ImpactedIs ==
    ASSUME NEW d, Declaration(d), NEW s \in Range(d.declared)
    PROVE  /\ s \in Impacted(d, s) /\ Impacted(d, s) \subseteq Range(d.declared)
           /\ Closed(d, Impacted(d, s))
           /\ \A T : s \in T /\ Closed(d, T) => Impacted(d, s) \subseteq T
<1> DEFINE n == Len(d.declared)
           R == Range(d.declared)
           K == [k \in 0 .. n |->
                    {F \in SUBSET R : /\ s \in F
                                      /\ \A T \in SUBSET R : s \in T /\ Closed(d, T) => F \subseteq T
                                      /\ Closed(d, F) \/ Cardinality(F) > k}]
<1>1. n \in Nat /\ R \subseteq Steps /\ IsFiniteSet(R) /\ Cardinality(R) <= n /\ s \in Steps
  BY ElementsOf DEF Declaration
<1>2. PICK h : ImpactedLoop(h, d, s) /\ Impacted(d, s) = h[n]
  <2>1. \E h : ImpactedLoop(h, d, s)
    BY <1>1, ImpactedRuns
  <2>2. Impacted(d, s) = (CHOOSE h : ImpactedLoop(h, d, s))[n]
    BY DEF Impacted, ImpactedLoop
  <2> QED BY <2>1, <2>2
<1>3. h[0] = {s} /\ \A k \in 1 .. n : h[k] = Swept(d, h[k - 1])
  <2>1. 0 \in 0 .. n /\ \A k \in 1 .. n : k \in 0 .. n /\ k # 0
    BY <1>1
  <2> QED BY <1>2, <2>1 DEF ImpactedLoop
<1>4. \A k \in 0 .. n : \A F : F \in K[k] <=>
          /\ F \in SUBSET R /\ s \in F
          /\ \A T \in SUBSET R : s \in T /\ Closed(d, T) => F \subseteq T
          /\ Closed(d, F) \/ Cardinality(F) > k
  <2> HIDE DEF n, R
  <2> QED OBVIOUS
<1>5. s \in R
  OBVIOUS
<1>6. \A F \in SUBSET R : IsFiniteSet(F) /\ Cardinality(F) \in Nat /\ Cardinality(F) <= Cardinality(R)
  <2> HIDE DEF R
  <2> QED BY <1>1, FS_Subset, FS_CardinalityType
<1> HIDE DEF K, n
<1>7. h[0] \in K[0]
  <2>1. Cardinality({s}) = 1
    BY FS_Singleton
  <2>2. {s} \in SUBSET R /\ 0 \in 0 .. n
    BY <1>1
  <2> HIDE DEF R
  <2> QED BY <1>3, <1>4, <2>1, <2>2
<1>8. ASSUME NEW k \in 1 .. n, h[k - 1] \in K[k - 1] PROVE h[k] \in K[k]
  <2>1. k \in 0 .. n /\ k - 1 \in 0 .. n
    BY <1>1
  <2>2. PICK F : F = h[k - 1]
    OBVIOUS
  <2>3. PICK G : G = Swept(d, F)
    OBVIOUS
  <2>4. /\ F \in SUBSET R /\ s \in F
        /\ \A T \in SUBSET R : s \in T /\ Closed(d, T) => F \subseteq T
        /\ Closed(d, F) \/ Cardinality(F) > k - 1
    BY <1>4, <1>8, <2>1, <2>2
  <2>5. /\ F \subseteq G /\ G \subseteq F \cup R
        /\ \A T : F \subseteq T /\ Closed(d, T) => G \subseteq T
        /\ G = F => Closed(d, F)
    BY <1>1, <2>3, <2>4, SweptIs
  <2> HIDE DEF R
  <2>6. G \in SUBSET R /\ s \in G
    BY <2>4, <2>5
  <2>7. \A T \in SUBSET R : s \in T /\ Closed(d, T) => G \subseteq T
    BY <2>4, <2>5
  <2>8. Closed(d, G) \/ Cardinality(G) > k
    <3>1. CASE Closed(d, F)
      <4>1. G = F
        BY <2>5, <3>1
      <4> QED BY <3>1, <4>1
    <3>2. CASE ~Closed(d, F)
      <4>1. G # F /\ Cardinality(F) > k - 1
        BY <2>4, <2>5, <3>2
      <4>2. Cardinality(F) <= Cardinality(G) /\ Cardinality(F) # Cardinality(G)
        <5>1. IsFiniteSet(G) /\ F \in SUBSET G
          BY <1>6, <2>5, <2>6
        <5> QED BY <4>1, <5>1, FS_Subset
      <4>3. Cardinality(F) \in Nat /\ Cardinality(G) \in Nat /\ k \in Nat
        BY <1>1, <1>6, <2>4, <2>6
      <4> QED BY <4>1, <4>2, <4>3
    <3> QED BY <3>1, <3>2
  <2>9. h[k] = G
    BY <1>3, <2>2, <2>3
  <2> QED BY <1>4, <2>1, <2>6, <2>7, <2>8, <2>9
<1>9. h[n] \in K[n] /\ n \in 0 .. n
  <2>1. \A k \in 1 .. n : h[k - 1] \in K[k - 1] => h[k] \in K[k]
    BY <1>8
  <2>2. \A k \in 0 .. n : h[k] \in K[k]
    BY <1>1, <1>7, <2>1, LoopKeeps
  <2> QED BY <1>1, <2>2
<1>10. /\ h[n] \in SUBSET R /\ s \in h[n]
       /\ \A T \in SUBSET R : s \in T /\ Closed(d, T) => h[n] \subseteq T
       /\ Closed(d, h[n]) \/ Cardinality(h[n]) > n
  <2> HIDE DEF R
  <2> QED BY <1>4, <1>9
<1>11. Closed(d, h[n])
  <2>1. Cardinality(h[n]) \in Nat /\ Cardinality(h[n]) <= Cardinality(R) /\ Cardinality(R) \in Nat
    BY <1>1, <1>6, <1>10
  <2> HIDE DEF R
  <2> QED BY <1>1, <1>10, <2>1
<1>12. \A T : s \in T /\ Closed(d, T) => h[n] \subseteq T
  <2> SUFFICES ASSUME NEW T, s \in T, Closed(d, T) PROVE h[n] \subseteq T
    OBVIOUS
  <2>1. Closed(d, T \cap R)
    BY DEF Closed
  <2>2. s \in T \cap R
    BY <1>5
  <2> HIDE DEF R
  <2> QED BY <1>10, <2>1, <2>2
<1> QED BY <1>2, <1>10, <1>11, <1>12

-----------------------------------------------------------------------------
(* Three kinds of steps of the run task *)

\* Events that neither start a step nor finish one, nor announce a result.
Incidental(es) ==
    \A x \in Range(es) : /\ x.type \notin {"StepStarted", "StepFinished"}
                         /\ x.type = "RunStatusChanged" => x.status \notin Terminal

OtherOutputsStay == \A s \in Steps : s # Step => outputs'[s] = outputs[s]

\* Moving on, obeying a command, repeating an attempt, completing.
Aside ==
    /\ UNCHANGED <<wf, status>>
    /\ \E es \in Seq(Event) : Emit(es) /\ Incidental(es)
    /\ \/ phase # "execute" /\ phase' # "execute" /\ UNCHANGED outputs
       \/ phase = "execute" /\ phase' = "execute" /\ UNCHANGED pos /\ OtherOutputsStay

Starting ==
    /\ UNCHANGED <<wf, status, outputs, pos>>
    /\ phase = "prepare" /\ phase' = "execute"
    /\ ~Blocked(Step)
    /\ Emit(<<StepStarted(pos - 1, Step)>>)

Settling ==
    /\ UNCHANGED wf
    /\ phase \in {"prepare", "execute"} /\ phase' # "execute"
    /\ OtherOutputsStay
    /\ \E st \in Outcomes, o \in Outputs \ {"absent"}, n \in Nat, before, after \in Seq(Event) :
           /\ Settle(st, o, n, before, after)
           /\ st = "Succeeded" => phase = "execute"
           /\ Incidental(before) /\ Incidental(after)

\* The steps that say nothing and settle nothing are asides.
LEMMA SilentAside ==
    ASSUME UNCHANGED <<wf, status, outputs, events>>, TypeOK, phase # "execute", phase' # "execute"
    PROVE  Aside
<1>1. <<>> \in Seq(Event) /\ Range(<<>>) = {}
  BY EmptySeq DEF Range
<1>2. Emit(<<>>)
  BY ConcatEmptySeq DEF Emit, TypeOK
<1>3. Incidental(<<>>)
  BY <1>1 DEF Incidental
<1> QED BY <1>1, <1>2, <1>3 DEF Aside

\* So are those that say one such thing.
LEMMA SpokenAside ==
    ASSUME NEW e \in Event, Emit(<<e>>), UNCHANGED <<wf, status>>,
           e.type \notin {"StepStarted", "StepFinished"},
           e.type = "RunStatusChanged" => e.status \notin Terminal,
           \/ phase # "execute" /\ phase' # "execute" /\ UNCHANGED outputs
           \/ phase = "execute" /\ phase' = "execute" /\ UNCHANGED pos /\ OtherOutputsStay
    PROVE  Aside
<1>1. <<e>> \in Seq(Event) /\ Range(<<e>>) = {e}
  BY DEF Range
<1>2. Incidental(<<e>>)
  BY <1>1 DEF Incidental
<1> QED BY <1>1, <1>2 DEF Aside

\* The end of an executed step settles it.
LEMMA ExecutedSettles ==
    ASSUME TypeOK, phase = "execute", NEW r \in CommandResults \cup AttemptResults(Step),
           NEW st \in Outcomes, NEW n \in Nat, NEW announced \in Seq(Event),
           SettleExecuted(r, st, n, announced), Incidental(announced)
    PROVE  Settling
<1> DEFINE after == IF st = "Succeeded" THEN <<RunOutputAccumulated(Step, r.output)>> ELSE <<>>
<1>1. Step \in Steps /\ r.output \in Outputs \ {"absent"}
  <2>1. r.output \in Outputs \ {"absent"}
    BY DEF CommandResults, AttemptResults, Outputs
  <2> QED BY <2>1, StepIsAStep DEF TypeOK, InLoop
<1>2. after \in Seq(Event)
  BY <1>1, EventKinds, EmptySeq
<1>3. Incidental(after)
  BY DEF Incidental, Range, RunOutputAccumulated
<1>4. Settle(st, r.output, n, announced, after)
  BY DEF SettleExecuted
<1>5. OtherOutputsStay /\ UNCHANGED wf /\ phase' # "execute"
  BY <1>1 DEF SettleExecuted, OtherOutputsStay, TypeOK
<1> HIDE DEF after
<1> QED BY <1>1, <1>2, <1>3, <1>4, <1>5 DEF Settling

\* Every step of the run task is of one of the three kinds.
LEMMA StepKinds ==
    ASSUME TypeOK, ProgressInv, wf.planned, RunTask
    PROVE  Aside \/ Starting \/ Settling
<1>1. CASE Begin
  <2>1. UNCHANGED <<wf, status, outputs>> /\ phase # "execute" /\ phase' # "execute"
    BY <1>1 DEF Begin, local
  <2>2. CASE UNCHANGED events
    BY <2>1, <2>2, SilentAside
  <2>3. CASE Emit(<<RunStarted, RunStatusChanged("Running")>>)
    <3> DEFINE es == <<RunStarted, RunStatusChanged("Running")>>
    <3>1. es \in Seq(Event) /\ Emit(es)
      BY <2>3, EventKinds DEF Statuses
    <3>2. Incidental(es)
      BY DEF Incidental, Range, RunStarted, RunStatusChanged, Terminal
    <3> HIDE DEF es
    <3> QED BY <2>1, <3>1, <3>2 DEF Aside
  <2> QED BY <1>1, <2>2, <2>3 DEF Begin
<1>2. CASE Drain \/ AwaitCommand
  <2>1. /\ UNCHANGED <<wf, status, outputs>> /\ phase # "execute" /\ phase' # "execute"
        /\ ProcessCommand
    BY <1>2 DEF Drain, AwaitCommand, Waiting, ProcessCommand, local
  <2>2. CASE UNCHANGED events
    BY <2>1, <2>2, SilentAside
  <2>3. CASE Emit(<<RunStatusChanged(StatusOf(Head(control)))>>)
    <3> DEFINE e == RunStatusChanged(StatusOf(Head(control)))
    <3>1. Head(control) \in Commands
      BY <2>1, HeadTailProperties DEF ProcessCommand, TypeOK
    <3>2. StatusOf(Head(control)) \in Statuses \ Terminal
      BY <3>1 DEF StatusOf, Commands, Statuses, Terminal
    <3>3. e \in Event /\ e.type = "RunStatusChanged" /\ e.status \notin Terminal
      BY <3>2, EventKinds DEF RunStatusChanged
    <3>4. Emit(<<e>>)
      BY <2>3
    <3> HIDE DEF e
    <3> QED BY <2>1, <3>3, <3>4, SpokenAside
  <2> QED BY <2>1, <2>2, <2>3 DEF ProcessCommand
<1>3. CASE EndDrain \/ EndWait
  <2>1. UNCHANGED <<wf, status, outputs, events>> /\ phase # "execute" /\ phase' # "execute"
    BY <1>3 DEF EndDrain, EndWait, Waiting, Proceed, NextIteration
  <2> QED BY <2>1, SilentAside
<1>4. CASE SkipBlocked \/ SkipByCondition \/ FailUnresolved
  <2>1. PICK st \in Outcomes \ {"Succeeded"} : SettleUnstarted(st) /\ phase = "prepare"
    BY <1>4 DEF SkipBlocked, SkipByCondition, FailUnresolved, Outcomes
  <2>2. Settle(st, "null", 0, <<>>, <<>>) /\ phase' # "execute" /\ UNCHANGED <<wf, outputs>>
    BY <2>1 DEF SettleUnstarted, NextIteration
  <2>3. <<>> \in Seq(Event) /\ Incidental(<<>>) /\ "null" \in Outputs \ {"absent"}
    BY EmptySeq DEF Incidental, Range, Outputs
  <2>4. OtherOutputsStay
    BY <2>2 DEF OtherOutputsStay
  <2> QED BY <2>1, <2>2, <2>3, <2>4 DEF Settling
<1>5. CASE StartStep
  BY <1>5 DEF StartStep, Starting
<1>6. CASE RunStep
  <2>1. PICK r \in CommandResults : SettleExecuted(r, r.status, 1, <<>>)
    BY <1>6 DEF RunStep
  <2>2. r.status \in Outcomes
    BY DEF CommandResults, Outcomes
  <2>3. <<>> \in Seq(Event) /\ Incidental(<<>>) /\ phase = "execute"
    BY <1>6, EmptySeq DEF Incidental, Range, RunStep
  <2> QED BY <2>1, <2>2, <2>3, ExecutedSettles
<1>7. CASE RepeatAgain
  <2>1. /\ UNCHANGED <<wf, status, pos, phase>> /\ phase = "execute"
        /\ Emit(<<StepAttempt(Step, attempts + 1)>>)
    BY <1>7 DEF RepeatAgain
  <2>2. Step \in Steps /\ attempts + 1 \in Nat
    BY <2>1, StepIsAStep DEF TypeOK, InLoop
  <2>3. OtherOutputsStay
    BY <1>7, <2>2 DEF RepeatAgain, OtherOutputsStay, TypeOK
  <2> DEFINE e == StepAttempt(Step, attempts + 1)
  <2>4. e \in Event
    BY <2>2, EventKinds
  <2>5. e.type = "StepAttempt" /\ Emit(<<e>>)
    BY <2>1 DEF StepAttempt
  <2> HIDE DEF e
  <2> QED BY <2>1, <2>3, <2>4, <2>5, SpokenAside
<1>8. CASE RepeatEnd
  <2> DEFINE announced == <<StepAttempt(Step, attempts + 1)>>
  <2>1. PICK r \in AttemptResults(Step), until \in {"holds", "unresolved", "fails"} :
          SettleExecuted(r, IF until = "holds" THEN r.status ELSE "Failed", attempts + 1, announced)
    BY <1>8 DEF RepeatEnd
  <2>2. r.status \in Outcomes
    BY DEF AttemptResults, CommandResults, Outcomes
  <2>3. (IF until = "holds" THEN r.status ELSE "Failed") \in Outcomes
    BY <2>2 DEF Outcomes
  <2>4. attempts + 1 \in Nat /\ announced \in Seq(Event) /\ phase = "execute"
    BY <1>8, StepIsAStep, EventKinds DEF RepeatEnd, TypeOK, InLoop
  <2>5. Incidental(announced)
    BY DEF Incidental, StepAttempt, Range
  <2> HIDE DEF announced
  <2> QED BY <2>1, <2>3, <2>4, <2>5, ExecutedSettles
<1>9. CASE Complete
  <2>1. UNCHANGED <<wf, status, outputs>> /\ phase # "execute" /\ phase' # "execute"
    BY <1>9 DEF Complete, local
  <2> DEFINE e == RunCompleted(CompletedStatus)
  <2>2. e \in Event /\ e.type = "RunCompleted" /\ Emit(<<e>>)
    BY <1>9, EventKinds DEF Complete, CompletedStatus, Statuses, RunCompleted
  <2> HIDE DEF e
  <2> QED BY <2>1, <2>2, SpokenAside
<1> QED BY <1>1, <1>2, <1>3, <1>4, <1>5, <1>6, <1>7, <1>8, <1>9 DEF RunTask

-----------------------------------------------------------------------------
(* The task under the view of it, and reruns *)

\* The steps said to be finished are the planned ones that settled, and came to
\* what is said of them, with an output; those said to be started stand where
\* they are said to stand in the plan and are settled or being executed; none
\* starts after it has finished.  The end of a run is announced by its
\* completion only.
StreamInv ==
    /\ \A e \in Said :
          /\ e.type = "StepFinished" =>
                e.step \in Planned /\ status[e.step] = e.status /\ e.output # "absent"
          /\ e.type = "StepStarted" =>
                /\ e.index + 1 \in Places /\ wf.order[e.index + 1] = e.step
                /\ status[e.step] # "pending" \/ (phase = "execute" /\ Step = e.step)
          /\ e.type = "RunStatusChanged" => e.status \notin Terminal
    /\ \A s \in Steps : status[s] # "pending" => s \in Planned /\ \E e \in Said : IsFinish(e, s)
    /\ \A i, j \in DOMAIN events :
          i < j /\ events[i].type = "StepFinished" /\ events[j].type = "StepStarted" =>
              events[i].step # events[j].step

\* A step is executed, and succeeds, when all it depends on has succeeded; until
\* it is executed its output is the one the run was given.
StepsInv ==
    /\ phase = "execute" => ~Blocked(Step)
    /\ \A s \in Planned : status[s] = "Succeeded" => \A d \in wf.deps[s] : status[d] = "Succeeded"
    /\ \A s \in Steps : status[s] = "pending" /\ ~(phase = "execute" /\ Step = s) => outputs[s] = wf.seeds[s]

\* The run under the view: planned, and listened to.
TaskInv ==
    /\ TypeInv /\ ProgressInv /\ CompletionInv
    /\ wf.planned /\ eventsOpen
    /\ StreamInv /\ StepsInv

\* What the view has heard.
Heard == {events[j] : j \in 1 .. delivered}

\* A row shown as failed is of a step that failed; the run is shown to be over
\* when its completion has been heard; an output is missing from the context
\* only if the run was given none and none has been heard of.  In a plan in the
\* order of declaration, a row shows what its step is heard to have come to, and
\* nothing of a step that has not been heard of.
ViewInv ==
    /\ delivered \in 0 .. Len(events)
    /\ rows \in [DOMAIN wf.declared -> [step : Steps, shown : Outcomes \cup {"pending", "running"}]]
    /\ \A k \in DOMAIN rows : /\ rows[k].step = wf.declared[k]
                              /\ rows[k].shown = "Failed" => status[rows[k].step] = "Failed"
    /\ shown \in Terminal => \E e \in Heard : e.type = "RunCompleted"
    /\ context \in [Steps -> Outputs]
    /\ \A s \in Steps : context[s] = "absent" =>
          wf.seeds[s] = "absent" /\ \A e \in Heard : ~IsFinish(e, s)
    /\ wf.order = wf.declared => \A k \in DOMAIN rows :
          /\ (\E e \in Heard : IsFinish(e, rows[k].step)) => rows[k].shown = status[rows[k].step]
          /\ \/ \E e \in Heard : e.type \in {"StepStarted", "StepFinished"} /\ e.step = rows[k].step
             \/ rows[k].shown = "pending"

\* What is remembered of a step over all runs is what it came to in this one, if
\* it has; no step that has yet to has succeeded before; and no declared step is
\* given an output, while those that succeeded and are not declared are.
HistoryInv ==
    /\ \A s \in Steps : status[s] # "pending" => settled[s] = status[s]
    /\ \A s \in Range(wf.declared) : status[s] = "pending" => settled[s] # "Succeeded"
    /\ \A s \in Steps \ Range(wf.declared) : settled[s] = "Succeeded" => wf.seeds[s] # "absent"
    /\ \A s \in Range(wf.declared) : wf.seeds[s] = "absent"

\* What is declared is part of what was first run, with the dependencies among
\* it, and holds all that depends on it; after a rerun it is the least such set
\* around one of its steps.
ScopeInv ==
    LET scope == Range(wf.declared) IN
    /\ original \in Workflows /\ reruns \in Nat
    /\ scope \subseteq Range(original.declared)
    /\ \A x \in scope : wf.deps[x] = original.deps[x] \cap scope
    /\ Follows(scope)
    /\ reruns > 0 => \E f \in scope : \A T \in SUBSET scope : f \in T /\ Follows(T) => T = scope

-----------------------------------------------------------------------------
(* The task keeps them *)

\* Events that start no step keep the order of starts and ends.
LEMMA OrderIsKept ==
    ASSUME StreamInv, events \in Seq(Event), NEW es \in Seq(Event), Emit(es),
           \A x \in Range(es) : x.type # "StepStarted"
    PROVE  \A i, j \in DOMAIN events' :
              i < j /\ events'[i].type = "StepFinished" /\ events'[j].type = "StepStarted" =>
                  events'[i].step # events'[j].step
<1> SUFFICES ASSUME NEW i \in DOMAIN events', NEW j \in DOMAIN events', i < j,
                    events'[i].type = "StepFinished", events'[j].type = "StepStarted"
             PROVE  events'[i].step # events'[j].step
  OBVIOUS
<1>1. /\ DOMAIN events = 1 .. Len(events) /\ DOMAIN events' = 1 .. Len(events') /\ Len(events) \in Nat
      /\ \A k \in DOMAIN events : events'[k] = events[k]
      /\ \A k \in DOMAIN events' : k \notin DOMAIN events => events'[k] \in Range(es)
  BY EmitAppends, LenProperties DEF Range
<1>2. j \in DOMAIN events
  BY <1>1
<1>3. i \in DOMAIN events
  BY <1>1, <1>2
<1> QED BY <1>1, <1>2, <1>3 DEF StreamInv

\* An aside changes nothing the stream tells of.
LEMMA AsideKeepsStream ==
    ASSUME TypeOK, StreamInv, Aside
    PROVE  StreamInv'
<1>1. PICK es \in Seq(Event) : Emit(es) /\ Incidental(es)
  BY DEF Aside
<1>2. Said \subseteq Said' /\ \A e \in Said' : e \in Said \/ e \in Range(es)
  BY <1>1, EmitSays DEF TypeOK
<1>3. /\ Planned' = Planned /\ Places' = Places /\ wf' = wf /\ status' = status
      /\ phase = "execute" => phase' = "execute" /\ Step' = Step
  BY DEF Aside, Planned, Places, Step
<1>4. ASSUME NEW e \in Said'
      PROVE  /\ e.type = "StepFinished" =>
                   e.step \in Planned' /\ status'[e.step] = e.status /\ e.output # "absent"
             /\ e.type = "StepStarted" =>
                   /\ e.index + 1 \in Places' /\ wf'.order[e.index + 1] = e.step
                   /\ status'[e.step] # "pending" \/ (phase' = "execute" /\ Step' = e.step)
             /\ e.type = "RunStatusChanged" => e.status \notin Terminal
  <2>1. CASE e \in Said
    BY <1>3, <2>1 DEF StreamInv
  <2>2. CASE e \in Range(es)
    BY <1>1, <2>2 DEF Incidental
  <2> QED BY <1>2, <2>1, <2>2
<1>5. \A s \in Steps : status'[s] # "pending" => s \in Planned' /\ \E e \in Said' : IsFinish(e, s)
  BY <1>2, <1>3 DEF StreamInv
<1>6. \A i, j \in DOMAIN events' :
         i < j /\ events'[i].type = "StepFinished" /\ events'[j].type = "StepStarted" =>
             events'[i].step # events'[j].step
  BY <1>1, OrderIsKept DEF Incidental, TypeOK
<1> QED BY <1>4, <1>5, <1>6 DEF StreamInv, IsFinish

\* The step at hand is one of those planned, and pending until it settles.
LEMMA StepAtHand ==
    ASSUME TypeOK, ProgressInv, phase \in {"prepare", "execute"}
    PROVE  /\ pos \in Places /\ Step = wf.order[pos] /\ Step \in Planned /\ Step \in Steps
           /\ status[Step] = "pending" /\ wf.planned
<1>1. pos \in Places /\ Step = wf.order[pos] /\ Step \in Steps /\ wf.planned
  BY StepIsAStep DEF TypeOK, InLoop, Places, Step, ProgressInv
<1>2. Step \in Planned
  BY <1>1 DEF Planned, Range, Places
<1>3. SettledUpToHere /\ ~Passed(pos) /\ phase \in InLoop
  BY DEF ProgressInv, Passed, InLoop, TypeOK
<1> QED BY <1>1, <1>2, <1>3 DEF SettledUpToHere

\* What starts and ends of steps carry.
LEMMA StepEvents ==
    ASSUME NEW e \in Event
    PROVE  /\ e.type = "StepFinished" => e.step \in Steps /\ e.status \in Outcomes /\ e.output \in Outputs
           /\ e.type = "StepStarted" => e.step \in Steps /\ e.index \in Nat
<1>1. CASE e \in {RunStarted} \cup {RunStatusChanged(st) : st \in Statuses} \cup {RunCompleted(st) : st \in Statuses}
  BY <1>1 DEF RunStarted, RunStatusChanged, RunCompleted
<1>2. CASE e \in [type : {"StepStarted"}, index : Nat, step : Steps]
  BY <1>2
<1>3. CASE e \in [type : {"StepAttempt"}, step : Steps, attempt : Nat]
  BY <1>3
<1>4. CASE e \in [type : {"StepFinished"}, step : Steps, status : Outcomes, output : Outputs, attempts : Nat]
  BY <1>4
<1>5. CASE e \in [type : {"RunOutputAccumulated"}, step : Steps, output : Outputs]
  BY <1>5
<1> QED BY <1>1, <1>2, <1>3, <1>4, <1>5 DEF Event

\* A step that is started is said to start, at its place in the plan.
LEMMA StartingKeepsStream ==
    ASSUME TypeOK, ProgressInv, eventsOpen, StreamInv, Starting
    PROVE  StreamInv'
<1> DEFINE new == StepStarted(pos - 1, Step)
<1>1. /\ pos \in Places /\ Step = wf.order[pos] /\ Step \in Steps /\ status[Step] = "pending"
      /\ pos \in Nat \ {0}
  BY StepAtHand DEF Starting, TypeOK
<1>2. new \in Event /\ new.type = "StepStarted" /\ new.index + 1 = pos /\ new.step = Step
  BY <1>1, EventKinds DEF StepStarted
<1>3. Emit(<<new>>) /\ <<new>> \in Seq(Event) /\ Range(<<new>>) = {new}
  BY <1>2 DEF Starting, Range
<1> HIDE DEF new
<1>4. Said' = Said \cup {new}
  BY <1>3, EmitSays DEF TypeOK
<1>5. /\ Planned' = Planned /\ Places' = Places /\ wf' = wf /\ status' = status
      /\ phase # "execute" /\ phase' = "execute" /\ Step' = Step
  BY DEF Starting, Planned, Places, Step
<1>6. ASSUME NEW e \in Said'
      PROVE  /\ e.type = "StepFinished" =>
                   e.step \in Planned' /\ status'[e.step] = e.status /\ e.output # "absent"
             /\ e.type = "StepStarted" =>
                   /\ e.index + 1 \in Places' /\ wf'.order[e.index + 1] = e.step
                   /\ status'[e.step] # "pending" \/ (phase' = "execute" /\ Step' = e.step)
             /\ e.type = "RunStatusChanged" => e.status \notin Terminal
  <2>1. CASE e \in Said
    BY <1>5, <2>1 DEF StreamInv
  <2>2. CASE e = new
    BY <1>1, <1>2, <1>5, <2>2
  <2> QED BY <1>4, <2>1, <2>2
<1>7. \A s \in Steps : status'[s] # "pending" => s \in Planned' /\ \E e \in Said' : IsFinish(e, s)
  BY <1>4, <1>5 DEF StreamInv
<1>8. ASSUME NEW i \in DOMAIN events', NEW j \in DOMAIN events', i < j,
             events'[i].type = "StepFinished", events'[j].type = "StepStarted"
      PROVE  events'[i].step # events'[j].step
  <2>1. /\ DOMAIN events = 1 .. Len(events) /\ DOMAIN events' = 1 .. Len(events') /\ Len(events) \in Nat
        /\ \A k \in DOMAIN events : events'[k] = events[k]
        /\ \A k \in DOMAIN events' : k \notin DOMAIN events => events'[k] = new
    <3> DEFINE es == <<new>>
    <3>1. es \in Seq(Event) /\ Emit(es) /\ Range(es) = {new} /\ events \in Seq(Event)
      BY <1>3 DEF TypeOK
    <3> HIDE DEF es
    <3>2. \A k \in DOMAIN es : es[k] = new
      BY <3>1 DEF Range
    <3>3. Len(events) \in Nat /\ DOMAIN events = 1 .. Len(events)
      BY <3>1, LenProperties
    <3> QED BY <3>1, <3>2, <3>3, EmitAppends
  <2>2. i \in DOMAIN events
    BY <1>2, <1>8, <2>1
  <2>3. CASE j \in DOMAIN events
    BY <1>8, <2>1, <2>2, <2>3 DEF StreamInv
  <2>4. CASE j \notin DOMAIN events
    <3>1. events[i] \in Said /\ events[i].type = "StepFinished" /\ events'[j].step = Step
      BY <1>2, <1>8, <2>1, <2>2, <2>4 DEF Said, Range
    <3>2. status[events[i].step] = events[i].status /\ events[i].status \in Outcomes
      <4>1. events[i] \in Event
        BY <2>2 DEF TypeOK
      <4> QED BY <3>1, <4>1, StepEvents DEF StreamInv
    <3> QED BY <1>1, <2>1, <2>2, <3>1, <3>2 DEF Outcomes
  <2> QED BY <2>3, <2>4
<1> QED BY <1>6, <1>7, <1>8 DEF StreamInv, IsFinish

\* A step that settles is said to be finished, and is no longer pending.
LEMMA SettlingKeepsStream ==
    ASSUME TypeOK, ProgressInv, eventsOpen, StreamInv, Settling
    PROVE  StreamInv'
<1>1. PICK st \in Outcomes, o \in Outputs \ {"absent"}, n \in Nat, before \in Seq(Event), after \in Seq(Event) :
        /\ Settle(st, o, n, before, after)
        /\ Incidental(before) /\ Incidental(after)
  BY DEF Settling
<1>2. Step \in Planned /\ Step \in Steps /\ status[Step] = "pending"
  BY StepAtHand DEF Settling
<1> DEFINE new == StepFinished(Step, st, o, n)
           es  == before \o <<new>> \o after
<1>3. /\ new \in Event /\ new.type = "StepFinished" /\ new.step = Step
      /\ new.status = st /\ new.output = o
  BY <1>1, <1>2, EventKinds DEF StepFinished
<1>4. Emit(es) /\ status' = [status EXCEPT ![Step] = st]
  BY <1>1 DEF Settle
<1> HIDE DEF new
<1>5. es \in Seq(Event) /\ Range(es) = Range(before) \cup {new} \cup Range(after)
  BY <1>3, SettleSays
<1> HIDE DEF es
<1>6. Said' = Said \cup Range(before) \cup {new} \cup Range(after)
  BY <1>4, <1>5, EmitSays DEF TypeOK
<1>7. Planned' = Planned /\ Places' = Places /\ wf' = wf /\ phase' # "execute"
  BY DEF Settling, Planned, Places
<1>8. status'[Step] = st /\ st # "pending" /\ \A s \in Steps : s # Step => status'[s] = status[s]
  BY <1>1, <1>2, <1>4 DEF TypeOK, Outcomes
<1>9. ASSUME NEW e \in Said'
      PROVE  /\ e.type = "StepFinished" =>
                   e.step \in Planned' /\ status'[e.step] = e.status /\ e.output # "absent"
             /\ e.type = "StepStarted" =>
                   /\ e.index + 1 \in Places' /\ wf'.order[e.index + 1] = e.step
                   /\ status'[e.step] # "pending" \/ (phase' = "execute" /\ Step' = e.step)
             /\ e.type = "RunStatusChanged" => e.status \notin Terminal
  <2>1. CASE e \in Said
    <3>1. e \in Event
      BY <2>1, RangeOfSeq DEF Said, TypeOK
    <3>2. e.type = "StepFinished" => e.step \in Steps /\ e.step # Step
      BY <1>2, <2>1, <3>1, StepEvents DEF StreamInv, Outcomes
    <3>3. e.type = "StepStarted" => e.step \in Steps /\ (status[e.step] # "pending" \/ e.step = Step)
      BY <2>1, <3>1, StepEvents DEF StreamInv
    <3> QED BY <1>7, <1>8, <2>1, <3>2, <3>3 DEF StreamInv
  <2>2. CASE e \in Range(before) \cup Range(after)
    BY <1>1, <2>2 DEF Incidental
  <2>3. CASE e = new
    BY <1>1, <1>2, <1>3, <1>7, <1>8, <2>3
  <2> QED BY <1>6, <2>1, <2>2, <2>3
<1>10. ASSUME NEW s \in Steps, status'[s] # "pending"
       PROVE  s \in Planned' /\ \E e \in Said' : IsFinish(e, s)
  <2>1. CASE s = Step
    BY <1>2, <1>3, <1>6, <1>7, <2>1 DEF IsFinish
  <2>2. CASE s # Step
    BY <1>6, <1>7, <1>8, <1>10, <2>2 DEF StreamInv
  <2> QED BY <2>1, <2>2
<1>11. \A i, j \in DOMAIN events' :
          i < j /\ events'[i].type = "StepFinished" /\ events'[j].type = "StepStarted" =>
              events'[i].step # events'[j].step
  <2>1. \A x \in Range(es) : x.type # "StepStarted"
    BY <1>1, <1>3, <1>5 DEF Incidental
  <2> QED BY <1>4, <1>5, <2>1, OrderIsKept DEF TypeOK
<1> QED BY <1>9, <1>10, <1>11 DEF StreamInv, IsFinish

\* What each kind of step does to the dependencies and the outputs.
LEMMA KindsKeepSteps ==
    ASSUME TypeOK, ProgressInv, StepsInv, Aside \/ Starting \/ Settling
    PROVE  StepsInv'
<1>1. CASE Aside
  <2>1. wf' = wf /\ status' = status /\ Planned' = Planned
    BY <1>1 DEF Aside, Planned
  <2>2. CASE phase # "execute" /\ phase' # "execute" /\ UNCHANGED outputs
    BY <2>1, <2>2 DEF StepsInv
  <2>3. CASE phase = "execute" /\ phase' = "execute" /\ UNCHANGED pos /\ OtherOutputsStay
    <3>1. Step' = Step
      BY <2>1, <2>3 DEF Step
    <3>2. Blocked(Step)' <=> Blocked(Step)
      BY <2>1, <3>1 DEF Blocked
    <3> QED BY <2>1, <2>3, <3>1, <3>2 DEF StepsInv, OtherOutputsStay
  <2> QED BY <1>1, <2>2, <2>3 DEF Aside
<1>2. CASE Starting
  <2>1. /\ wf' = wf /\ status' = status /\ outputs' = outputs /\ Planned' = Planned /\ Step' = Step
        /\ phase # "execute" /\ ~Blocked(Step)
    BY <1>2 DEF Starting, Planned, Step
  <2>2. ~(Blocked(Step)')
    BY <2>1 DEF Blocked
  <2> QED BY <2>1, <2>2 DEF StepsInv
<1>3. CASE Settling
  <2>1. PICK st \in Outcomes : status' = [status EXCEPT ![Step] = st] /\ (st = "Succeeded" => phase = "execute")
    BY <1>3 DEF Settling, Settle
  <2>2. Step \in Planned /\ Step \in Steps /\ status[Step] = "pending"
    BY <1>3, StepAtHand DEF Settling
  <2>3. wf' = wf /\ Planned' = Planned /\ phase' # "execute" /\ OtherOutputsStay
    BY <1>3 DEF Settling, Planned
  <2>4. status'[Step] = st /\ st # "pending" /\ \A s \in Steps : s # Step => status'[s] = status[s]
    BY <2>1, <2>2 DEF TypeOK, Outcomes
  <2>5. Planned \subseteq Steps /\ wf.deps \in [Steps -> SUBSET Steps]
    BY RunAssumption, RangeOfSeq DEF Planned, TypeOK, Workflow
  <2>6. ASSUME NEW s \in Planned, status'[s] = "Succeeded", NEW d \in wf.deps[s]
        PROVE  status'[d] = "Succeeded"
    <3>1. status[d] = "Succeeded"
      <4>1. CASE s = Step
        BY <2>1, <2>4, <2>6, <4>1 DEF StepsInv, Blocked
      <4>2. CASE s # Step
        BY <2>4, <2>5, <2>6, <4>2 DEF StepsInv
      <4> QED BY <4>1, <4>2
    <3>2. d \in Steps /\ d # Step
      BY <2>2, <2>5, <2>6, <3>1
    <3> QED BY <2>4, <3>1, <3>2
  <2>7. ASSUME NEW s \in Steps, status'[s] = "pending" PROVE outputs'[s] = wf'.seeds[s]
    <3>1. s # Step
      BY <2>4, <2>7
    <3> QED BY <2>3, <2>4, <2>7, <3>1 DEF StepsInv, OtherOutputsStay
  <2> QED BY <2>3, <2>6, <2>7 DEF StepsInv
<1> QED BY <1>1, <1>2, <1>3

\* A step of the task settles only the step at hand, which was pending.
LEMMA StatusOnce ==
    ASSUME TypeOK, ProgressInv, wf.planned, RunTask
    PROVE  \A s \in Steps : status'[s] # status[s] =>
               status[s] = "pending" /\ status'[s] \in Outcomes /\ s \in Planned
<1>1. CASE Aside \/ Starting
  BY <1>1 DEF Aside, Starting
<1>2. CASE Settling
  <2>1. PICK st \in Outcomes : status' = [status EXCEPT ![Step] = st]
    BY <1>2 DEF Settling, Settle
  <2>2. Step \in Planned /\ Step \in Steps /\ status[Step] = "pending"
    BY <1>2, StepAtHand DEF Settling
  <2> QED BY <2>1, <2>2 DEF TypeOK
<1> QED BY <1>1, <1>2, StepKinds

\* A run that has just been asked for, and has a plan, is as TaskInv says.
LEMMA CreatedTask ==
    wf \in Workflows /\ wf.planned /\ Created /\ commandsSent \in 0 .. MaxCommands => TaskInv
<1> SUFFICES ASSUME wf \in Workflows, wf.planned, Created, commandsSent \in 0 .. MaxCommands
             PROVE  TaskInv
  OBVIOUS
<1>1. TypeInv /\ ProgressInv /\ CompletionInv /\ eventsOpen
  BY CreatedTypes, CreatedProgress, CreatedRecord DEF Created
<1>2. Said = {} /\ DOMAIN events = {} /\ \A s \in Steps : status[s] = "pending"
  BY DEF Created, Said, Range
<1>3. StreamInv
  BY <1>2 DEF StreamInv
<1>4. Planned \subseteq Steps
  BY RunAssumption, RangeOfSeq DEF Planned, Workflow
<1>5. StepsInv
  BY <1>2, <1>4 DEF StepsInv, Created
<1> QED BY <1>1, <1>3, <1>5 DEF TaskInv

\* A step of the task, a command sent and a sender dropped keep it so.
LEMMA TaskStays ==
    TaskInv /\ (RunTask \/ SendCommand \/ DropControl \/ UNCHANGED vars) => TaskInv'
<1> SUFFICES ASSUME TaskInv, RunTask \/ SendCommand \/ DropControl \/ UNCHANGED vars PROVE TaskInv'
  OBVIOUS
<1>1. TypeInv' /\ ProgressInv' /\ CompletionInv'
  BY TypeStep, ProgressStep, CompletionStep DEF TaskInv, TypeInv, Next
<1>2. CASE RunTask
  <2>1. TypeOK /\ ProgressInv /\ eventsOpen /\ StreamInv /\ StepsInv /\ wf.planned
    BY DEF TaskInv, TypeInv
  <2>2. Aside \/ Starting \/ Settling
    BY <1>2, <2>1, StepKinds
  <2>3. StreamInv' /\ StepsInv'
    BY <2>1, <2>2, AsideKeepsStream, StartingKeepsStream, SettlingKeepsStream, KindsKeepSteps
  <2>4. wf' = wf
    BY <2>2 DEF Aside, Starting, Settling
  <2>5. eventsOpen' = eventsOpen
    BY <1>2 DEF RunTask, Begin, Drain, EndDrain, AwaitCommand, EndWait, SkipBlocked, SkipByCondition,
         FailUnresolved, StartStep, RunStep, RepeatAgain, RepeatEnd, Complete, ProcessCommand,
         SettleUnstarted, SettleExecuted, channels
  <2> QED BY <1>1, <2>1, <2>3, <2>4, <2>5 DEF TaskInv
<1>3. CASE SendCommand \/ DropControl \/ UNCHANGED vars
  <2>1. UNCHANGED <<wf, phase, local, events, eventsOpen>>
    BY <1>3 DEF SendCommand, DropControl, vars, channels
  <2>2. /\ UNCHANGED <<wf, phase, pos, status, outputs, events, eventsOpen>>
        /\ Step' = Step /\ Planned' = Planned /\ Places' = Places /\ Said' = Said
    BY <2>1 DEF local, Step, Planned, Places, Said
  <2>3. StreamInv'
    BY <2>2 DEF TaskInv, StreamInv, IsFinish
  <2>4. Blocked(Step)' <=> Blocked(Step)
    BY <2>2 DEF Blocked
  <2>5. StepsInv'
    BY <2>2, <2>4 DEF TaskInv, StepsInv
  <2> QED BY <1>1, <2>2, <2>3, <2>5 DEF TaskInv
<1> QED BY <1>2, <1>3

\* The view and its user let the task go on.
LEMMA TaskGoesOn ==
    ASSUME TaskInv, TaskStep \/ PressControl \/ ReceiveEvent \/ UNCHANGED rerunVars
    PROVE  TaskInv'
<1>1. CASE TaskStep \/ PressControl
  BY <1>1, TaskStays DEF TaskStep, PressControl
<1>2. CASE ReceiveEvent
  <2>1. UNCHANGED task
    BY <1>2 DEF ReceiveEvent
  <2>2. (controlOpen' \in BOOLEAN) /\ (controlOpen' => controlOpen)
    BY <1>2 DEF ReceiveEvent
  <2>3. controlOpen \in BOOLEAN
    BY DEF TaskInv, TypeInv, TypeOK
  <2>4. CASE controlOpen' = controlOpen
    <3>1. UNCHANGED vars
      BY <2>1, <2>4 DEF task, vars, channels
    <3> QED BY <3>1, TaskStays
  <2>5. CASE controlOpen' # controlOpen
    <3>1. controlOpen /\ controlOpen' = FALSE
      BY <2>2, <2>3, <2>5
    <3>2. DropControl
      BY <2>1, <3>1 DEF DropControl, task
    <3> QED BY <3>2, TaskStays
  <2> QED BY <2>4, <2>5
<1>3. CASE UNCHANGED rerunVars
  <2>1. UNCHANGED vars
    BY <1>3 DEF rerunVars, task, vars, channels
  <2> QED BY <2>1, TaskStays
<1> QED BY <1>1, <1>2, <1>3

-----------------------------------------------------------------------------
(* The view of a run *)

\* The view of a run that has just been asked for.
Fresh ==
    /\ wf \in Workflows /\ events = <<>>
    /\ delivered = 0 /\ rows = RowsOf(wf) /\ shown = "Pending" /\ context = wf.seeds

LEMMA FreshView == Fresh => ViewInv
<1> SUFFICES ASSUME Fresh PROVE ViewInv
  OBVIOUS
<1>1. wf.declared \in Seq(Steps) /\ wf.seeds \in [Steps -> Outputs]
  BY RunAssumption DEF Fresh, Workflow
<1>2. \A k \in DOMAIN wf.declared : wf.declared[k] \in Steps
  BY <1>1
<1>3. Heard = {} /\ delivered \in 0 .. Len(events)
  BY EmptySeq DEF Fresh, Heard
<1>4. /\ DOMAIN rows = DOMAIN wf.declared
      /\ rows \in [DOMAIN wf.declared -> [step : Steps, shown : Outcomes \cup {"pending", "running"}]]
      /\ \A k \in DOMAIN rows : rows[k].step = wf.declared[k] /\ rows[k].shown = "pending"
  BY <1>2 DEF Fresh, RowsOf
<1>5. context \in [Steps -> Outputs] /\ \A s \in Steps : context[s] = wf.seeds[s]
  BY <1>1 DEF Fresh
<1>6. shown \notin Terminal
  BY DEF Fresh, Terminal
<1> QED BY <1>3, <1>4, <1>5, <1>6 DEF ViewInv

\* The steps of the rows.
LEMMA RowsAreOfSteps ==
    ASSUME ViewInv
    PROVE  \A k \in DOMAIN rows : /\ rows[k].step \in Steps /\ k \in DOMAIN wf.declared
                                  /\ rows[k] \in [step : Steps, shown : Outcomes \cup {"pending", "running"}]
BY DEF ViewInv

\* What is heard has been said.
LEMMA HeardIsSaid ==
    ASSUME TypeOK, delivered \in 0 .. Len(events)
    PROVE  Heard \subseteq Said /\ Said \subseteq Event
<1>1. events \in Seq(Event) /\ DOMAIN events = 1 .. Len(events) /\ Len(events) \in Nat
  BY LenProperties DEF TypeOK
<1>2. Heard \subseteq Said
  BY <1>1 DEF Heard, Said, Range
<1>3. Said \subseteq Event
  BY <1>1, RangeOfSeq DEF Said
<1> QED BY <1>2, <1>3

\* Every step of the task adds to what has been said.
LEMMA StreamGrows ==
    ASSUME TypeOK, ProgressInv, wf.planned, RunTask
    PROVE  \E es \in Seq(Event) : Emit(es)
<1>1. CASE Aside
  BY <1>1 DEF Aside
<1>2. CASE Starting
  <2>1. Step \in Steps /\ pos - 1 \in Nat
    BY <1>2, StepAtHand DEF Starting, TypeOK
  <2>2. StepStarted(pos - 1, Step) \in Event
    BY <2>1, EventKinds
  <2>3. <<StepStarted(pos - 1, Step)>> \in Seq(Event)
    BY <2>2
  <2> QED BY <1>2, <2>3 DEF Starting
<1>3. CASE Settling
  <2>1. PICK st \in Outcomes, o \in Outputs \ {"absent"}, n \in Nat, before \in Seq(Event), after \in Seq(Event) :
          Settle(st, o, n, before, after)
    BY <1>3 DEF Settling
  <2>2. Step \in Steps
    BY <1>3, StepAtHand DEF Settling
  <2>3. StepFinished(Step, st, o, n) \in Event
    BY <2>1, <2>2, EventKinds
  <2> DEFINE new == StepFinished(Step, st, o, n)
             es  == before \o <<new>> \o after
  <2>4. Emit(es)
    BY <2>1 DEF Settle
  <2>5. new \in Event
    BY <2>3
  <2> HIDE DEF new
  <2>6. es \in Seq(Event)
    BY <2>5, SettleSays
  <2> HIDE DEF es
  <2> QED BY <2>4, <2>6
<1> QED BY <1>1, <1>2, <1>3, StepKinds

\* A step of the task leaves what has been heard of, and what is shown of it, true.
LEMMA TaskStepKeepsView ==
    ASSUME TaskInv, ViewInv, RunTask, UNCHANGED view
    PROVE  ViewInv'
<1>1. TypeOK /\ ProgressInv /\ wf.planned /\ StreamInv
  BY DEF TaskInv, TypeInv
<1>2. PICK es \in Seq(Event) : Emit(es)
  BY <1>1, StreamGrows
<1>3. /\ Len(events) \in Nat /\ Len(events') \in Nat
      /\ DOMAIN events = 1 .. Len(events) /\ DOMAIN events' = 1 .. Len(events')
      /\ DOMAIN events \subseteq DOMAIN events' /\ \A i \in DOMAIN events : events'[i] = events[i]
  <2>1. events \in Seq(Event) /\ events' \in Seq(Event)
    BY <1>1, <1>2, EmitKeepsType DEF TypeOK
  <2>2. Len(events) \in Nat /\ Len(events') \in Nat
    BY <2>1, LenProperties
  <2> QED BY <1>2, <2>1, <2>2, EmitAppends
<1>4. /\ delivered \in 0 .. Len(events) /\ delivered' = delivered /\ rows' = rows
      /\ shown' = shown /\ context' = context
  BY DEF ViewInv, view
<1>5. delivered' \in 0 .. Len(events') /\ Heard' = Heard
  <2>1. Len(events) <= Len(events')
    BY <1>3
  <2> QED BY <1>3, <1>4, <2>1 DEF Heard
<1>6. wf' = wf
  BY <1>1, StepKinds DEF Aside, Starting, Settling
<1>7. \A s \in Steps : status[s] # "pending" => status'[s] = status[s]
  BY <1>1, StatusOnce
<1>8. ASSUME NEW k \in DOMAIN rows
      PROVE  /\ rows[k].step = wf.declared[k]
             /\ rows[k].shown = "Failed" => status'[rows[k].step] = "Failed"
  <2>1. rows[k].step \in Steps
    BY RowsAreOfSteps
  <2> QED BY <1>7, <2>1 DEF ViewInv
<1>9. ASSUME NEW k \in DOMAIN rows, wf.order = wf.declared
      PROVE  /\ (\E e \in Heard : IsFinish(e, rows[k].step)) => rows[k].shown = status'[rows[k].step]
             /\ \/ \E e \in Heard : e.type \in {"StepStarted", "StepFinished"} /\ e.step = rows[k].step
                \/ rows[k].shown = "pending"
  <2>1. rows[k].step \in Steps
    BY RowsAreOfSteps
  <2>2. ASSUME NEW e \in Heard, IsFinish(e, rows[k].step) PROVE status[rows[k].step] # "pending"
    <3>1. e \in Said /\ e \in Event
      BY <1>1, <1>4, HeardIsSaid
    <3>2. e.type = "StepFinished" /\ e.step = rows[k].step
      BY <2>2 DEF IsFinish
    <3>3. e.status \in Outcomes
      BY <3>1, <3>2, StepEvents
    <3>4. status[e.step] = e.status
      BY <1>1, <3>1, <3>2 DEF StreamInv
    <3> QED BY <3>2, <3>3, <3>4 DEF Outcomes
  <2> QED BY <1>7, <1>9, <2>1, <2>2 DEF ViewInv
<1> QED BY <1>4, <1>5, <1>6, <1>8, <1>9 DEF ViewInv, IsFinish

\* Receiving an event updates the view by what the event says.
LEMMA ReceivingKeepsView ==
    ASSUME TaskInv, ViewInv, ReceiveEvent
    PROVE  ViewInv'
<1> DEFINE e == events[delivered + 1]
<1>1. TypeOK /\ StreamInv /\ events \in Seq(Event)
  BY DEF TaskInv, TypeInv, TypeOK
<1>2. /\ Len(events) \in Nat /\ DOMAIN events = 1 .. Len(events)
      /\ delivered \in 0 .. Len(events) /\ delivered < Len(events) /\ delivered' = delivered + 1
  BY <1>1, LenProperties DEF ViewInv, ReceiveEvent
<1>3. delivered + 1 \in DOMAIN events /\ e \in Said /\ e \in Event
  BY <1>1, <1>2 DEF Said, Range
<1>4. /\ rows' = CASE e.type = "StepStarted"  -> MarkRunning(e)
                   [] e.type = "StepFinished" -> MarkFinished(e)
                   [] OTHER                   -> rows
      /\ context' = IF e.type = "StepFinished" THEN [context EXCEPT ![e.step] = e.output] ELSE context
      /\ shown' = CASE e.type = "RunStarted" -> "Running"
                    [] e.type \in {"RunStatusChanged", "RunCompleted"} -> e.status
                    [] OTHER -> shown
      /\ UNCHANGED <<wf, status, events>>
  BY DEF ReceiveEvent, task, local
<1>5. Heard' = Heard \cup {e}
  BY <1>2, <1>4 DEF Heard
<1>6. /\ e.type = "StepFinished" => /\ e.step \in Steps /\ e.status \in Outcomes /\ e.output \in Outputs
                                    /\ status[e.step] = e.status /\ e.output # "absent"
      /\ e.type = "StepStarted" => e.index + 1 \in Places /\ wf.order[e.index + 1] = e.step
      /\ e.type = "RunStatusChanged" => e.status \notin Terminal
  BY <1>1, <1>3, StepEvents DEF StreamInv
<1>7. \A x \in Heard : IsFinish(x, e.step) => e.type # "StepStarted"
  <2>1. SUFFICES ASSUME NEW j \in 1 .. delivered, IsFinish(events[j], e.step), e.type = "StepStarted"
                 PROVE  FALSE
    BY DEF Heard
  <2>2. j \in DOMAIN events /\ j < delivered + 1 /\ events[j].type = "StepFinished" /\ events[j].step = e.step
    BY <1>2, <2>1 DEF IsFinish
  <2> QED BY <1>1, <1>3, <2>1, <2>2 DEF StreamInv
<1> HIDE DEF e
<1>8. ASSUME NEW k \in DOMAIN rows
      PROVE  /\ rows'[k] \in [step : Steps, shown : Outcomes \cup {"pending", "running"}]
             /\ rows'[k].step = rows[k].step
             /\ rows'[k].shown = IF e.type = "StepStarted" /\ k = e.index + 1 THEN "running"
                                 ELSE IF e.type = "StepFinished" /\ rows[k].step = e.step THEN e.status
                                 ELSE rows[k].shown
  <2>1. rows[k] \in [step : Steps, shown : Outcomes \cup {"pending", "running"}]
    BY RowsAreOfSteps
  <2>2. CASE e.type = "StepStarted"
    <3>1. rows'[k] = IF k = e.index + 1 THEN [rows[k] EXCEPT !.shown = "running"] ELSE rows[k]
      BY <1>4, <2>2 DEF MarkRunning
    <3> QED BY <2>1, <2>2, <3>1
  <2>3. CASE e.type = "StepFinished"
    <3>1. rows'[k] = IF rows[k].step = e.step THEN [rows[k] EXCEPT !.shown = e.status] ELSE rows[k]
      BY <1>4, <2>3 DEF MarkFinished
    <3> QED BY <1>6, <2>1, <2>3, <3>1
  <2>4. CASE e.type \notin {"StepStarted", "StepFinished"}
    BY <1>4, <2>1, <2>4
  <2> QED BY <2>2, <2>3, <2>4
<1>9. /\ DOMAIN rows = DOMAIN wf.declared /\ DOMAIN rows' = DOMAIN rows
      /\ rows' \in [DOMAIN wf.declared -> [step : Steps, shown : Outcomes \cup {"pending", "running"}]]
  <2>1. DOMAIN rows = DOMAIN wf.declared /\ rows = [k \in DOMAIN rows |-> rows[k]]
    BY DEF ViewInv
  <2>2. DOMAIN rows' = DOMAIN rows /\ rows' = [k \in DOMAIN rows |-> rows'[k]]
    BY <1>4, <2>1 DEF MarkRunning, MarkFinished
  <2> QED BY <1>8, <2>1, <2>2
<1>10. \A k \in DOMAIN rows : rows'[k].step = wf.declared[k]
  BY <1>8 DEF ViewInv
<1>11. ASSUME NEW k \in DOMAIN rows, rows'[k].shown = "Failed" PROVE status[rows[k].step] = "Failed"
  BY <1>6, <1>8, <1>11 DEF ViewInv
<1>12. shown' \in Terminal => \E x \in Heard' : x.type = "RunCompleted"
  <2>1. CASE e.type \in {"RunStarted", "RunStatusChanged"}
    BY <1>4, <1>6, <2>1 DEF Terminal
  <2>2. CASE e.type = "RunCompleted"
    BY <1>5, <2>2
  <2>3. CASE e.type \notin {"RunStarted", "RunStatusChanged", "RunCompleted"}
    <3>1. shown' = shown
      BY <1>4, <2>3
    <3> QED BY <1>5, <3>1 DEF ViewInv
  <2> QED BY <2>1, <2>2, <2>3
<1>13. /\ context' \in [Steps -> Outputs]
       /\ \A s \in Steps : context'[s] = "absent" =>
             context[s] = "absent" /\ ~IsFinish(e, s)
  <2>1. context \in [Steps -> Outputs]
    BY DEF ViewInv
  <2>2. CASE e.type = "StepFinished"
    BY <1>4, <1>6, <2>1, <2>2 DEF IsFinish
  <2>3. CASE e.type # "StepFinished"
    BY <1>4, <2>1, <2>3 DEF IsFinish
  <2> QED BY <2>2, <2>3
<1>14. ASSUME NEW s \in Steps, context'[s] = "absent"
       PROVE  wf.seeds[s] = "absent" /\ \A x \in Heard' : ~IsFinish(x, s)
  BY <1>5, <1>13, <1>14 DEF ViewInv
<1>15. ASSUME NEW k \in DOMAIN rows, wf.order = wf.declared
       PROVE  /\ (\E x \in Heard' : IsFinish(x, rows[k].step)) => rows'[k].shown = status[rows[k].step]
              /\ \/ \E x \in Heard' : x.type \in {"StepStarted", "StepFinished"} /\ x.step = rows[k].step
                 \/ rows'[k].shown = "pending"
  <2>1. /\ (\E x \in Heard : IsFinish(x, rows[k].step)) => rows[k].shown = status[rows[k].step]
        /\ \/ \E x \in Heard : x.type \in {"StepStarted", "StepFinished"} /\ x.step = rows[k].step
           \/ rows[k].shown = "pending"
    BY <1>15 DEF ViewInv
  <2>2. CASE e.type = "StepStarted" /\ k = e.index + 1
    <3>1. rows[k].step = e.step
      BY <1>6, <1>15, <2>2 DEF ViewInv
    <3>2. ~ \E x \in Heard' : IsFinish(x, rows[k].step)
      BY <1>5, <1>7, <2>2, <3>1 DEF IsFinish
    <3> QED BY <1>5, <2>2, <3>1, <3>2
  <2>3. CASE e.type = "StepStarted" /\ k # e.index + 1
    BY <1>5, <1>8, <2>1, <2>3 DEF IsFinish
  <2>4. CASE e.type = "StepFinished" /\ rows[k].step = e.step
    BY <1>5, <1>6, <1>8, <2>4
  <2>5. CASE e.type = "StepFinished" /\ rows[k].step # e.step
    BY <1>5, <1>8, <2>1, <2>5 DEF IsFinish
  <2>6. CASE e.type \notin {"StepStarted", "StepFinished"}
    BY <1>5, <1>8, <2>1, <2>6 DEF IsFinish
  <2> QED BY <2>2, <2>3, <2>4, <2>5, <2>6
<1>16. delivered' \in 0 .. Len(events')
  BY <1>2, <1>4
<1>17. \A k \in DOMAIN rows : rows'[k].step = rows[k].step
  BY <1>8
<1>18. \A k \in DOMAIN rows' : /\ rows'[k].step = wf'.declared[k]
                               /\ rows'[k].shown = "Failed" => status'[rows'[k].step] = "Failed"
  BY <1>4, <1>9, <1>10, <1>11, <1>17
<1>19. wf'.order = wf'.declared => \A k \in DOMAIN rows' :
          /\ (\E x \in Heard' : IsFinish(x, rows'[k].step)) => rows'[k].shown = status'[rows'[k].step]
          /\ \/ \E x \in Heard' : x.type \in {"StepStarted", "StepFinished"} /\ x.step = rows'[k].step
             \/ rows'[k].shown = "pending"
  BY <1>4, <1>9, <1>15, <1>17
<1> QED BY <1>4, <1>9, <1>12, <1>13, <1>14, <1>16, <1>18, <1>19 DEF ViewInv, IsFinish

\* The view of a run that is shown to be over has heard all there is to hear.
LEMMA ShownOver ==
    ASSUME TaskInv, ViewInv, shown \in Terminal
    PROVE  phase = "ended" /\ Heard = Said
<1>1. PICK j \in 1 .. delivered : events[j].type = "RunCompleted"
  BY DEF ViewInv, Heard
<1>2. events \in Seq(Event) /\ DOMAIN events = 1 .. Len(events) /\ Len(events) \in Nat
  BY LenProperties DEF TaskInv, TypeInv, TypeOK
<1>3. delivered \in 0 .. Len(events) /\ j \in DOMAIN events
  BY <1>1, <1>2 DEF ViewInv
<1>4. j = Len(events)
  BY <1>1, <1>3 DEF TaskInv, CompletionInv, CompletionIsTruthful
<1>5. delivered = Len(events)
  <2>1. Len(events) \in 1 .. delivered
    BY <1>4
  <2>2. delivered \in 0 .. Len(events) /\ Len(events) \in Nat
    BY <1>2, <1>3
  <2> DEFINE n == Len(events)
  <2> HIDE DEF n
  <2>3. n \in 1 .. delivered /\ delivered \in 0 .. n /\ n \in Nat
    BY <2>1, <2>2 DEF n
  <2>4. delivered = n
    BY <2>3
  <2> QED BY <2>4 DEF n
<1>6. events[j] \in Said /\ Heard = Said
  BY <1>2, <1>3, <1>5 DEF Heard, Said, Range
<1>7. phase = "ended"
  BY <1>1, <1>6 DEF TaskInv, CompletionInv, RecordInv
<1> QED BY <1>6, <1>7

\* So the rows tell what the steps came to.
LEMMA RowsTell == TaskInv /\ ViewInv => RowsTellOutcomes
<1> SUFFICES ASSUME TaskInv, ViewInv, shown \in Terminal, wf.order = wf.declared, NEW k \in DOMAIN rows
             PROVE  rows[k].shown = status[rows[k].step]
  BY DEF RowsTellOutcomes, Over
<1> DEFINE s == rows[k].step
<1>1. s \in Steps /\ phase = "ended" /\ Heard = Said
  BY RowsAreOfSteps, ShownOver
<1>2. (\E e \in Heard : IsFinish(e, s)) => rows[k].shown = status[s]
  BY DEF ViewInv
<1>3. \/ \E e \in Heard : e.type \in {"StepStarted", "StepFinished"} /\ e.step = s
      \/ rows[k].shown = "pending"
  BY DEF ViewInv
<1>4. status[s] # "pending" => \E e \in Heard : IsFinish(e, s)
  BY <1>1 DEF TaskInv, StreamInv
<1>5. ASSUME NEW e \in Heard, e.type \in {"StepStarted", "StepFinished"}, e.step = s
      PROVE  status[s] # "pending"
  <2>1. e \in Said /\ e \in Event
    BY <1>1, HeardIsSaid DEF TaskInv, TypeInv, ViewInv
  <2>2. CASE e.type = "StepStarted"
    BY <1>1, <1>5, <2>1, <2>2 DEF TaskInv, StreamInv
  <2>3. CASE e.type = "StepFinished"
    BY <1>5, <2>1, <2>3, StepEvents DEF TaskInv, StreamInv, Outcomes
  <2> QED BY <1>5, <2>2, <2>3
<1> QED BY <1>2, <1>3, <1>4, <1>5

-----------------------------------------------------------------------------
(* Reruns *)

\* A plan holds what is declared, and all that it depends on.
LEMMA PlanIsWhole ==
    ASSUME NEW w \in Workflows
    PROVE  /\ Declaration(w) /\ Range(w.declared) \subseteq Steps /\ w.seeds \in [Steps -> Outputs]
           /\ w \in Workflow
           /\ w.planned => /\ Range(w.order) = Range(w.declared)
                           /\ \A x \in Range(w.declared) : w.deps[x] \subseteq Range(w.declared)
<1>1. w \in Workflow
  BY RunAssumption
<1>2. w.declared \in Seq(Steps) /\ w.order \in Seq(Steps) /\ w.deps \in [Steps -> SUBSET Steps]
      /\ w.seeds \in [Steps -> Outputs]
  BY <1>1 DEF Workflow
<1>3. Range(w.declared) \subseteq Steps
  BY <1>2, RangeOfSeq
<1>4. ASSUME w.planned
      PROVE  /\ Range(w.order) = Range(w.declared)
             /\ \A x \in Range(w.declared) : w.deps[x] \subseteq Range(w.declared)
  <2>1. IsPlanned(w)
    BY <1>4, RunAssumption
  <2>2. Range(w.order) = Range(w.declared)
    BY <2>1 DEF IsPlanned
  <2>3. ASSUME NEW x \in Range(w.declared), NEW d \in w.deps[x] PROVE d \in Range(w.order)
    <3>1. DOMAIN w.order = 1 .. Len(w.order) /\ Len(w.order) \in Nat
      BY <1>2, LenProperties
    <3>2. PICK i \in DOMAIN w.order : w.order[i] = x
      BY <2>2 DEF Range
    <3>3. PICK j \in 1 .. (i - 1) : w.order[j] = d
      BY <2>1, <3>2 DEF IsPlanned
    <3>4. j \in DOMAIN w.order
      BY <3>1, <3>2, <3>3
    <3> QED BY <3>3, <3>4 DEF Range
  <2> QED BY <2>2, <2>3
<1> QED BY <1>1, <1>2, <1>3, <1>4 DEF Declaration

\* The step rerun from is one that failed.
LEMMA FirstFailedIs ==
    ASSUME TaskInv, ViewInv, CanRerun
    PROVE  FirstFailed \in Range(wf.declared) /\ status[FirstFailed] = "Failed"
<1>1. wf.declared \in Seq(Steps) /\ DOMAIN wf.declared = 1 .. Len(wf.declared) /\ Len(wf.declared) \in Nat
  <2>1. wf \in Workflows
    BY DEF TaskInv, TypeInv, TypeOK
  <2>2. wf.declared \in Seq(Steps)
    BY <2>1, PlanIsWhole DEF Declaration
  <2> QED BY <2>2, LenProperties
<1>2. FailedRows \subseteq DOMAIN wf.declared /\ FailedRows \subseteq DOMAIN rows /\ FailedRows # {}
  BY RowsAreOfSteps DEF FailedRows, CanRerun
<1>3. FailedRows \subseteq Nat
  BY <1>1, <1>2
<1>4. \E k \in FailedRows : \A l \in FailedRows : k <= l
  <2> DEFINE T == FailedRows
  <2>1. T \subseteq Nat /\ T # {}
    BY <1>2, <1>3
  <2> HIDE DEF T
  <2>2. \E k \in T : \A l \in T : k <= l
    BY <2>1, LeastNumber
  <2> QED BY <2>2 DEF T
<1>5. PICK k \in FailedRows : FirstFailed = rows[k].step
  BY <1>4 DEF FirstFailed
<1>6. k \in DOMAIN rows /\ rows[k].shown = "Failed"
  BY <1>5 DEF FailedRows
<1>7. rows[k].step = wf.declared[k] /\ status[rows[k].step] = "Failed"
  BY <1>6 DEF ViewInv
<1>8. wf.declared[k] \in Range(wf.declared)
  BY <1>2, <1>5 DEF Range
<1> QED BY <1>5, <1>7, <1>8

\* A rerun asks for a run of the steps impacted by one that failed.
LEMMA RerunMakes ==
    ASSUME TaskInv, ViewInv, Rerun
    PROVE  \E f \in Range(wf.declared) :
             LET impacted == Impacted(wf, f) IN
             /\ status[f] = "Failed" /\ shown = "Failed"
             /\ wf' \in Workflows /\ wf'.planned
             /\ Range(wf'.declared) = impacted
             /\ \A x \in impacted : wf'.deps[x] = wf.deps[x] \cap impacted
             /\ \A x \in Steps : wf'.seeds[x] = IF x \in impacted THEN "absent" ELSE context[x]
             /\ Created' /\ Fresh' /\ UNCHANGED <<commandsSent, original, settled>> /\ reruns' = reruns + 1
<1> DEFINE f == FirstFailed
           I == Impacted(wf, f)
           w == RerunOf(wf, f, context)
<1>1. wf \in Workflows /\ wf.planned /\ context \in [Steps -> Outputs]
  BY DEF TaskInv, TypeInv, TypeOK, ViewInv
<1>2. f \in Range(wf.declared) /\ status[f] = "Failed"
  BY FirstFailedIs DEF Rerun
<1>3. wf' = Requested(w) /\ shown = "Failed"
  BY DEF Rerun, CanRerun
<1> HIDE DEF f
<1>4. wf' \in Workflows
  <2>1. Requested(w) \in RerunsOf(Workflows)
    BY <1>1, <1>2 DEF RerunsOf
  <2> QED BY <1>3, <2>1, RerunAssumption
<1>5. wf \in Workflow /\ wf.declared \in Seq(Steps) /\ Declaration(wf)
  BY <1>1, PlanIsWhole DEF Declaration
<1>6. I \subseteq Range(wf.declared) /\ Range(wf.declared) \subseteq Steps
  BY <1>1, <1>2, <1>5, ImpactedIs, PlanIsWhole
<1> HIDE DEF I
<1>7. w = [wf EXCEPT !.declared = Among(@, I),
                     !.deps = [x \in Steps |-> IF x \in I THEN @[x] \cap I ELSE @[x]],
                     !.seeds = [x \in Steps |-> IF x \in I THEN "absent" ELSE context[x]]]
  BY DEF RerunOf, I
<1> HIDE DEF w
<1>8. /\ w.declared = Among(wf.declared, I) /\ w.planned = wf.planned
      /\ w.deps = [x \in Steps |-> IF x \in I THEN wf.deps[x] \cap I ELSE wf.deps[x]]
      /\ w.seeds = [x \in Steps |-> IF x \in I THEN "absent" ELSE context[x]]
  BY <1>5, <1>7 DEF Workflow
<1>9. wf'.declared = w.declared /\ wf'.planned = w.planned /\ wf'.deps = w.deps /\ wf'.seeds = w.seeds
  BY <1>3, <1>5, <1>7 DEF Requested, Workflow
<1>10. Range(wf'.declared) = I
  <2>1. Range(Among(wf.declared, I)) = Range(wf.declared) \cap I
    BY <1>5, AmongIs
  <2> QED BY <1>6, <1>8, <1>9, <2>1
<1>11. \A x \in I : wf'.deps[x] = wf.deps[x] \cap I
  BY <1>6, <1>8, <1>9
<1>12. \A x \in Steps : wf'.seeds[x] = IF x \in I THEN "absent" ELSE context[x]
  BY <1>8, <1>9
<1>13. Created' /\ Fresh' /\ UNCHANGED <<commandsSent, original, settled>> /\ reruns' = reruns + 1
  BY <1>4 DEF Rerun, Created, Fresh
<1> QED BY <1>1, <1>2, <1>3, <1>4, <1>8, <1>9, <1>10, <1>11, <1>12, <1>13 DEF I

-----------------------------------------------------------------------------
(* What is remembered over reruns *)

\* A step of the task remembers what it settles.
LEMMA TaskStepKeepsHistory ==
    ASSUME TaskInv, HistoryInv, TaskStep
    PROVE  HistoryInv'
<1>1. /\ \A s \in Steps : status'[s] # status[s] =>
             status[s] = "pending" /\ status'[s] \in Outcomes /\ s \in Planned
      /\ wf' = wf
  BY StatusOnce, StepKinds DEF TaskInv, TypeInv, TaskStep, Aside, Starting, Settling
<1>2. Planned = Range(wf.declared) /\ Range(wf.declared) \subseteq Steps
  BY PlanIsWhole DEF TaskInv, TypeInv, TypeOK, Planned
<1>3. \A s \in Steps : settled'[s] = IF status'[s] = status[s] THEN settled[s] ELSE status'[s]
  BY DEF TaskStep
<1>4. \A s \in Steps : status'[s] # "pending" => settled'[s] = status'[s]
  BY <1>1, <1>3 DEF HistoryInv
<1>5. \A s \in Range(wf.declared) : status'[s] = "pending" => settled'[s] # "Succeeded"
  BY <1>1, <1>2, <1>3 DEF HistoryInv, Outcomes
<1>6. \A s \in Steps \ Range(wf.declared) : settled'[s] = "Succeeded" => wf.seeds[s] # "absent"
  BY <1>1, <1>2, <1>3 DEF HistoryInv
<1> QED BY <1>1, <1>4, <1>5, <1>6 DEF HistoryInv

\* No step impacted by one that failed has succeeded: it depends on one that has not.
LEMMA ImpactedHasNotSucceeded ==
    ASSUME TaskInv, HistoryInv, NEW f \in Range(wf.declared), status[f] = "Failed"
    PROVE  \A s \in Impacted(wf, f) : settled[s] # "Succeeded"
<1> DEFINE T == {s \in Range(wf.declared) : settled[s] # "Succeeded"}
<1>1. /\ Declaration(wf) /\ Range(wf.declared) \subseteq Steps /\ Planned = Range(wf.declared)
      /\ \A x \in Range(wf.declared) : wf.deps[x] \subseteq Range(wf.declared)
  BY PlanIsWhole DEF TaskInv, TypeInv, TypeOK, Planned
<1>2. f \in T
  BY <1>1 DEF HistoryInv
<1>3. ASSUME NEW x \in Range(wf.declared), NEW y \in wf.deps[x], y \in T PROVE x \in T
  <2>1. CASE status[x] = "pending"
    BY <2>1 DEF HistoryInv
  <2>2. CASE status[x] = "Succeeded"
    <3>1. status[y] = "Succeeded"
      BY <1>1, <2>2 DEF TaskInv, StepsInv
    <3>2. settled[y] = "Succeeded"
      BY <1>1, <1>3, <3>1 DEF HistoryInv
    <3> QED BY <1>3, <3>2
  <2>3. CASE status[x] \notin {"pending", "Succeeded"}
    BY <1>1, <2>3 DEF HistoryInv
  <2> QED BY <2>1, <2>2, <2>3
<1>4. Closed(wf, T)
  BY <1>3 DEF Closed
<1> HIDE DEF T
<1>5. Impacted(wf, f) \subseteq T
  BY <1>1, <1>2, <1>4, ImpactedIs
<1> QED BY <1>5 DEF T

\* A rerun is given the outputs of the steps that succeeded and no others are to run.
LEMMA RerunKeepsHistory ==
    ASSUME TaskInv, ViewInv, HistoryInv, Rerun
    PROVE  HistoryInv'
<1>1. PICK f \in Range(wf.declared) :
        /\ status[f] = "Failed" /\ shown = "Failed"
        /\ Range(wf'.declared) = Impacted(wf, f)
        /\ \A x \in Steps : wf'.seeds[x] = IF x \in Impacted(wf, f) THEN "absent" ELSE context[x]
        /\ Created' /\ settled' = settled
  BY RerunMakes
<1> DEFINE I == Impacted(wf, f)
<1>2. /\ Declaration(wf) /\ Range(wf.declared) \subseteq Steps
  BY PlanIsWhole DEF TaskInv, TypeInv, TypeOK
<1>3. I \subseteq Range(wf.declared) /\ \A s \in I : settled[s] # "Succeeded"
  BY <1>1, <1>2, ImpactedIs, ImpactedHasNotSucceeded
<1> HIDE DEF I
<1>4. \A s \in Steps : status'[s] = "pending"
  BY <1>1 DEF Created
<1>5. ASSUME NEW s \in Steps \ I, settled[s] = "Succeeded" PROVE context[s] # "absent"
  <2>1. CASE s \in Range(wf.declared)
    <3>1. status[s] # "pending"
      BY <1>5, <2>1 DEF HistoryInv
    <3>2. \E e \in Heard : IsFinish(e, s)
      <4>1. Heard = Said
        BY <1>1, ShownOver DEF Terminal
      <4> QED BY <3>1, <4>1 DEF TaskInv, StreamInv
    <3> QED BY <3>2 DEF ViewInv
  <2>2. CASE s \notin Range(wf.declared)
    BY <1>5, <2>2 DEF HistoryInv, ViewInv
  <2> QED BY <2>1, <2>2
<1>6. \A s \in Steps \ I : settled[s] = "Succeeded" => wf'.seeds[s] # "absent"
  BY <1>1, <1>5 DEF I
<1>7. \A s \in I : wf'.seeds[s] = "absent"
  BY <1>1, <1>2, <1>3 DEF I
<1>8. Range(wf'.declared) = I /\ settled' = settled
  BY <1>1 DEF I
<1> QED BY <1>3, <1>4, <1>6, <1>7, <1>8 DEF HistoryInv

\* So a rerun can read what has succeeded.
LEMMA RerunReads == TaskInv /\ HistoryInv => RerunReadsWhatSucceeded
<1> SUFFICES ASSUME TaskInv, HistoryInv PROVE RerunReadsWhatSucceeded
  OBVIOUS
<1>1. Planned = Range(wf.declared) /\ Range(wf.declared) \subseteq Steps
  BY PlanIsWhole DEF TaskInv, TypeInv, TypeOK, Planned
<1>2. ASSUME NEW s \in Steps \ Range(wf.declared), settled[s] = "Succeeded" PROVE outputs[s] # "absent"
  <2>1. status[s] = "pending"
    BY <1>1 DEF TaskInv, StreamInv
  <2>2. ~(phase = "execute" /\ Step = s)
    BY <1>1, StepAtHand DEF TaskInv, TypeInv
  <2>3. outputs[s] = wf.seeds[s]
    BY <2>1, <2>2 DEF TaskInv, StepsInv
  <2> QED BY <1>2, <2>3 DEF HistoryInv
<1>3. ASSUME NEW s \in Range(wf.declared), status[s] = "pending", ~(phase = "execute" /\ Step = s)
      PROVE  outputs[s] = "absent"
  BY <1>1, <1>3 DEF TaskInv, StepsInv, HistoryInv
<1> QED BY <1>2, <1>3 DEF RerunReadsWhatSucceeded

-----------------------------------------------------------------------------
(* The scope of reruns *)

\* What is first run is all of its own scope.
LEMMA FirstScope ==
    ASSUME wf \in Workflows, wf.planned, original = wf, reruns = 0
    PROVE  ScopeInv
<1>1. \A x \in Range(wf.declared) : wf.deps[x] \subseteq Range(wf.declared)
  BY PlanIsWhole
<1> QED BY <1>1 DEF ScopeInv, Follows

\* A rerun plans the least set of steps, around one that failed, that holds all
\* that depends on it among what was first run.
LEMMA RerunKeepsScope ==
    ASSUME TaskInv, ViewInv, ScopeInv, Rerun
    PROVE  ScopeInv'
<1>1. PICK f \in Range(wf.declared) :
        /\ Range(wf'.declared) = Impacted(wf, f)
        /\ \A x \in Impacted(wf, f) : wf'.deps[x] = wf.deps[x] \cap Impacted(wf, f)
        /\ original' = original /\ reruns' = reruns + 1
  BY RerunMakes
<1> DEFINE R == Range(wf.declared)
           D == Range(original.declared)
           I == Impacted(wf, f)
<1>2. Declaration(wf)
  BY PlanIsWhole DEF TaskInv, TypeInv, TypeOK
<1>3. /\ f \in I /\ I \subseteq R /\ Closed(wf, I)
      /\ \A T : f \in T /\ Closed(wf, T) => I \subseteq T
  BY <1>2, ImpactedIs
<1>4. /\ R \subseteq D /\ \A x \in R : wf.deps[x] = original.deps[x] \cap R
      /\ \A x \in D : original.deps[x] \cap R # {} => x \in R
      /\ original \in Workflows /\ reruns \in Nat
  BY DEF ScopeInv, Follows
<1>5. Range(wf'.declared) = I /\ \A x \in I : wf'.deps[x] = wf.deps[x] \cap I
  BY <1>1
<1> HIDE DEF I
<1>6. ASSUME NEW x \in D, original.deps[x] \cap I # {} PROVE x \in I
  <2>1. x \in R
    BY <1>3, <1>4, <1>6
  <2>2. wf.deps[x] \cap I # {}
    BY <1>3, <1>4, <1>6, <2>1
  <2> QED BY <1>3, <2>1, <2>2 DEF Closed
<1>7. ASSUME NEW T \in SUBSET I, f \in T, \A x \in D : original.deps[x] \cap T # {} => x \in T
      PROVE  T = I
  <2>1. Closed(wf, T)
    BY <1>4, <1>7 DEF Closed
  <2> QED BY <1>3, <1>7, <2>1
<1>8. I \subseteq D /\ \A x \in I : wf'.deps[x] = original.deps[x] \cap I
  BY <1>3, <1>4, <1>5
<1>9. reruns' \in Nat /\ original' = original
  BY <1>1, <1>4
<1> QED BY <1>3, <1>4, <1>5, <1>6, <1>7, <1>8, <1>9 DEF ScopeInv, Follows

-----------------------------------------------------------------------------
(* The run view *)

RerunInv == TaskInv /\ ViewInv /\ HistoryInv /\ ScopeInv

\* A run and its reruns start, and go on, as RerunInv says.
LEMMA RerunStarts == RerunInit => RerunInv
<1> SUFFICES ASSUME RerunInit PROVE RerunInv
  OBVIOUS
<1>1. PICK d \in Definitions : wf = Requested(d)
  BY DEF RerunInit
<1>2. /\ wf \in Workflows /\ commandsSent \in 0 .. MaxCommands
      /\ d.planned /\ \A s \in Range(d.declared) : d.seeds[s] = "absent"
  BY <1>1, RerunAssumption, RunAssumption DEF RerunInit
<1>3. wf.planned = d.planned /\ wf.declared = d.declared /\ wf.seeds = d.seeds
  <2>1. wf \in Workflow
    BY <1>2, RunAssumption
  <2> QED BY <1>1, <2>1 DEF Requested, Workflow
<1>4. TaskInv
  BY <1>2, <1>3, CreatedTask DEF RerunInit
<1>5. ViewInv
  BY <1>2, FreshView DEF Fresh, RerunInit, Created
<1>6. Range(wf.declared) \subseteq Steps
  BY <1>2, PlanIsWhole
<1>7. HistoryInv
  BY <1>2, <1>3, <1>6 DEF HistoryInv, RerunInit, Created
<1>8. ScopeInv
  BY <1>2, <1>3, FirstScope DEF RerunInit
<1> QED BY <1>4, <1>5, <1>7, <1>8 DEF RerunInv

LEMMA RerunGoesOn == RerunInv /\ [RerunNext]_rerunVars => RerunInv'
<1> SUFFICES ASSUME RerunInv, [RerunNext]_rerunVars PROVE RerunInv'
  OBVIOUS
<1>1. TaskInv /\ ViewInv /\ HistoryInv /\ ScopeInv
  BY DEF RerunInv
<1>2. CASE TaskStep
  <2>1. TaskInv' /\ HistoryInv'
    BY <1>1, <1>2, TaskGoesOn, TaskStepKeepsHistory
  <2>2. RunTask /\ UNCHANGED <<original, view, reruns>>
    BY <1>2 DEF TaskStep
  <2>3. ViewInv'
    BY <1>1, <2>2, TaskStepKeepsView
  <2>4. wf' = wf
    BY <1>1, <2>2, StepKinds DEF TaskInv, TypeInv, Aside, Starting, Settling
  <2>5. ScopeInv'
    BY <1>1, <2>2, <2>4 DEF ScopeInv, Follows
  <2> QED BY <2>1, <2>3, <2>5 DEF RerunInv
<1>3. CASE PressControl \/ UNCHANGED rerunVars
  <2>1. TaskInv'
    BY <1>1, <1>3, TaskGoesOn
  <2>2. UNCHANGED <<wf, status, events, original, view, settled, reruns>>
    BY <1>3 DEF PressControl, SendCommand, rerunVars, task, local
  <2>3. UNCHANGED <<delivered, rows, shown, context>> /\ Heard' = Heard
    BY <2>2 DEF view, Heard
  <2>4. ViewInv'
    BY <1>1, <2>2, <2>3 DEF ViewInv, IsFinish
  <2>5. HistoryInv' /\ ScopeInv'
    BY <1>1, <2>2 DEF HistoryInv, ScopeInv, Follows
  <2> QED BY <2>1, <2>4, <2>5 DEF RerunInv
<1>4. CASE ReceiveEvent
  <2>1. TaskInv' /\ ViewInv'
    BY <1>1, <1>4, TaskGoesOn, ReceivingKeepsView
  <2>2. UNCHANGED <<wf, status, original, settled, reruns>>
    BY <1>4 DEF ReceiveEvent, task, local
  <2>3. HistoryInv' /\ ScopeInv'
    BY <1>1, <2>2 DEF HistoryInv, ScopeInv, Follows
  <2> QED BY <2>1, <2>3 DEF RerunInv
<1>5. CASE Rerun
  <2>1. HistoryInv' /\ ScopeInv'
    BY <1>1, <1>5, RerunKeepsHistory, RerunKeepsScope
  <2>2. wf' \in Workflows /\ wf'.planned /\ Created' /\ Fresh' /\ commandsSent' = commandsSent
    BY <1>1, <1>5, RerunMakes
  <2>3. commandsSent \in 0 .. MaxCommands
    BY <1>1 DEF TaskInv, TypeInv, TypeOK
  <2>4. (wf \in Workflows /\ wf.planned /\ Created /\ commandsSent \in 0 .. MaxCommands)' => TaskInv'
    BY CreatedTask, PTL
  <2>5. TaskInv'
    BY <2>2, <2>3, <2>4
  <2>6. Fresh' => ViewInv'
    BY FreshView, PTL
  <2> QED BY <2>1, <2>2, <2>5, <2>6 DEF RerunInv
<1> QED BY <1>2, <1>3, <1>4, <1>5 DEF RerunNext

THEOREM RerunInvariant == RerunSpec => []RerunInv
<1>1. RerunInit => RerunInv
  BY RerunStarts
<1>2. RerunInv /\ [RerunNext]_rerunVars => RerunInv'
  BY RerunGoesOn
<1> QED BY <1>1, <1>2, PTL DEF RerunSpec

\* In a workflow that runs in the order it is declared in, the rows of the run
\* view tell, once the run is over, what each step came to (apply_run_event).
THEOREM RowsSafety == RerunSpec => []RowsTellOutcomes
<1>1. RerunInv => RowsTellOutcomes
  BY RowsTell DEF RerunInv
<1> QED BY <1>1, RerunInvariant, PTL

\* A rerun is of a step and all that depends on it in the workflow first run,
\* however many reruns came before (collect_impacted_steps).
THEOREM ScopeSafety == RerunSpec => []RerunScopeIsClosure
<1>1. RerunInv => RerunScopeIsClosure
  BY DEF RerunInv, ScopeInv, RerunScopeIsClosure
<1> QED BY <1>1, RerunInvariant, PTL

\* A rerun can read what has succeeded and is not run again, and starts its own
\* steps without an output (build_failed_rerun_state).
THEOREM ReadSafety == RerunSpec => []RerunReadsWhatSucceeded
<1>1. RerunInv => RerunReadsWhatSucceeded
  BY RerunReads DEF RerunInv
<1> QED BY <1>1, RerunInvariant, PTL

\* No step that has succeeded, in a run or a rerun of it, is executed again: what
\* a rerun takes up depends on a step that failed, so it has not succeeded.
THEOREM NoRepetition == RerunSpec => NoSuccessRepeated
<1> DEFINE Once == phase' = "execute" /\ phase # "execute" => settled[Step] # "Succeeded"
<1>1. RerunInv /\ [RerunNext]_rerunVars => [Once]_rerunVars
  <2> SUFFICES ASSUME RerunInv, RerunNext, phase' = "execute", phase # "execute"
               PROVE  settled[Step] # "Succeeded"
    OBVIOUS
  <2>1. RunTask
    <3>1. CASE PressControl
      BY <3>1 DEF PressControl, SendCommand
    <3>2. CASE ReceiveEvent
      BY <3>2 DEF ReceiveEvent, task
    <3>3. CASE Rerun
      BY <3>3 DEF Rerun
    <3> QED BY <3>1, <3>2, <3>3 DEF RerunNext, TaskStep
  <2>2. TypeOK /\ ProgressInv /\ wf.planned /\ wf \in Workflows
    BY DEF RerunInv, TaskInv, TypeInv, TypeOK
  <2>3. phase = "prepare"
    BY <2>1, <2>2, StepKinds DEF Aside, Starting, Settling
  <2>4. Step \in Planned /\ status[Step] = "pending"
    BY <2>2, <2>3, StepAtHand
  <2>5. Step \in Range(wf.declared)
    BY <2>2, <2>4, PlanIsWhole DEF Planned
  <2> QED BY <2>4, <2>5 DEF RerunInv, HistoryInv
<1> QED BY <1>1, RerunInvariant, PTL DEF RerunSpec, NoSuccessRepeated

-----------------------------------------------------------------------------
(* The planner accepts reruns *)

\* A sequence in which nothing stands twice is as long as it has elements.
LEMMA AsLongAsItsElements ==
    ASSUME NEW S, NEW q \in Seq(S), Distinct(q)
    PROVE  IsFiniteSet(Range(q)) /\ Cardinality(Range(q)) = Len(q)
<1>1. /\ DOMAIN q = 1 .. Len(q) /\ Len(q) \in Nat
      /\ \A p \in 1 .. Len(q) : q[p] \in Range(q)
      /\ \A x \in Range(q) : \E p \in 1 .. Len(q) : q[p] = x
  BY ElementsOf
<1> DEFINE f == [k \in 1 .. Len(q) |-> q[k]]
<1>2. IsFiniteSet(1 .. Len(q)) /\ Cardinality(1 .. Len(q)) = Len(q)
  <2>1. Len(q) \in Nat
    BY <1>1
  <2> QED BY <2>1, FS_Interval
<1>3. f \in [1 .. Len(q) -> Range(q)] /\ DOMAIN f = 1 .. Len(q) /\ \A k \in 1 .. Len(q) : f[k] = q[k]
  BY <1>1
<1> HIDE DEF f
<1>4. \A a, b \in DOMAIN f : f[a] = f[b] => a = b
  BY <1>1, <1>3 DEF Distinct
<1>5. \A x \in Range(q) : \E p \in 1 .. Len(q) : f[p] = x
  BY <1>1, <1>3
<1>6. f \in Bijection(1 .. Len(q), Range(q))
  BY <1>3, <1>4, <1>5 DEF Bijection, Injection, Surjection, IsInjective
<1>7. ExistsBijection(1 .. Len(q), Range(q))
  BY <1>6 DEF ExistsBijection
<1> QED BY <1>2, <1>7, FS_Bijection

\* A queue whose first leaves and that others join behind.
LEMMA QueueMovesUp ==
    ASSUME NEW S, NEW q \in Seq(S), q # <<>>, Distinct(q),
           NEW f \in Seq(S), Distinct(f), Range(q) \cap Range(f) = {}
    PROVE  LET p == Tail(q) \o f IN
           /\ p \in Seq(S) /\ Distinct(p) /\ Range(p) = (Range(q) \ {Head(q)}) \cup Range(f)
           /\ Head(q) \in Range(q)
<1> DEFINE t == Tail(q)
           p == t \o f
<1>1. /\ Len(q) \in Nat /\ Len(q) # 0 /\ DOMAIN q = 1 .. Len(q)
      /\ t \in Seq(S) /\ Len(t) = Len(q) - 1 /\ Head(q) = q[1]
      /\ \A i \in 1 .. Len(t) : t[i] = q[i + 1]
  BY LenProperties, HeadTailProperties, EmptySeq
<1>2. /\ DOMAIN t = 1 .. Len(t) /\ DOMAIN f = 1 .. Len(f) /\ Len(f) \in Nat /\ Len(t) \in Nat
  BY <1>1, LenProperties
<1> HIDE DEF t
<1>3. /\ p \in Seq(S) /\ DOMAIN p = 1 .. Len(t) + Len(f)
      /\ \A i \in 1 .. Len(t) + Len(f) : p[i] = IF i <= Len(t) THEN t[i] ELSE f[i - Len(t)]
      /\ Range(p) = Range(t) \cup Range(f)
  <2>1. p \in Seq(S) /\ Len(p) = Len(t) + Len(f)
    BY <1>1, ConcatProperties
  <2>2. \A i \in 1 .. Len(t) + Len(f) : p[i] = IF i <= Len(t) THEN t[i] ELSE f[i - Len(t)]
    BY <1>1, ConcatProperties
  <2>3. Range(p) = Range(t) \cup Range(f)
    BY <1>1, RangeConcatenation
  <2>4. DOMAIN p = 1 .. Len(p)
    BY <2>1, LenProperties
  <2> QED BY <2>1, <2>2, <2>3, <2>4
<1> HIDE DEF p
<1>4. \A i \in DOMAIN t : i + 1 \in DOMAIN q /\ i + 1 # 1 /\ t[i] = q[i + 1]
  BY <1>1, <1>2
<1>5. \A i \in DOMAIN q : i # 1 => i - 1 \in DOMAIN t /\ t[i - 1] = q[i]
  <2> SUFFICES ASSUME NEW i \in DOMAIN q, i # 1 PROVE i - 1 \in DOMAIN t /\ t[i - 1] = q[i]
    OBVIOUS
  <2>1. i - 1 \in 1 .. Len(t) /\ (i - 1) + 1 = i
    BY <1>1, <1>2
  <2> QED BY <1>1, <1>2, <2>1
<1>6. 1 \in DOMAIN q /\ Head(q) = q[1]
  BY <1>1
<1>7. Range(t) = Range(q) \ {Head(q)}
  <2>1. \A x \in Range(t) : x \in Range(q) /\ x # Head(q)
    BY <1>4, <1>6 DEF Range, Distinct
  <2>2. \A x \in Range(q) : x # Head(q) => x \in Range(t)
    BY <1>5, <1>6 DEF Range
  <2> QED BY <2>1, <2>2
<1>8. Distinct(t)
  <2> SUFFICES ASSUME NEW i \in DOMAIN t, NEW j \in DOMAIN t, t[i] = t[j] PROVE i = j
    BY DEF Distinct
  <2>1. i + 1 = j + 1
    BY <1>4 DEF Distinct
  <2> QED BY <1>2, <2>1
<1>9. Distinct(p)
  <2> SUFFICES ASSUME NEW i \in DOMAIN p, NEW j \in DOMAIN p, p[i] = p[j] PROVE i = j
    BY DEF Distinct
  <2>1. \A x \in DOMAIN t, y \in DOMAIN f : t[x] # f[y]
    BY <1>7 DEF Range
  <2>2. \A k \in DOMAIN p : \/ k <= Len(t) /\ k \in DOMAIN t /\ p[k] = t[k]
                            \/ k > Len(t) /\ k - Len(t) \in DOMAIN f /\ p[k] = f[k - Len(t)]
    BY <1>2, <1>3
  <2>3. CASE i <= Len(t) /\ j <= Len(t)
    BY <1>2, <1>3, <1>8, <2>2, <2>3 DEF Distinct
  <2>4. CASE i > Len(t) /\ j > Len(t)
    <3>1. i - Len(t) = j - Len(t)
      BY <1>2, <1>3, <2>2, <2>4 DEF Distinct
    <3> QED BY <1>2, <1>3, <3>1
  <2> QED BY <1>2, <1>3, <2>1, <2>2, <2>3, <2>4
<1>10. Head(q) \in Range(q)
  BY <1>6 DEF Range
<1> QED BY <1>3, <1>7, <1>9, <1>10 DEF p, t

TurnState(S) == [ordered : Seq(S), queue : Seq(S)]

\* In order stands each step behind all it depends on.
Behind(s, deps) == \A i \in DOMAIN s : \A d \in deps[s[i]] : \E j \in 1 .. (i - 1) : s[j] = d

\* After k turns: the steps that wait for nothing but what is ordered are ordered
\* or queued, once; and k are ordered unless the queue has run empty.
TurnFits(t, k, declared, deps) ==
    /\ Distinct(t.ordered) /\ Distinct(t.queue) /\ Range(t.ordered) \cap Range(t.queue) = {}
    /\ Range(t.ordered) \cup Range(t.queue) = {x \in Range(declared) : deps[x] \subseteq Range(t.ordered)}
    /\ Behind(t.ordered, deps)
    /\ t.queue = <<>> \/ Len(t.ordered) = k

\* A turn keeps it so.
LEMMA TurnedFits ==
    ASSUME NEW S, NEW declared \in Seq(S), Distinct(declared), NEW deps, NEW k \in Nat \ {0},
           NEW t \in TurnState(S), TurnFits(t, k - 1, declared, deps)
    PROVE  Turned(t, declared, deps) \in TurnState(S) /\ TurnFits(Turned(t, declared, deps), k, declared, deps)
<1> DEFINE o == t.ordered
           q == t.queue
           popped == Head(q)
           grown == Append(o, popped)
           freed == {s \in Range(declared) : popped \in deps[s] /\ deps[s] \subseteq Range(grown)}
           joined == Among(declared, freed)
           moved == Tail(q) \o joined
<1>1. CASE q = <<>>
  <2>1. Turned(t, declared, deps) = t
    BY <1>1 DEF Turned
  <2> QED BY <1>1, <2>1 DEF TurnFits
<1>2. CASE q # <<>>
  <2>1. o \in Seq(S) /\ q \in Seq(S) /\ t = [ordered |-> o, queue |-> q]
    BY DEF TurnState
  <2>2. Turned(t, declared, deps) = [ordered |-> grown, queue |-> moved]
    BY <1>2 DEF Turned
  <2>3. /\ Distinct(o) /\ Distinct(q) /\ Range(o) \cap Range(q) = {}
        /\ Range(o) \cup Range(q) = {x \in Range(declared) : deps[x] \subseteq Range(o)}
        /\ Behind(o, deps) /\ Len(o) = k - 1
    BY <1>2 DEF TurnFits
  <2>4. joined \in Seq(S) /\ Range(joined) = Range(declared) \cap freed /\ Distinct(joined)
    <3> HIDE DEF freed
    <3> QED BY AmongIs
  <2> HIDE DEF o, q
  <2>5. popped \in Range(q) /\ popped \in S
    <3>1. popped \in Range(q)
      BY <1>2, <2>1, HeadTailProperties, ElementsOf
    <3> QED BY <2>1, <3>1, RangeOfSeq
  <2>6. /\ grown \in Seq(S) /\ Range(grown) = Range(o) \cup {popped} /\ Len(grown) = Len(o) + 1
        /\ Distinct(grown)
    <3> HIDE DEF popped
    <3> QED BY <2>1, <2>3, <2>5, OneMoreElement
  <2>7. freed \subseteq Range(declared) /\ Range(joined) = freed
    BY <2>4
  <2>8. freed \cap (Range(o) \cup Range(q)) = {}
    <3>1. popped \notin Range(o)
      BY <2>3, <2>5
    <3> QED BY <2>3, <3>1
  <2>9. moved \in Seq(S) /\ Distinct(moved) /\ Range(moved) = (Range(q) \ {popped}) \cup freed
    <3>1. Range(q) \cap Range(joined) = {}
      BY <2>7, <2>8
    <3> HIDE DEF joined
    <3> QED BY <1>2, <2>1, <2>3, <2>4, <2>7, <3>1, QueueMovesUp
  <2>10. \A x : x \in freed <=> x \in Range(declared) /\ popped \in deps[x] /\ deps[x] \subseteq Range(grown)
    OBVIOUS
  <2> HIDE DEF popped, grown, freed, joined, moved
  <2>11. Range(grown) \cap Range(moved) = {}
    BY <2>3, <2>5, <2>6, <2>8, <2>9
  <2>12. Range(grown) \cup Range(moved) = {x \in Range(declared) : deps[x] \subseteq Range(grown)}
    <3>1. Range(grown) \cup Range(moved) = {x \in Range(declared) : deps[x] \subseteq Range(o)} \cup freed
      BY <2>3, <2>5, <2>6, <2>9
    <3>2. \A x \in Range(declared) :
              deps[x] \subseteq Range(grown) <=> (deps[x] \subseteq Range(o) \/ x \in freed)
      BY <2>6, <2>10
    <3> QED BY <2>7, <3>1, <3>2
  <2>13. Behind(grown, deps)
    <3>1. /\ Len(o) \in Nat /\ DOMAIN o = 1 .. Len(o) /\ DOMAIN grown = 1 .. Len(o) + 1
          /\ \A i \in 1 .. Len(o) : grown[i] = o[i]
          /\ grown[Len(o) + 1] = popped
      BY <2>1, <2>5, AppendProperties, LenProperties DEF grown
    <3> SUFFICES ASSUME NEW i \in DOMAIN grown, NEW d \in deps[grown[i]]
                 PROVE  \E j \in 1 .. (i - 1) : grown[j] = d
      BY DEF Behind
    <3>2. CASE i \in 1 .. Len(o)
      <4>1. PICK j \in 1 .. (i - 1) : o[j] = d
        BY <2>3, <3>1, <3>2 DEF Behind
      <4>2. j \in 1 .. Len(o)
        BY <3>1, <3>2
      <4> QED BY <3>1, <4>1, <4>2
    <3>3. CASE i = Len(o) + 1
      <4>1. d \in Range(o)
        BY <2>3, <2>5, <3>1, <3>3
      <4>2. PICK j \in 1 .. Len(o) : o[j] = d
        BY <3>1, <4>1 DEF Range
      <4>3. j \in 1 .. (i - 1)
        BY <3>1, <3>3
      <4> QED BY <3>1, <4>2, <4>3
    <3> QED BY <3>1, <3>2, <3>3
  <2>14. Len(grown) = k
    BY <2>1, <2>3, <2>6, LenProperties
  <2>15. [ordered |-> grown, queue |-> moved] \in TurnState(S)
    BY <2>6, <2>9 DEF TurnState
  <2> QED BY <2>2, <2>6, <2>9, <2>11, <2>12, <2>13, <2>14, <2>15 DEF TurnFits
<1> QED BY <1>1, <1>2

\* The loop of Turns runs, and keeps what TurnFits says.
LEMMA TurnsFit ==
    ASSUME NEW S, NEW declared \in Seq(S), Distinct(declared), NEW deps
    PROVE  LET last == Turns(declared, deps)[Len(declared)] IN
           last \in TurnState(S) /\ TurnFits(last, Len(declared), declared, deps)
<1> DEFINE n == Len(declared)
           first == Among(declared, {s \in Range(declared) : deps[s] = {}})
           b == [ordered |-> <<>>, queue |-> first]
           g == [k \in 1 .. n |-> [t \in TurnState(S) |-> Turned(t, declared, deps)]]
           K == [k \in 0 .. n |-> {t \in TurnState(S) : TurnFits(t, k, declared, deps)}]
           IsLoop(h) == h = [k \in 0 .. n |-> IF k = 0 THEN b ELSE Turned(h[k - 1], declared, deps)]
<1>1. n \in Nat
  BY LenProperties
<1>2. b \in TurnState(S) /\ TurnFits(b, 0, declared, deps)
  <2>1. /\ first \in Seq(S) /\ Distinct(first)
        /\ Range(first) = Range(declared) \cap {s \in Range(declared) : deps[s] = {}}
    BY AmongIs
  <2> HIDE DEF first
  <2>2. <<>> \in Seq(S) /\ Range(<<>>) = {} /\ Distinct(<<>>) /\ Len(<<>>) = 0 /\ DOMAIN <<>> = {}
    BY EmptySeq DEF Range, Distinct
  <2>3. b \in TurnState(S) /\ b.ordered = <<>> /\ b.queue = first
    BY <2>1, <2>2 DEF TurnState
  <2>4. Behind(<<>>, deps)
    BY <2>2 DEF Behind
  <2>5. Range(first) = {x \in Range(declared) : deps[x] \subseteq {}}
    BY <2>1
  <2> HIDE DEF b
  <2> QED BY <2>1, <2>2, <2>3, <2>4, <2>5 DEF TurnFits
<1> HIDE DEF n, b
<1>3. ASSUME NEW h, h[0] = b,
             \A k \in 1 .. n : h[k - 1] \in TurnState(S) => h[k] = Turned(h[k - 1], declared, deps)
      PROVE  \A k \in 0 .. n : h[k] \in K[k]
  <2>1. h[0] \in K[0]
    BY <1>1, <1>2, <1>3
  <2>2. ASSUME NEW k \in 1 .. n, h[k - 1] \in K[k - 1] PROVE h[k] \in K[k]
    <3>1. k \in Nat \ {0} /\ k - 1 \in 0 .. n /\ k \in 0 .. n
      BY <1>1
    <3>2. h[k - 1] \in TurnState(S) /\ TurnFits(h[k - 1], k - 1, declared, deps)
      BY <2>2, <3>1
    <3> DEFINE t == h[k - 1]
    <3>3. Turned(t, declared, deps) \in TurnState(S) /\ TurnFits(Turned(t, declared, deps), k, declared, deps)
      <4> HIDE DEF t
      <4>1. t \in TurnState(S) /\ TurnFits(t, k - 1, declared, deps)
        BY <3>2 DEF t
      <4> QED BY <3>1, <4>1, TurnedFits
    <3>4. h[k] = Turned(t, declared, deps)
      BY <1>3, <3>2
    <3> QED BY <3>1, <3>3, <3>4
  <2>3. \A k \in 1 .. n : h[k - 1] \in K[k - 1] => h[k] \in K[k]
    BY <2>2
  <2> HIDE DEF K
  <2> QED BY <1>1, <2>1, <2>3, LoopKeeps
<1>4. \E h : IsLoop(h)
  <2>1. PICK h : Loop(h, n, b, g)
    <3> HIDE DEF g
    <3> QED BY <1>1, LoopRuns
  <2>2. h[0] = b /\ \A k \in 1 .. n : h[k] = g[k][h[k - 1]]
    <3> HIDE DEF g
    <3>1. 0 \in 0 .. n /\ \A k \in 1 .. n : k \in 0 .. n /\ k # 0
      BY <1>1
    <3>2. \A k \in 0 .. n : h[k] = IF k = 0 THEN b ELSE g[k][h[k - 1]]
      BY <2>1 DEF Loop
    <3> QED BY <3>1, <3>2
  <2>3. \A k \in 1 .. n : h[k - 1] \in TurnState(S) => h[k] = Turned(h[k - 1], declared, deps)
    BY <2>2
  <2> HIDE DEF g
  <2>4. \A k \in 0 .. n : h[k] \in K[k]
    <3> HIDE DEF K
    <3> QED BY <1>3, <2>2, <2>3
  <2>5. \A k \in 1 .. n : k - 1 \in 0 .. n /\ h[k - 1] \in TurnState(S)
    BY <1>1, <2>4
  <2>6. \A k \in 0 .. n : h[k] = IF k = 0 THEN b ELSE Turned(h[k - 1], declared, deps)
    <3>1. \A k \in 0 .. n : k # 0 => k \in 1 .. n
      BY <1>1
    <3> QED BY <2>2, <2>3, <2>5, <3>1
  <2>7. h = [k \in 0 .. n |-> h[k]]
    BY <2>1 DEF Loop
  <2>8. h = [k \in 0 .. n |-> IF k = 0 THEN b ELSE Turned(h[k - 1], declared, deps)]
    BY <2>6, <2>7
  <2> QED BY <2>8
<1>5. PICK h : IsLoop(h) /\ Turns(declared, deps) = h
  BY <1>4 DEF Turns, n, b
<1>6. h[0] = b /\ \A k \in 1 .. n : h[k] = Turned(h[k - 1], declared, deps)
  <2>1. 0 \in 0 .. n /\ \A k \in 1 .. n : k \in 0 .. n /\ k # 0
    BY <1>1
  <2>2. \A k \in 0 .. n : h[k] = IF k = 0 THEN b ELSE Turned(h[k - 1], declared, deps)
    BY <1>5
  <2> QED BY <2>1, <2>2
<1> HIDE DEF IsLoop
<1>7. h[n] \in K[n] /\ n \in 0 .. n
  <2>1. n \in 0 .. n
    BY <1>1
  <2> HIDE DEF K
  <2> QED BY <1>3, <1>6, <2>1
<1>8. h[n] \in TurnState(S) /\ TurnFits(h[n], n, declared, deps)
  BY <1>7
<1> QED BY <1>5, <1>8 DEF n

\* Of a declaration that has no cycle, told by a rank below which the
\* dependencies of each step are, the order holds every step.
LEMMA PlanOrderIs ==
    ASSUME NEW S, NEW declared \in Seq(S), Distinct(declared), NEW deps, NEW rank \in [S -> Nat],
           \A x \in Range(declared) : \A d \in deps[x] : d \in Range(declared) /\ rank[d] < rank[x]
    PROVE  LET p == PlanOrder(declared, deps) IN
           p \in Seq(S) /\ Range(p) = Range(declared) /\ Distinct(p) /\ Behind(p, deps)
<1> DEFINE last == Turns(declared, deps)[Len(declared)]
           p == last.ordered
           R == Range(declared)
<1>1. last \in TurnState(S) /\ TurnFits(last, Len(declared), declared, deps)
  BY TurnsFit
<1> HIDE DEF last
<1>2. /\ p \in Seq(S) /\ last.queue \in Seq(S) /\ Distinct(p) /\ Behind(p, deps)
      /\ Range(p) \cap Range(last.queue) = {}
      /\ Range(p) \cup Range(last.queue) = {x \in R : deps[x] \subseteq Range(p)}
      /\ last.queue = <<>> \/ Len(p) = Len(declared)
  BY <1>1 DEF TurnState, TurnFits
<1>3. R \subseteq S /\ Range(p) \subseteq R
  BY <1>2, RangeOfSeq
<1> HIDE DEF p
<1>4. last.queue = <<>>
  <2>1. SUFFICES ASSUME last.queue # <<>> PROVE FALSE
    OBVIOUS
  <2>2. IsFiniteSet(R) /\ Cardinality(R) = Len(declared)
    BY AsLongAsItsElements
  <2>3. IsFiniteSet(Range(p)) /\ Cardinality(Range(p)) = Len(p) /\ Len(p) = Len(declared)
    BY <1>2, <2>1, AsLongAsItsElements
  <2>4. Range(p) = R
    <3> HIDE DEF R
    <3> QED BY <1>3, <2>2, <2>3, FS_Subset
  <2>5. Head(last.queue) \in Range(last.queue)
    BY <1>2, <2>1, HeadTailProperties, ElementsOf
  <2> QED BY <1>2, <2>4, <2>5
<1>5. Range(p) = {x \in R : deps[x] \subseteq Range(p)}
  <2>1. Range(last.queue) = {}
    BY <1>4 DEF Range
  <2> QED BY <1>2, <2>1
<1>6. Range(p) = R
  <2>1. SUFFICES ASSUME R \ Range(p) # {} PROVE FALSE
    BY <1>3
  <2> DEFINE T == {rank[x] : x \in R \ Range(p)}
  <2>2. T \subseteq Nat /\ T # {}
    BY <1>3, <2>1
  <2>3. \E y \in T : \A z \in T : y <= z
    <3> HIDE DEF T
    <3> QED BY <2>2, LeastNumber
  <2>4. PICK x \in R \ Range(p) : \A z \in R \ Range(p) : rank[x] <= rank[z]
    BY <2>3
  <2>5. PICK d \in deps[x] : d \notin Range(p)
    BY <1>5, <2>4
  <2>6. d \in R /\ rank[d] < rank[x]
    BY <2>4, <2>5
  <2>7. rank[x] <= rank[d] /\ rank[x] \in Nat /\ rank[d] \in Nat
    BY <1>3, <2>4, <2>5, <2>6
  <2> QED BY <2>6, <2>7
<1>7. PlanOrder(declared, deps) = p
  BY DEF PlanOrder, p, last
<1> QED BY <1>2, <1>6, <1>7

\* The planner accepts what a rerun makes of a workflow that it has accepted,
\* whichever step failed and whatever has been read: the dependencies that are
\* left are within the rerun and have no cycle (build_failed_rerun_state). So the
\* workflows can be closed under reruns, as RerunAssumption has it.
THEOREM RerunIsAccepted ==
    ASSUME NEW w \in Workflow, w.planned, IsPlanned(w), NEW s \in Range(w.declared),
           NEW read \in [Steps -> Outputs]
    PROVE  LET r == Requested(RerunOf(w, s, read)) IN
           r \in Workflow /\ r.planned /\ IsPlanned(r)
<1> DEFINE I == Impacted(w, s)
           d == RerunOf(w, s, read)
           r == Requested(d)
           place(x) == CHOOSE i \in DOMAIN w.order : w.order[i] = x
           rank == [x \in Steps |-> IF x \in Range(w.order) THEN place(x) ELSE 0]
<1>1. /\ w.declared \in Seq(Steps) /\ w.order \in Seq(Steps) /\ w.deps \in [Steps -> SUBSET Steps]
      /\ Declaration(w)
  BY DEF Workflow, Declaration
<1>2. /\ Range(w.order) = Range(w.declared) /\ Distinct(w.declared) /\ Distinct(w.order)
      /\ \A i \in DOMAIN w.order : \A x \in w.deps[w.order[i]] :
             \E j \in 1 .. (i - 1) : w.order[j] = x
  BY DEF IsPlanned
<1>3. I \subseteq Range(w.declared) /\ Range(w.declared) \subseteq Steps
  BY <1>1, ImpactedIs, RangeOfSeq
<1> HIDE DEF I
<1>4. d = [w EXCEPT !.declared = Among(@, I),
                    !.deps = [x \in Steps |-> IF x \in I THEN @[x] \cap I ELSE @[x]],
                    !.seeds = [x \in Steps |-> IF x \in I THEN "absent" ELSE read[x]]]
  BY DEF RerunOf, I
<1> HIDE DEF d
<1>5. /\ d.declared = Among(w.declared, I) /\ d.planned = w.planned
      /\ d.deps = [x \in Steps |-> IF x \in I THEN w.deps[x] \cap I ELSE w.deps[x]]
  BY <1>4 DEF Workflow
<1>6. d.declared \in Seq(Steps) /\ Distinct(d.declared) /\ Range(d.declared) = I
  <2>1. /\ Among(w.declared, I) \in Seq(Steps) /\ Range(Among(w.declared, I)) = Range(w.declared) \cap I
        /\ Distinct(w.declared) => Distinct(Among(w.declared, I))
    BY <1>1, AmongIs
  <2> QED BY <1>2, <1>3, <1>5, <2>1
<1>7. d \in Workflow
  <2>1. [x \in Steps |-> IF x \in I THEN w.deps[x] \cap I ELSE w.deps[x]] \in [Steps -> SUBSET Steps]
    BY <1>1
  <2>2. [x \in Steps |-> IF x \in I THEN "absent" ELSE read[x]] \in [Steps -> Outputs]
    BY DEF Outputs
  <2>3. Among(w.declared, I) \in Seq(Steps)
    BY <1>5, <1>6
  <2> QED BY <1>4, <2>1, <2>2, <2>3 DEF Workflow
<1>8. \A x \in Range(w.order) : /\ place(x) \in DOMAIN w.order /\ w.order[place(x)] = x
  BY DEF Range
<1>9. DOMAIN w.order = 1 .. Len(w.order) /\ Len(w.order) \in Nat
  BY <1>1, LenProperties
<1>10. rank \in [Steps -> Nat] /\ \A x \in Range(w.order) : rank[x] = place(x)
  <2> HIDE DEF place
  <2>1. \A x \in Range(w.order) : place(x) \in Nat
    BY <1>8, <1>9
  <2> QED BY <1>2, <1>3, <2>1
<1> HIDE DEF place, rank
<1>11. ASSUME NEW x \in I, NEW y \in d.deps[x] PROVE y \in I /\ rank[y] < rank[x]
  <2>1. y \in w.deps[x] /\ y \in I /\ x \in Range(w.order) /\ y \in Range(w.order)
    BY <1>2, <1>3, <1>5, <1>11
  <2>2. place(x) \in DOMAIN w.order /\ w.order[place(x)] = x
    BY <1>8, <2>1
  <2>3. PICK j \in 1 .. (place(x) - 1) : w.order[j] = y
    BY <1>2, <2>1, <2>2
  <2>4. j \in DOMAIN w.order /\ place(y) \in DOMAIN w.order /\ w.order[place(y)] = y
    BY <1>8, <1>9, <2>1, <2>2
  <2>5. place(y) = j
    BY <1>2, <2>3, <2>4 DEF Distinct
  <2> QED BY <1>9, <1>10, <2>1, <2>2, <2>4, <2>5
<1> DEFINE p == PlanOrder(d.declared, d.deps)
<1>12. p \in Seq(Steps) /\ Range(p) = I /\ Distinct(p) /\ Behind(p, d.deps)
  <2>1. \A x \in Range(d.declared) : \A y \in d.deps[x] : y \in Range(d.declared) /\ rank[y] < rank[x]
    BY <1>6, <1>11
  <2> DEFINE dd == d.declared
             de == d.deps
  <2>2. /\ dd \in Seq(Steps) /\ Distinct(dd)
        /\ \A x \in Range(dd) : \A y \in de[x] : y \in Range(dd) /\ rank[y] < rank[x]
    BY <1>6, <2>1
  <2> HIDE DEF dd, de
  <2>3. LET o == PlanOrder(dd, de) IN
        o \in Seq(Steps) /\ Range(o) = Range(dd) /\ Distinct(o) /\ Behind(o, de)
    BY <1>10, <2>2, PlanOrderIs
  <2> QED BY <1>6, <2>3 DEF dd, de
<1> HIDE DEF p
<1>13. r = [d EXCEPT !.order = p]
  BY DEF Requested, p
<1>14. r \in Workflow /\ r.planned /\ r.order = p /\ r.declared = d.declared /\ r.deps = d.deps
  BY <1>5, <1>7, <1>12, <1>13 DEF Workflow
<1> HIDE DEF r
<1>15. IsPlanned(r)
  BY <1>6, <1>12, <1>14 DEF IsPlanned, Behind
<1> QED BY <1>14, <1>15 DEF r, d
=============================================================================

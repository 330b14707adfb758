----------------------- MODULE WorkflowSessionProofs -----------------------
(* What WorkflowSession promises, for any number of drafts, runs, steps,    *)
(* queued effects and button presses.                                       *)
(*                                                                         *)
(* The result of a run travels from its task over its events to the screen, *)
(* so each of the three is said to tell the truth (TaskInv, EventInv,       *)
(* ScreenInv).  Who controls what depends on what is still queued: a run    *)
(* that was requested is not yet anybody's (RequestInv), and the switch to  *)
(* its view, which comes before the request in a tick, is what keeps the    *)
(* workflow list from the screen when it is registered.                     *)
EXTENDS WorkflowSession, SequenceTheorems, TLAPS

-----------------------------------------------------------------------------
(* Types *)

Commands == {"Cancel", "Pause", "Resume"}
Phases   == {"none", "requested", "over"} \cup Spawned
Statuses == {"none", "Pending", "Running", "Paused", "CancelRequested"} \cup Terminal

Effect ==
    [type : {"SwitchTo"}, route : Routes]
        \cup [type : {"RunRequested"}, run : Runs]
        \cup [type : {"RunControl"}, run : Runs, command : Commands]

Event ==
    [type : {"Status"}, value : {"Running", "Paused", "CancelRequested", "Failed"}]
        \cup [type : {"Finished"}, value : {"Succeeded", "Failed", "Skipped"}]
        \cup [type : {"Completed"}, value : Terminal]
        \cup {Started}

Task == [phase : Phases, todo : Nat, paused : BOOLEAN, cancel : BOOLEAN,
         failed : BOOLEAN, draft : Drafts \cup {None}]

View == [status : Statuses, failed : BOOLEAN]

TypeOK ==
    /\ route \in Routes
    /\ session \in [draft : Drafts \cup {None}, inputs : BOOLEAN, view : View,
                    run : Runs \cup {None}, control : Runs \cup {None}]
    /\ effects \in Seq(Effect) /\ batch \in Seq(Effect)
    /\ stream \in Runs \cup {None}
    /\ task \in [Runs -> Task]
    /\ control \in [Runs -> Seq(Commands)]
    /\ events \in [Runs -> Seq(Event)]
    /\ drafts \in 0 .. MaxDrafts /\ runs \in 0 .. MaxRuns /\ presses \in Nat
    /\ history \subseteq Drafts

-----------------------------------------------------------------------------
(* The invariant *)

IsRequest(e) == e.type = "RunRequested"
OneRequest(q) == \A i, j \in DOMAIN q : IsRequest(q[i]) /\ IsRequest(q[j]) => i = j
Queued == Range(effects) \cup Range(batch)

\* The result a task came to.
ResultOf(t, v) ==
    /\ t.phase = "over"
    /\ v = "Canceled" <=> t.cancel
    /\ v = "Succeeded" => ~t.failed /\ t.todo = 0

\* A run completes when it has no step left or was cancelled; one that has not
\* begun was not cancelled.
Sensible(t) ==
    /\ t.phase \in {"none", "requested", "created"} => ~t.cancel
    /\ t.phase = "created" => t.todo = StepsPerRun
    /\ t.phase \in {"top", "waitTop", "prepare", "execute"} => t.todo > 0
    /\ t.phase = "complete" /\ ~t.cancel => t.todo = 0

TaskInv ==
    \A r \in Runs : Sensible(task[r]) /\ (r > runs => task[r].phase = "none")

\* What the events say of a result is true.
EventInv ==
    \A r \in Runs : \A e \in Range(events[r]) :
        e.type \in {"Status", "Completed"} /\ e.value \in Terminal => ResultOf(task[r], e.value)

\* The session shows a run, or a form to fill in, or nothing; what it shows of
\* the run is true.
ScreenInv ==
    /\ session.inputs => session.run = None /\ session.draft # None
    /\ session.run = None => session.view = NoView /\ session.control = None
    /\ session.run # None =>
           LET t == task[session.run] IN
           /\ session.draft # None /\ session.draft = t.draft
           /\ t.phase # "none"
           /\ session.view.status # "none"
           /\ t.phase = "requested" => session.view = [status |-> "Pending", failed |-> FALSE]
           /\ session.view.status \in Terminal => ResultOf(t, session.view.status)
           /\ session.view.status = "Succeeded" => session.draft \in history

\* A run that was requested waits in one place only, with the switch to its
\* view ahead of it; nobody listens to it yet.
RequestInv ==
    /\ effects = <<>> \/ batch = <<>>
    /\ OneRequest(effects) /\ OneRequest(batch)
    /\ \A e \in Queued : IsRequest(e) => task[e.run].phase = "requested"
    /\ \A e \in Range(effects) :
           IsRequest(e) => session.run = e.run /\ route \in {"WorkflowInputs", "WorkflowRun"}
    /\ session.run # None /\ task[session.run].phase = "requested" =>
           route = "WorkflowRun" \/ SwitchTo("WorkflowRun") \in Queued
    /\ stream # None => task[stream].phase \notin {"none", "requested"}

EndIsSaid(es) == \E e \in Range(es) : e.type = "Completed"

\* While a run is controlled none is requested, no step of it has failed, and
\* if it is over, what ends the control is on its way.
ControlInv ==
    IsRunning =>
        /\ session.control = session.run /\ stream = session.run
        /\ route # "Workflows"
        /\ ~session.view.failed
        /\ \A e \in Queued : ~IsRequest(e)
        /\ task[session.run].phase = "over" => EndIsSaid(events[session.run])

SessionInv == TypeOK /\ TaskInv /\ EventInv /\ ScreenInv /\ RequestInv /\ ControlInv

-----------------------------------------------------------------------------
(* The queues *)

\* What is left of a queue when an effect is taken from it.
LEMMA Removal ==
    ASSUME NEW S, NEW q \in Seq(S), NEW i \in DOMAIN q
    PROVE  LET p == RemoveAt(q, i) IN
           /\ p \in Seq(S)
           /\ Len(p) = Len(q) - 1
           /\ \A j \in DOMAIN p : p[j] = q[IF j < i THEN j ELSE j + 1]
<1> DEFINE a == SubSeq(q, 1, i - 1)
           b == SubSeq(q, i + 1, Len(q))
<1>1. i \in 1 .. Len(q) /\ Len(q) \in Nat
  BY LenProperties
<1>2. a \in Seq(S) /\ Len(a) = i - 1 /\ \A j \in 1 .. (i - 1) : a[j] = q[j]
  BY <1>1, SubSeqProperties
<1>3. b \in Seq(S) /\ Len(b) = Len(q) - i /\ \A j \in 1 .. (Len(q) - i) : b[j] = q[i + j]
  <2>1. CASE i < Len(q)
    BY <1>1, <2>1, SubSeqProperties
  <2>2. CASE i = Len(q)
    BY <1>1, <2>2, SubSeqEmpty, EmptySeq
  <2> QED BY <1>1, <2>1, <2>2
<1> HIDE DEF a, b
<1>4. a \o b \in Seq(S) /\ Len(a \o b) = Len(q) - 1
  BY <1>1, <1>2, <1>3, ConcatProperties
<1>5. \A j \in 1 .. (Len(q) - 1) : (a \o b)[j] = q[IF j < i THEN j ELSE j + 1]
  <2>1. \A j \in 1 .. (Len(a) + Len(b)) :
            (a \o b)[j] = IF j <= Len(a) THEN a[j] ELSE b[j - Len(a)]
    BY <1>2, <1>3, ConcatProperties
  <2> SUFFICES ASSUME NEW j \in 1 .. (Len(q) - 1)
               PROVE  (a \o b)[j] = q[IF j < i THEN j ELSE j + 1]
    OBVIOUS
  <2>2. CASE j < i
    BY <1>1, <1>2, <1>3, <2>1, <2>2
  <2>3. CASE ~(j < i)
    <3>1. j - (i - 1) \in 1 .. (Len(q) - i) /\ i + (j - (i - 1)) = j + 1
      BY <1>1, <2>3
    <3>2. j \in 1 .. (Len(a) + Len(b)) /\ ~(j <= Len(a)) /\ j - Len(a) = j - (i - 1)
      BY <1>1, <1>2, <1>3, <2>3
    <3>3. (a \o b)[j] = b[j - (i - 1)]
      BY <2>1, <3>2
    <3> QED BY <1>3, <2>3, <3>1, <3>3
  <2> QED BY <2>2, <2>3
<1>6. RemoveAt(q, i) = a \o b
  BY DEF RemoveAt, a, b
<1>7. DOMAIN (a \o b) = 1 .. (Len(q) - 1)
  BY <1>4, LenProperties
<1> QED BY <1>4, <1>5, <1>6, <1>7

\* Nothing is lost but the effect taken, and nothing appears.
LEMMA RemovalKeeps ==
    ASSUME NEW q \in Seq(Effect), NEW i \in DOMAIN q
    PROVE  LET p == RemoveAt(q, i) IN
           /\ Range(p) \subseteq Range(q)
           /\ Range(q) \subseteq Range(p) \cup {q[i]}
           /\ OneRequest(q) => OneRequest(p)
           /\ OneRequest(q) /\ IsRequest(q[i]) => \A e \in Range(p) : ~IsRequest(e)
<1> DEFINE p == RemoveAt(q, i)
           old(j) == IF j < i THEN j ELSE j + 1
<1>1. p \in Seq(Effect) /\ Len(p) = Len(q) - 1 /\ \A j \in DOMAIN p : p[j] = q[old(j)]
  BY Removal
<1> HIDE DEF p
<1>2. /\ DOMAIN p = 1 .. (Len(q) - 1) /\ DOMAIN q = 1 .. Len(q) /\ Len(q) \in Nat
      /\ i \in 1 .. Len(q)
  BY <1>1, LenProperties
<1>3. \A j \in DOMAIN p : old(j) \in DOMAIN q /\ old(j) # i
  BY <1>2
<1>4. \A j, k \in DOMAIN p : old(j) = old(k) => j = k
  BY <1>2
<1>5. \A k \in DOMAIN q : k = i \/ \E j \in DOMAIN p : old(j) = k
  <2> SUFFICES ASSUME NEW k \in DOMAIN q, k # i PROVE \E j \in DOMAIN p : old(j) = k
    OBVIOUS
  <2>1. CASE k < i
    BY <1>2, <2>1
  <2>2. CASE k > i
    <3>1. k - 1 \in DOMAIN p /\ old(k - 1) = k
      BY <1>2, <2>2
    <3> QED BY <3>1
  <2> QED BY <1>2, <2>1, <2>2
<1> HIDE DEF old
<1>6. Range(p) \subseteq Range(q)
  BY <1>1, <1>3 DEF Range
<1>7. Range(q) \subseteq Range(p) \cup {q[i]}
  BY <1>1, <1>5 DEF Range
<1>8. OneRequest(q) => OneRequest(p)
  BY <1>1, <1>3, <1>4 DEF OneRequest
<1>9. OneRequest(q) /\ IsRequest(q[i]) => \A e \in Range(p) : ~IsRequest(e)
  BY <1>1, <1>3 DEF OneRequest, Range
<1> QED BY <1>6, <1>7, <1>8, <1>9 DEF p

\* Queueing after what is queued adds what is queued now.
LEMMA Queueing ==
    ASSUME NEW q \in Seq(Effect), NEW es \in Seq(Effect)
    PROVE  /\ q \o es \in Seq(Effect)
           /\ Range(q \o es) = Range(q) \cup Range(es)
           /\ es # <<>> => q \o es # <<>>
           /\ OneRequest(q) /\ OneRequest(es)
                  /\ ((\A e \in Range(q) : ~IsRequest(e)) \/ (\A e \in Range(es) : ~IsRequest(e)))
              => OneRequest(q \o es)
<1>1. /\ q \o es \in Seq(Effect) /\ Len(q \o es) = Len(q) + Len(es)
      /\ Len(q) \in Nat /\ Len(es) \in Nat
  BY ConcatProperties, LenProperties
<1>2. \A i \in 1 .. (Len(q) + Len(es)) :
          (q \o es)[i] = IF i <= Len(q) THEN q[i] ELSE es[i - Len(q)]
  BY ConcatProperties
<1>3. /\ DOMAIN q = 1 .. Len(q) /\ DOMAIN es = 1 .. Len(es)
      /\ DOMAIN (q \o es) = 1 .. (Len(q) + Len(es))
  BY <1>1, LenProperties
<1>4. Range(q \o es) = Range(q) \cup Range(es)
  BY RangeConcatenation
<1>5. es # <<>> => q \o es # <<>>
  BY <1>1, LenProperties, EmptySeq
<1>6. ASSUME OneRequest(q), OneRequest(es),
             (\A e \in Range(q) : ~IsRequest(e)) \/ (\A e \in Range(es) : ~IsRequest(e))
      PROVE  OneRequest(q \o es)
  <2> SUFFICES ASSUME NEW i \in DOMAIN (q \o es), NEW j \in DOMAIN (q \o es),
                      IsRequest((q \o es)[i]), IsRequest((q \o es)[j])
               PROVE  i = j
    BY DEF OneRequest
  <2>1. CASE i <= Len(q) /\ j <= Len(q)
    BY <1>1, <1>2, <1>3, <1>6, <2>1 DEF OneRequest
  <2>2. CASE i > Len(q) /\ j > Len(q)
    <3>1. i - Len(q) \in DOMAIN es /\ j - Len(q) \in DOMAIN es
      BY <1>1, <1>3, <2>2
    <3>2. IsRequest(es[i - Len(q)]) /\ IsRequest(es[j - Len(q)])
      BY <1>1, <1>2, <1>3, <2>2
    <3>3. i - Len(q) = j - Len(q)
      BY <1>6, <3>1, <3>2 DEF OneRequest
    <3> QED BY <1>1, <1>3, <3>3
  <2>3. ASSUME NEW a \in DOMAIN (q \o es), NEW b \in DOMAIN (q \o es), a <= Len(q), b > Len(q),
               IsRequest((q \o es)[a]), IsRequest((q \o es)[b])
        PROVE  FALSE
    <3>1. a \in DOMAIN q /\ b - Len(q) \in DOMAIN es
      BY <1>1, <1>3, <2>3
    <3>2. IsRequest(q[a]) /\ IsRequest(es[b - Len(q)])
      BY <1>1, <1>2, <1>3, <2>3
    <3> QED BY <1>6, <3>1, <3>2 DEF Range
  <2>4. (i <= Len(q) \/ i > Len(q)) /\ (j <= Len(q) \/ j > Len(q))
    BY <1>1, <1>3
  <2> QED BY <2>1, <2>2, <2>3, <2>4
<1> QED BY <1>1, <1>4, <1>5, <1>6

-----------------------------------------------------------------------------
(* The channels and the record of a run *)

\* What is sent reaches the channel of the run if it is heard, and no other.
LEMMA Sending ==
    ASSUME TypeOK, NEW r \in Runs, NEW es \in Seq(Event), Emit(r, es)
    PROVE  /\ events' \in [Runs -> Seq(Event)]
           /\ \A q \in Runs : q # r => events'[q] = events[q]
           /\ Range(events'[r]) \subseteq Range(events[r]) \cup Range(es)
           /\ Heard(r) => Range(es) \subseteq Range(events'[r])
<1>1. events \in [Runs -> Seq(Event)]
  BY DEF TypeOK
<1>2. events[r] \o es \in Seq(Event) /\ Range(events[r] \o es) = Range(events[r]) \cup Range(es)
  BY <1>1, ConcatProperties, RangeConcatenation
<1>3. \/ ~Heard(r) /\ events' = events
      \/ events' = [events EXCEPT ![r] = events[r] \o es]
  BY DEF Emit
<1> QED BY <1>1, <1>2, <1>3

\* The events a run sends.
LEMMA EventsTyped ==
    /\ \A st \in {"Running", "Paused", "CancelRequested", "Failed"} : Status(st) \in Event
    /\ \A o \in {"Succeeded", "Failed", "Skipped"} : Finished(o) \in Event
    /\ \A st \in Terminal : Completed(st) \in Event
    /\ Started \in Event
BY DEF Event, Status, Finished, Completed, Started

\* The elements of a queue of one or two.
LEMMA Short ==
    ASSUME NEW S, NEW a \in S, NEW b \in S
    PROVE  /\ <<a>> \in Seq(S) /\ Range(<<a>>) = {a}
           /\ <<a, b>> \in Seq(S) /\ Range(<<a, b>>) = {a, b}
           /\ <<>> \in Seq(S) /\ Range(<<>>) = {}
<1>1. DOMAIN <<a>> = {1} /\ DOMAIN <<a, b>> = {1, 2} /\ DOMAIN <<>> = {}
  OBVIOUS
<1>2. <<a>> \in Seq(S) /\ <<a, b>> \in Seq(S) /\ <<>> \in Seq(S)
  OBVIOUS
<1> QED BY <1>1, <1>2 DEF Range

\* What a step of the task of run r can do to the rest: nothing but send it
\* true events and take commands.
TaskStep(r) ==
    /\ UNCHANGED <<ui, loop, counts, history>>
    /\ control' \in [Runs -> Seq(Commands)]
    /\ task' \in [Runs -> Task] /\ \A q \in Runs : q # r => task'[q] = task[q]
    /\ task[r].phase \notin {"none", "requested", "over"}
    /\ task'[r].phase \notin {"none", "requested"}
    /\ task'[r].draft = task[r].draft
    /\ Sensible(task'[r])
    /\ events' \in [Runs -> Seq(Event)] /\ \A q \in Runs : q # r => events'[q] = events[q]
    /\ \A e \in Range(events'[r]) :
           \/ e \in Range(events[r])
           \/ e.type \in {"Status", "Completed"} /\ e.value \in Terminal => ResultOf(task'[r], e.value)
    /\ Heard(r) /\ task'[r].phase = "over" => EndIsSaid(events'[r])

LEMMA Becoming ==
    ASSUME TypeOK, NEW r \in Runs, NEW t \in Task, Become(r, t)
    PROVE  /\ UNCHANGED <<ui, loop, counts, history>>
           /\ task' \in [Runs -> Task] /\ task'[r] = t
           /\ \A q \in Runs : q # r => task'[q] = task[q]
BY DEF TypeOK, Become

\* What a run sends as it goes from one task record to another.
LEMMA TaskStepBy ==
    ASSUME TypeOK, NEW r \in Runs, NEW t \in Task, Become(r, t),
           task[r].phase \notin {"none", "requested", "over"},
           t.phase \notin {"none", "requested"}, t.draft = task[r].draft, Sensible(t),
           NEW es \in Seq(Event), Emit(r, es),
           \A e \in Range(es) :
               e.type \in {"Status", "Completed"} /\ e.value \in Terminal => ResultOf(t, e.value),
           Heard(r) /\ t.phase = "over" => EndIsSaid(es),
           control' \in [Runs -> Seq(Commands)]
    PROVE  TaskStep(r)
<1>1. /\ UNCHANGED <<ui, loop, counts, history>>
      /\ task' \in [Runs -> Task] /\ task'[r] = t
      /\ \A q \in Runs : q # r => task'[q] = task[q]
  BY Becoming
<1>2. /\ events' \in [Runs -> Seq(Event)]
      /\ \A q \in Runs : q # r => events'[q] = events[q]
      /\ Range(events'[r]) \subseteq Range(events[r]) \cup Range(es)
      /\ Heard(r) => Range(es) \subseteq Range(events'[r])
  BY Sending
<1>3. Heard(r) /\ task'[r].phase = "over" => EndIsSaid(events'[r])
  BY <1>1, <1>2 DEF EndIsSaid
<1> QED BY <1>1, <1>2, <1>3 DEF TaskStep

\* The same when nothing is sent.
LEMMA SilentTaskStep ==
    ASSUME TypeOK, NEW r \in Runs, NEW t \in Task, Become(r, t),
           task[r].phase \notin {"none", "requested", "over"},
           t.phase \notin {"none", "requested"}, t.draft = task[r].draft, Sensible(t),
           t.phase = "over" => ~Heard(r), UNCHANGED <<control, events>>
    PROVE  TaskStep(r)
<1>1. /\ UNCHANGED <<ui, loop, counts, history>>
      /\ task' \in [Runs -> Task] /\ task'[r] = t
      /\ \A q \in Runs : q # r => task'[q] = task[q]
  BY Becoming
<1> QED BY <1>1 DEF TaskStep, TypeOK

\* Another phase, and maybe one step less to go.
LEMMA TaskRecord ==
    ASSUME TypeOK, NEW r \in Runs
    PROVE  /\ task[r] \in Task
           /\ \A p \in Phases : [task[r] EXCEPT !.phase = p] \in Task
           /\ \A p \in Phases, f \in BOOLEAN :
                  task[r].todo > 0 =>
                      [task[r] EXCEPT !.todo = @ - 1, !.failed = f, !.phase = p] \in Task
           /\ \A p \in Phases, z \in BOOLEAN, c \in BOOLEAN :
                  [task[r] EXCEPT !.paused = z, !.cancel = c, !.phase = p] \in Task
<1>1. task[r] \in Task
  BY DEF TypeOK
<1>2. \A p \in Phases : [task[r] EXCEPT !.phase = p] \in Task
  BY <1>1 DEF Task
<1>3. ASSUME NEW p \in Phases, NEW f \in BOOLEAN, task[r].todo > 0
      PROVE  [task[r] EXCEPT !.todo = @ - 1, !.failed = f, !.phase = p] \in Task
  <2>1. task[r].todo - 1 \in Nat
    BY <1>1, <1>3 DEF Task
  <2> QED BY <1>1, <2>1 DEF Task
<1>4. ASSUME NEW p \in Phases, NEW z \in BOOLEAN, NEW c \in BOOLEAN
      PROVE  [task[r] EXCEPT !.paused = z, !.cancel = c, !.phase = p] \in Task
  BY <1>1 DEF Task
<1> QED BY <1>1, <1>2, <1>3, <1>4

-----------------------------------------------------------------------------
(* The steps of a run task *)

LEMMA BeginStep ==
    ASSUME TypeOK, TaskInv, NEW r \in Runs, TaskBegin(r)
    PROVE  TaskStep(r)
<1>1. task[r] \in Task /\ Sensible(task[r]) /\ task[r].phase = "created" /\ UNCHANGED control
  BY DEF TypeOK, TaskInv, TaskBegin
<1>2. control' \in [Runs -> Seq(Commands)] /\ StepsPerRun \in Nat
  BY <1>1, SessionAssumption DEF TypeOK
<1> DEFINE Goes(p) == [task[r] EXCEPT !.phase = p]
<1>3. \A p \in Phases : Goes(p) \in Task /\ Goes(p).phase = p /\ Goes(p).draft = task[r].draft
                        /\ Goes(p).todo = StepsPerRun /\ ~Goes(p).cancel
  BY <1>1, TaskRecord DEF Task, Sensible
<1>4. Sensible(Goes("over")) /\ Sensible(Goes(IF StepsPerRun = 0 THEN "complete" ELSE "top"))
  BY <1>1, <1>2, <1>3 DEF Sensible, Phases, Spawned
<1>5. CASE ~Heard(r) /\ Go(r, "over") /\ UNCHANGED events
  <2>1. Become(r, Goes("over"))
    BY <1>5 DEF Go
  <2> HIDE DEF Goes
  <2> QED BY <1>1, <1>3, <1>4, <1>5, <2>1, SilentTaskStep DEF Phases
<1>6. CASE Emit(r, <<Status("Running")>>) /\ Go(r, IF StepsPerRun = 0 THEN "complete" ELSE "top")
  <2> DEFINE p == IF StepsPerRun = 0 THEN "complete" ELSE "top"
             es == <<Status("Running")>>
  <2>1. Become(r, Goes(p)) /\ p \in Phases /\ p \notin {"none", "requested"}
    BY <1>6 DEF Go, Phases, Spawned
  <2>2. es \in Seq(Event) /\ Range(es) = {Status("Running")}
    BY EventsTyped, Short
  <2>3. Status("Running").value \notin Terminal
    BY DEF Status, Terminal
  <2>4. Sensible(Goes(p)) /\ Emit(r, es)
    BY <1>4, <1>6
  <2>5. Goes(p).phase # "over"
    BY <1>3, <2>1
  <2> HIDE DEF Goes, p, es
  <2> QED BY <1>1, <1>2, <1>3, <2>1, <2>2, <2>3, <2>4, <2>5, TaskStepBy
<1>7. CASE Emit(r, <<Status("Failed"), Completed("Failed")>>) /\ Go(r, "over")
  <2> DEFINE es == <<Status("Failed"), Completed("Failed")>>
  <2>1. Become(r, Goes("over")) /\ Emit(r, es)
    BY <1>7 DEF Go
  <2>2. es \in Seq(Event) /\ Range(es) = {Status("Failed"), Completed("Failed")}
    <3>1. Status("Failed") \in Event /\ Completed("Failed") \in Event
      BY EventsTyped DEF Terminal
    <3> HIDE DEF es
    <3> QED BY <3>1, Short DEF es
  <2>3. ResultOf(Goes("over"), "Failed")
    BY <1>3 DEF ResultOf, Phases
  <2>4. \A e \in Range(es) : e.value = "Failed"
    BY <2>2 DEF Status, Completed
  <2>5. \A e \in Range(es) :
            e.type \in {"Status", "Completed"} /\ e.value \in Terminal => ResultOf(Goes("over"), e.value)
    BY <2>3, <2>4
  <2>6. EndIsSaid(es)
    BY <2>2 DEF EndIsSaid, Completed
  <2> HIDE DEF Goes, es
  <2> QED BY <1>1, <1>2, <1>3, <1>4, <2>1, <2>2, <2>5, <2>6, TaskStepBy DEF Phases
<1> QED BY <1>5, <1>6, <1>7 DEF TaskBegin

LEMMA CommandStep ==
    ASSUME TypeOK, TaskInv, NEW r \in Runs, TakeCommand(r)
    PROVE  TaskStep(r)
<1> DEFINE c == Head(control[r])
<1>1. /\ task[r] \in Task /\ Sensible(task[r])
      /\ task[r].phase \in {"top", "after", "waitTop", "waitAfter"}
  BY DEF TypeOK, TaskInv, TakeCommand, Listens
<1>2. control[r] \in Seq(Commands) /\ control[r] # <<>> /\ control' = [control EXCEPT ![r] = Tail(@)]
  BY DEF TypeOK, TakeCommand
<1>3. c \in Commands /\ control' \in [Runs -> Seq(Commands)]
  BY <1>2, HeadTailProperties DEF TypeOK
<1>4. CASE UNCHANGED <<ui, loop, counts, history, task, events>>
  BY <1>1, <1>3, <1>4 DEF TaskStep, TypeOK
<1>5. CASE /\ Emit(r, <<Status([Pause |-> "Paused", Resume |-> "Running", Cancel |-> "CancelRequested"][c])>>)
           /\ Become(r, [task[r] EXCEPT !.paused = (c = "Pause"), !.cancel = (task[r].cancel \/ c = "Cancel"),
                                        !.phase = IF Heard(r) THEN @ ELSE "over"])
  <2> DEFINE st == [Pause |-> "Paused", Resume |-> "Running", Cancel |-> "CancelRequested"][c]
             p == IF Heard(r) THEN task[r].phase ELSE "over"
             k == task[r].cancel \/ c = "Cancel"
             t == [task[r] EXCEPT !.paused = (c = "Pause"), !.cancel = k, !.phase = p]
             es == <<Status(st)>>
  <2>1. st \in {"Running", "Paused", "CancelRequested"}
    BY <1>3 DEF Commands
  <2>2. p \in Phases /\ k \in BOOLEAN /\ (c = "Pause") \in BOOLEAN
    BY <1>1 DEF Phases, Spawned, Task
  <2>3. t \in Task
    BY <2>2, TaskRecord
  <2>4. t.phase = p /\ t.draft = task[r].draft /\ t.todo = task[r].todo
    BY <1>1 DEF Task
  <2>5. Sensible(t) /\ t.phase \notin {"none", "requested"}
    BY <1>1, <2>4 DEF Sensible
  <2>6. es \in Seq(Event) /\ Range(es) = {Status(st)}
    <3>1. Status(st) \in Event
      BY <2>1, EventsTyped
    <3> HIDE DEF st
    <3> QED BY <3>1, Short
  <2>7. Status(st).value \notin Terminal
    BY <2>1 DEF Status, Terminal
  <2>8. Become(r, t) /\ Emit(r, es)
    BY <1>5
  <2>9. Heard(r) => t.phase # "over"
    BY <1>1, <2>4
  <2> HIDE DEF t, es, c
  <2> QED BY <1>1, <1>3, <2>3, <2>4, <2>5, <2>6, <2>7, <2>8, <2>9, TaskStepBy
<1> QED BY <1>4, <1>5 DEF TakeCommand

\* A run that neither drains nor waits goes on where its record lets it.
LEMMA GoingOn ==
    ASSUME TypeOK, TaskInv, NEW r \in Runs, NEW p \in Phases, Go(r, p), UNCHANGED <<control, events>>,
           task[r].phase \in {"top", "after", "waitTop", "waitAfter"},
           \/ p = NextPhase(task[r])
           \/ p = "waitTop" /\ task[r].phase = "top"
           \/ p = "waitAfter"
    PROVE  TaskStep(r)
<1> DEFINE t == [task[r] EXCEPT !.phase = p]
<1>1. task[r] \in Task /\ Sensible(task[r])
  BY DEF TypeOK, TaskInv
<1>2. t \in Task /\ t.phase = p /\ t.draft = task[r].draft /\ t.todo = task[r].todo /\ t.cancel = task[r].cancel
  BY <1>1, TaskRecord DEF Task
<1>3. task[r].todo \in Nat /\ task[r].cancel \in BOOLEAN
  BY <1>1 DEF Task
<1>4. Sensible(t) /\ p \notin {"none", "requested", "over"}
  <2>1. CASE p = NextPhase(task[r])
    BY <1>1, <1>2, <1>3, <2>1 DEF Sensible, NextPhase
  <2>2. CASE p # NextPhase(task[r])
    BY <1>1, <1>2, <1>3, <2>2 DEF Sensible
  <2> QED BY <2>1, <2>2
<1>5. Become(r, t)
  BY DEF Go
<1> HIDE DEF t
<1> QED BY <1>1, <1>2, <1>4, <1>5, SilentTaskStep

LEMMA NextPhaseTyped ==
    ASSUME NEW t, t.phase \in {"top", "after", "waitTop", "waitAfter"}
    PROVE  NextPhase(t) \in Phases
BY DEF NextPhase, Phases, Spawned

LEMMA EndDrainStep ==
    ASSUME TypeOK, TaskInv, NEW r \in Runs, TaskEndDrain(r)
    PROVE  TaskStep(r)
<1> DEFINE p == IF task[r].paused /\ ~task[r].cancel
                THEN (IF task[r].phase = "top" THEN "waitTop" ELSE "waitAfter")
                ELSE NextPhase(task[r])
<1>1. task[r].phase \in {"top", "after"} /\ UNCHANGED <<control, events>> /\ Go(r, p)
  BY DEF TaskEndDrain
<1>2. \/ p = NextPhase(task[r])
      \/ p = "waitTop" /\ task[r].phase = "top"
      \/ p = "waitAfter"
  OBVIOUS
<1>3. p \in Phases
  BY <1>1, <1>2, NextPhaseTyped DEF Phases, Spawned
<1> HIDE DEF p
<1> QED BY <1>1, <1>2, <1>3, GoingOn

LEMMA EndWaitStep ==
    ASSUME TypeOK, TaskInv, NEW r \in Runs, TaskEndWait(r)
    PROVE  TaskStep(r)
<1>1. /\ task[r].phase \in {"waitTop", "waitAfter"}
      /\ UNCHANGED <<control, events>> /\ Go(r, NextPhase(task[r]))
  BY DEF TaskEndWait
<1>2. NextPhase(task[r]) \in Phases
  BY <1>1, NextPhaseTyped
<1> QED BY <1>1, <1>2, GoingOn

LEMMA StartingStep ==
    ASSUME TypeOK, TaskInv, NEW r \in Runs, StepStart(r)
    PROVE  TaskStep(r)
<1> DEFINE t == [task[r] EXCEPT !.phase = "execute"]
           es == <<Started>>
<1>1. task[r] \in Task /\ Sensible(task[r]) /\ task[r].phase = "prepare"
  BY DEF TypeOK, TaskInv, StepStart
<1>2. control' \in [Runs -> Seq(Commands)] /\ Become(r, t) /\ Emit(r, es)
  BY DEF TypeOK, StepStart, Go
<1>3. "execute" \in Phases
  BY DEF Phases, Spawned
<1>4. t \in Task /\ t.phase = "execute" /\ t.draft = task[r].draft /\ t.todo = task[r].todo
  BY <1>1, <1>3, TaskRecord DEF Task
<1>5. Sensible(t)
  BY <1>1, <1>4 DEF Sensible
<1>6. es \in Seq(Event) /\ Range(es) = {Started}
  BY EventsTyped, Short
<1>7. Started.type \notin {"Status", "Completed"}
  BY DEF Started
<1> HIDE DEF t, es
<1> QED BY <1>1, <1>2, <1>4, <1>5, <1>6, <1>7, TaskStepBy

\* A step that has come to an end takes one from what is left.
LEMMA EndingStep ==
    ASSUME TypeOK, TaskInv, NEW r \in Runs, task[r].phase \in {"prepare", "execute"},
           NEW o \in {"Succeeded", "Failed", "Skipped"}, Emit(r, <<Finished(o)>>),
           NEW p \in {"over", "after", "complete", "top"},
           p = "top" => task[r].todo # 1, p = "complete" => task[r].todo = 1,
           p = "over" => ~Heard(r),
           Become(r, [task[r] EXCEPT !.todo = @ - 1, !.failed = @ \/ o = "Failed", !.phase = p]),
           UNCHANGED control
    PROVE  TaskStep(r)
<1> DEFINE f == task[r].failed \/ o = "Failed"
           t == [task[r] EXCEPT !.todo = @ - 1, !.failed = f, !.phase = p]
           es == <<Finished(o)>>
<1>1. task[r] \in Task /\ Sensible(task[r]) /\ task[r].todo > 0
  BY DEF TypeOK, TaskInv, Sensible
<1>2. f \in BOOLEAN /\ p \in Phases /\ task[r].todo \in Nat
  BY <1>1 DEF Task, Phases, Spawned
<1>3. t \in Task /\ t.phase = p /\ t.draft = task[r].draft /\ t.todo = task[r].todo - 1
  BY <1>1, <1>2, TaskRecord DEF Task
<1>4. Sensible(t)
  BY <1>1, <1>2, <1>3 DEF Sensible
<1>5. es \in Seq(Event) /\ Range(es) = {Finished(o)}
  BY EventsTyped, Short
<1>6. Finished(o).type \notin {"Status", "Completed"}
  BY DEF Finished
<1>7. Become(r, t) /\ Emit(r, es) /\ control' \in [Runs -> Seq(Commands)]
  BY DEF TypeOK
<1> HIDE DEF t, es
<1> QED BY <1>1, <1>3, <1>4, <1>5, <1>6, <1>7, TaskStepBy

LEMMA DeclinedStep ==
    ASSUME TypeOK, TaskInv, NEW r \in Runs, StepDeclined(r)
    PROVE  TaskStep(r)
<1> DEFINE p == IF ~Heard(r) THEN "over" ELSE IF task[r].todo = 1 THEN "complete" ELSE "top"
<1>1. PICK o \in {"Skipped", "Failed"} :
          /\ Emit(r, <<Finished(o)>>)
          /\ Become(r, [task[r] EXCEPT !.todo = @ - 1, !.failed = @ \/ o = "Failed", !.phase = p])
  BY DEF StepDeclined
<1>2. task[r].phase = "prepare" /\ UNCHANGED control
  BY DEF StepDeclined
<1>3. /\ p \in {"over", "after", "complete", "top"}
      /\ p = "top" => task[r].todo # 1
      /\ p = "complete" => task[r].todo = 1
      /\ p = "over" => ~Heard(r)
  OBVIOUS
<1> HIDE DEF p
<1> QED BY <1>1, <1>2, <1>3, EndingStep

LEMMA DoneStep ==
    ASSUME TypeOK, TaskInv, NEW r \in Runs, StepDone(r)
    PROVE  TaskStep(r)
<1> DEFINE p == IF Heard(r) THEN "after" ELSE "over"
<1>1. PICK o \in {"Succeeded", "Failed", "Skipped"} :
          /\ Emit(r, <<Finished(o)>>)
          /\ Become(r, [task[r] EXCEPT !.todo = @ - 1, !.failed = @ \/ o = "Failed", !.phase = p])
  BY DEF StepDone
<1>2. task[r].phase = "execute" /\ UNCHANGED control
  BY DEF StepDone
<1>3. p \in {"over", "after", "complete", "top"} /\ p # "top" /\ p # "complete" /\ (p = "over" => ~Heard(r))
  OBVIOUS
<1> HIDE DEF p
<1> QED BY <1>1, <1>2, <1>3, EndingStep

LEMMA CompleteStep ==
    ASSUME TypeOK, TaskInv, NEW r \in Runs, TaskComplete(r)
    PROVE  TaskStep(r)
<1> DEFINE t == [task[r] EXCEPT !.phase = "over"]
           v == IF task[r].cancel THEN "Canceled" ELSE IF task[r].failed THEN "Failed" ELSE "Succeeded"
           es == <<Completed(v)>>
<1>1. task[r] \in Task /\ Sensible(task[r]) /\ task[r].phase = "complete"
  BY DEF TypeOK, TaskInv, TaskComplete
<1>2. control' \in [Runs -> Seq(Commands)] /\ Become(r, t) /\ Emit(r, es)
  BY DEF TypeOK, TaskComplete, Go
<1>3. t \in Task
  BY TaskRecord DEF Phases
<1>4. /\ t.phase = "over" /\ t.draft = task[r].draft /\ t.todo = task[r].todo
      /\ t.cancel = task[r].cancel /\ t.failed = task[r].failed
  BY <1>1 DEF Task
<1>5. Sensible(t)
  BY <1>4 DEF Sensible
<1>6. v \in Terminal /\ ResultOf(t, v)
  <2>1. task[r].cancel \in BOOLEAN /\ task[r].failed \in BOOLEAN
    BY <1>1 DEF Task
  <2> QED BY <1>1, <1>4, <2>1 DEF ResultOf, Sensible, Terminal
<1>7. es \in Seq(Event) /\ Range(es) = {Completed(v)}
  BY <1>6, EventsTyped, Short
<1>8. Completed(v).value = v
  BY DEF Completed
<1>9. EndIsSaid(es)
  BY <1>7 DEF EndIsSaid, Completed
<1> HIDE DEF t, es, v
<1> QED BY <1>1, <1>2, <1>3, <1>4, <1>5, <1>6, <1>7, <1>8, <1>9, TaskStepBy

\* Every step of a run task is one.
LEMMA RunTaskSteps ==
    ASSUME TypeOK, TaskInv, NEW r \in Runs, RunTask(r)
    PROVE  TaskStep(r)
BY BeginStep, CommandStep, EndDrainStep, EndWaitStep, StartingStep, DeclinedStep, DoneStep,
   CompleteStep DEF RunTask

-----------------------------------------------------------------------------
(* A run task keeps the invariant *)

LEMMA TaskStepKeeps ==
    ASSUME SessionInv, NEW r \in Runs, TaskStep(r)
    PROVE  SessionInv'
<1>1. TypeOK /\ TaskInv /\ EventInv /\ ScreenInv /\ RequestInv /\ ControlInv
  BY DEF SessionInv
<1>2. UNCHANGED <<route, session, effects, batch, stream, drafts, runs, presses, history>>
  BY DEF TaskStep, ui, loop, counts
<1>3. task' \in [Runs -> Task] /\ \A q \in Runs : q # r => task'[q] = task[q]
  BY DEF TaskStep
<1>4. /\ task[r].phase \notin {"none", "requested", "over"}
      /\ task'[r].phase \notin {"none", "requested"}
      /\ task'[r].draft = task[r].draft
  BY DEF TaskStep
<1>5. \A q \in Runs : \A v : ResultOf(task[q], v) => ResultOf(task'[q], v)
  BY <1>3, <1>4 DEF ResultOf
<1>6. \A q \in Runs : /\ task'[q].phase = "requested" <=> task[q].phase = "requested"
                      /\ task'[q].phase = "none" <=> task[q].phase = "none"
                      /\ task'[q].draft = task[q].draft
  BY <1>3, <1>4
<1>7. TypeOK'
  BY <1>1, <1>2, <1>3 DEF TypeOK, TaskStep
<1>8. TaskInv'
  BY <1>1, <1>2, <1>3, <1>4 DEF TaskInv, TaskStep
<1>9. EventInv'
  <2> SUFFICES ASSUME NEW q \in Runs, NEW e \in Range(events'[q]),
                      e.type \in {"Status", "Completed"}, e.value \in Terminal
               PROVE  ResultOf(task'[q], e.value)
    BY DEF EventInv
  <2>1. CASE e \in Range(events[q])
    BY <1>1, <1>5, <2>1 DEF EventInv
  <2>2. CASE q = r
    BY <2>1, <2>2 DEF TaskStep
  <2>3. CASE q # r
    BY <2>1, <2>3 DEF TaskStep
  <2> QED BY <2>2, <2>3
<1>10. session.run # None => session.run \in Runs
  BY <1>1 DEF TypeOK
<1>11. ScreenInv'
  BY <1>1, <1>2, <1>5, <1>6, <1>10 DEF ScreenInv
<1>12. RequestInv'
  <2>1. \A e \in Queued : IsRequest(e) => e.run \in Runs
    <3>1. Range(effects) \subseteq Effect /\ Range(batch) \subseteq Effect
      BY <1>1, RangeOfSeq DEF TypeOK
    <3> QED BY <3>1 DEF Queued, Effect, IsRequest
  <2>2. stream # None => stream \in Runs
    BY <1>1 DEF TypeOK
  <2>3. Queued' = Queued
    BY <1>2 DEF Queued
  <2> QED BY <1>1, <1>2, <1>6, <1>10, <2>1, <2>2, <2>3 DEF RequestInv
<1>13. ControlInv'
  <2> SUFFICES ASSUME IsRunning' PROVE ControlInv'
    BY DEF ControlInv
  <2>1. session.run # None /\ stream = session.run /\ UNCHANGED <<IsRunning, Queued>>
    BY <1>1, <1>2 DEF ControlInv, IsRunning, Queued, ScreenInv
  <2>2. task'[session.run].phase = "over" => EndIsSaid(events'[session.run])
    <3>1. CASE session.run = r
      BY <2>1, <3>1 DEF TaskStep, Heard
    <3>2. CASE session.run # r
      BY <1>1, <1>2, <1>3, <1>10, <2>1, <3>2 DEF TaskStep, ControlInv, IsRunning
    <3> QED BY <3>1, <3>2
  <2> QED BY <1>1, <1>2, <2>1, <2>2 DEF ControlInv, IsRunning
<1> QED BY <1>7, <1>8, <1>9, <1>11, <1>12, <1>13 DEF SessionInv

-----------------------------------------------------------------------------
(* Key presses keep the invariant *)

\* What is queued, after a key press.
LEMMA KeyQueues ==
    ASSUME TypeOK, OneRequest(effects), batch = <<>>, NEW es \in Seq(Effect), Queue(es), OneRequest(es),
           (\A e \in Range(effects) : ~IsRequest(e)) \/ (\A e \in Range(es) : ~IsRequest(e))
    PROVE  /\ effects' \in Seq(Effect) /\ OneRequest(effects')
           /\ Range(effects') = Range(effects) \cup Range(es)
           /\ Queued = Range(effects) /\ Queued' = Range(effects) \cup Range(es)
           /\ batch' = <<>> /\ stream' = stream
<1>1. effects' = effects \o es /\ batch' = <<>> /\ stream' = stream
  BY DEF Queue
<1>2. effects \in Seq(Effect)
  BY DEF TypeOK
<1>3. effects' \in Seq(Effect) /\ OneRequest(effects') /\ Range(effects') = Range(effects) \cup Range(es)
  BY <1>1, <1>2, Queueing
<1>4. Range(<<>>) = {}
  BY DEF Range
<1> QED BY <1>1, <1>3, <1>4 DEF Queued

\* One or two effects, of which one at most is a request.
LEMMA FewRequests ==
    /\ \A a : OneRequest(<<a>>)
    /\ \A a, b : ~IsRequest(b) => OneRequest(<<a, b>>)
    /\ OneRequest(<<>>)
<1>1. \A a : DOMAIN <<a>> = {1}
  OBVIOUS
<1>2. \A a, b : DOMAIN <<a, b>> = {1, 2} /\ <<a, b>>[2] = b
  OBVIOUS
<1>3. DOMAIN <<>> = {}
  OBVIOUS
<1> QED BY <1>1, <1>2, <1>3 DEF OneRequest

LEMMA QueuedTyped ==
    ASSUME TypeOK
    PROVE  /\ Queued \subseteq Effect
           /\ \A e \in Queued : IsRequest(e) => e.run \in Runs
<1>1. Range(effects) \subseteq Effect /\ Range(batch) \subseteq Effect
  BY RangeOfSeq DEF TypeOK
<1> QED BY <1>1 DEF Queued, Effect, IsRequest

\* Keys that only queue navigation, or a command for a run.
LEMMA QuietKeyKeeps ==
    ASSUME SessionInv, batch = <<>>, NEW es \in Seq(Effect), Queue(es), OneRequest(es),
           \A e \in Range(es) : ~IsRequest(e),
           UNCHANGED <<route, session, task, control, events, drafts, runs, history>>, presses' \in Nat
    PROVE  SessionInv'
<1>1. TypeOK /\ TaskInv /\ EventInv /\ ScreenInv /\ RequestInv /\ ControlInv
  BY DEF SessionInv
<1>2. /\ effects' \in Seq(Effect) /\ OneRequest(effects')
      /\ Range(effects') = Range(effects) \cup Range(es)
      /\ Queued = Range(effects) /\ Queued' = Range(effects) \cup Range(es)
      /\ batch' = <<>> /\ stream' = stream
  BY <1>1, KeyQueues DEF RequestInv
<1>3. TypeOK'
  BY <1>1, <1>2 DEF TypeOK
<1>4. TaskInv' /\ EventInv' /\ ScreenInv'
  BY <1>1 DEF TaskInv, EventInv, ScreenInv
<1>5. RequestInv'
  BY <1>1, <1>2 DEF RequestInv
<1>6. ControlInv'
  BY <1>1, <1>2 DEF ControlInv, IsRunning
<1> QED BY <1>3, <1>4, <1>5, <1>6 DEF SessionInv

LEMMA NavigateKeeps ==
    ASSUME SessionInv, Navigate
    PROVE  SessionInv'
<1>1. PICK where \in {"Workflows", "Other"} : Queue(<<SwitchTo(where)>>)
  BY DEF Navigate
<1> DEFINE es == <<SwitchTo(where)>>
<1>2. SwitchTo(where) \in Effect /\ ~IsRequest(SwitchTo(where))
  BY DEF Effect, SwitchTo, Routes, IsRequest
<1>3. es \in Seq(Effect) /\ Range(es) = {SwitchTo(where)} /\ OneRequest(es)
  BY <1>2, Short, FewRequests
<1>4. batch = <<>> /\ UNCHANGED <<route, session, task, control, events, drafts, runs, presses, history>>
  BY DEF Navigate, AtKeyboard, ui, counts
<1>5. presses' \in Nat
  BY <1>4 DEF SessionInv, TypeOK
<1> HIDE DEF es
<1> QED BY <1>1, <1>2, <1>3, <1>4, <1>5, QuietKeyKeeps DEF es

LEMMA PressControlKeeps ==
    ASSUME SessionInv, PressControl
    PROVE  SessionInv'
<1>1. PICK c \in {"Cancel", "Pause", "Resume"} : Queue(<<RunControl(session.run, c)>>)
  BY DEF PressControl
<1> DEFINE e == RunControl(session.run, c)
           es == <<e>>
<1>2. session.run \in Runs
  BY DEF SessionInv, TypeOK, ScreenInv, PressControl, AtRunView, HasView
<1>3. e \in Effect /\ ~IsRequest(e)
  BY <1>2 DEF Effect, RunControl, Commands, IsRequest
<1> HIDE DEF e
<1>4. es \in Seq(Effect) /\ Range(es) = {e} /\ OneRequest(es)
  BY <1>3, Short, FewRequests
<1>5. batch = <<>> /\ UNCHANGED <<route, session, task, control, events, drafts, runs, history>>
  BY DEF PressControl, AtKeyboard, ui
<1>6. presses' \in Nat
  BY DEF SessionInv, TypeOK, PressControl
<1> HIDE DEF es
<1> QED BY <1>1, <1>3, <1>4, <1>5, <1>6, QuietKeyKeeps DEF es, e

\* A session is opened to fill in inputs while nothing is requested.
LEMMA InputsOpened ==
    ASSUME SessionInv, batch = <<>>, \A e \in Range(effects) : ~IsRequest(e),
           drafts < MaxDrafts, drafts' = drafts + 1, session' = InputsSession(drafts + 1),
           Queue(<<SwitchTo("WorkflowInputs")>>),
           UNCHANGED <<route, task, control, events, runs, presses, history>>
    PROVE  SessionInv'
<1> DEFINE es == <<SwitchTo("WorkflowInputs")>>
<1>1. TypeOK /\ TaskInv /\ EventInv /\ ScreenInv /\ RequestInv /\ ControlInv
  BY DEF SessionInv
<1>2. SwitchTo("WorkflowInputs") \in Effect /\ ~IsRequest(SwitchTo("WorkflowInputs"))
  BY DEF Effect, SwitchTo, Routes, IsRequest
<1>3. es \in Seq(Effect) /\ Range(es) = {SwitchTo("WorkflowInputs")} /\ OneRequest(es)
  BY <1>2, Short, FewRequests
<1>4. /\ effects' \in Seq(Effect) /\ OneRequest(effects')
      /\ Range(effects') = Range(effects) \cup Range(es)
      /\ Queued = Range(effects) /\ Queued' = Range(effects) \cup Range(es)
      /\ batch' = <<>> /\ stream' = stream
  <2> HIDE DEF es
  <2> QED BY <1>1, <1>3, KeyQueues DEF RequestInv, es
<1> HIDE DEF es
<1>5. \A e \in Queued' : ~IsRequest(e)
  BY <1>2, <1>3, <1>4
<1>6. session' = [draft |-> drafts + 1, inputs |-> TRUE, view |-> NoView, run |-> None, control |-> None]
  BY DEF InputsSession, Empty
<1>7. drafts' \in 0 .. MaxDrafts /\ drafts + 1 \in Drafts
  BY <1>1, SessionAssumption DEF TypeOK, Drafts
<1>8. TypeOK'
  <2>1. NoView \in View
    BY DEF NoView, View, Statuses
  <2>2. session' \in [draft : Drafts \cup {None}, inputs : BOOLEAN, view : View,
                      run : Runs \cup {None}, control : Runs \cup {None}]
    <3> DEFINE d == drafts + 1
    <3>1. /\ d \in Drafts
          /\ session' = [draft |-> d, inputs |-> TRUE, view |-> NoView, run |-> None, control |-> None]
      BY <1>6, <1>7
    <3>2. \A z \in BOOLEAN :
              [draft |-> d, inputs |-> z, view |-> NoView, run |-> None, control |-> None]
                  \in [draft : Drafts \cup {None}, inputs : BOOLEAN, view : View,
                       run : Runs \cup {None}, control : Runs \cup {None}]
      <4> HIDE DEF d
      <4> QED BY <2>1, <3>1
    <3> QED BY <3>1, <3>2
  <2> QED BY <1>1, <1>4, <1>7, <2>2 DEF TypeOK
<1>9. TaskInv' /\ EventInv'
  BY <1>1 DEF TaskInv, EventInv
<1>10. ScreenInv'
  BY <1>6, <1>7 DEF ScreenInv, None, Drafts
<1>11. RequestInv'
  BY <1>1, <1>4, <1>5, <1>6 DEF RequestInv, Queued
<1>12. ControlInv'
  BY <1>6 DEF ControlInv, IsRunning
<1> QED BY <1>8, <1>9, <1>10, <1>11, <1>12 DEF SessionInv

LEMMA OpenInputsKeeps ==
    ASSUME SessionInv, OpenInputs
    PROVE  SessionInv'
<1>1. \A e \in Range(effects) : ~IsRequest(e)
  BY DEF SessionInv, RequestInv, OpenInputs
<1>2. /\ batch = <<>> /\ drafts < MaxDrafts /\ drafts' = drafts + 1
      /\ session' = InputsSession(drafts + 1) /\ Queue(<<SwitchTo("WorkflowInputs")>>)
      /\ UNCHANGED <<route, task, control, events, runs, presses, history>>
  BY DEF OpenInputs, AtKeyboard
<1> QED BY <1>1, <1>2, InputsOpened

\* A run whose failure is shown is not waiting to be started.
LEMMA FailureIsOfABegunRun ==
    ASSUME SessionInv, batch = <<>>, session.view.failed
    PROVE  \A e \in Range(effects) : ~IsRequest(e)
<1> SUFFICES ASSUME NEW e \in Range(effects), IsRequest(e) PROVE FALSE
  OBVIOUS
<1>1. session.run = e.run /\ task[e.run].phase = "requested" /\ e.run \in Runs
  BY QueuedTyped DEF SessionInv, RequestInv, Queued
<1>2. session.run # None
  BY <1>1 DEF Runs, None
<1> QED BY <1>1, <1>2 DEF SessionInv, ScreenInv

LEMMA ReviewInputsKeeps ==
    ASSUME SessionInv, ReviewInputs
    PROVE  SessionInv'
<1>1. /\ batch = <<>> /\ drafts < MaxDrafts /\ drafts' = drafts + 1 /\ session.view.failed
      /\ session' = InputsSession(drafts + 1) /\ Queue(<<SwitchTo("WorkflowInputs")>>)
      /\ UNCHANGED <<route, task, control, events, runs, presses, history>>
  BY DEF ReviewInputs, CanRerun, AtKeyboard
<1>2. \A e \in Range(effects) : ~IsRequest(e)
  BY <1>1, FailureIsOfABegunRun
<1> QED BY <1>1, <1>2, InputsOpened

\* A run is requested where it will be shown, and after nothing else was.
LEMMA RequestKeeps ==
    ASSUME SessionInv, batch = <<>>, \A e \in Range(effects) : ~IsRequest(e),
           route \in {"WorkflowInputs", "WorkflowRun"}, drafts' \in 0 .. MaxDrafts,
           NEW d \in Drafts, RequestRun(d),
           UNCHANGED <<route, control, events, presses, history>>
    PROVE  SessionInv'
<1> DEFINE n == runs + 1
           asked == RunRequested(n)
           switch == SwitchTo("WorkflowRun")
           es == <<asked, switch>>
           t == [NoTask EXCEPT !.phase = "requested", !.draft = d]
           v == [status |-> "Pending", failed |-> FALSE]
<1>1. TypeOK /\ TaskInv /\ EventInv /\ ScreenInv /\ RequestInv /\ ControlInv
  BY DEF SessionInv
<1>2. /\ runs < MaxRuns /\ runs' = n
      /\ session' = RunSession(d, n)
      /\ task' = [task EXCEPT ![n] = t]
      /\ Queue(es)
  BY DEF RequestRun
<1>3. n \in Runs /\ n > runs /\ n \in 0 .. MaxRuns /\ n # None
  <2>1. MaxRuns \in Nat
    BY SessionAssumption
  <2>2. runs \in 0 .. MaxRuns
    BY <1>1 DEF TypeOK
  <2> QED BY <1>2, <2>1, <2>2 DEF Runs, None
<1>4. task[n].phase = "none"
  BY <1>1, <1>3 DEF TaskInv
<1>5. t \in Task /\ t.phase = "requested" /\ t.draft = d /\ ~t.cancel
  <2>1. NoTask \in Task /\ ~NoTask.cancel
    BY DEF NoTask, Task, Phases, None
  <2>2. "requested" \in Phases
    BY DEF Phases
  <2> HIDE DEF NoTask
  <2> QED BY <2>1, <2>2 DEF Task
<1>6. session' = [draft |-> d, inputs |-> FALSE, view |-> v, run |-> n, control |-> None]
  BY <1>2 DEF RunSession, Empty
<1> HIDE DEF n, t
<1>7. task' \in [Runs -> Task] /\ task'[n] = t /\ \A q \in Runs : q # n => task'[q] = task[q]
  BY <1>1, <1>2, <1>3, <1>5 DEF TypeOK
<1>8. asked \in Effect /\ switch \in Effect /\ IsRequest(asked) /\ ~IsRequest(switch) /\ asked.run = n
  BY <1>3 DEF Effect, RunRequested, SwitchTo, Routes, IsRequest
<1>9. es \in Seq(Effect) /\ Range(es) = {asked, switch} /\ OneRequest(es)
  <2> HIDE DEF asked, switch
  <2>1. es \in Seq(Effect) /\ Range(es) = {asked, switch}
    BY <1>8, Short
  <2>2. OneRequest(es)
    BY <1>8, FewRequests
  <2> QED BY <2>1, <2>2
<1> HIDE DEF es
<1>10. /\ effects' \in Seq(Effect) /\ OneRequest(effects')
       /\ Range(effects') = Range(effects) \cup Range(es)
       /\ Queued' = Range(effects) \cup Range(es)
       /\ batch' = <<>> /\ stream' = stream
  BY <1>1, <1>2, <1>9, KeyQueues DEF RequestInv
<1> HIDE DEF asked
<1>11. \A e \in Queued' : IsRequest(e) => e = asked
  BY <1>8, <1>9, <1>10
<1>12. TypeOK'
  <2>1. v \in View
    BY DEF View, Statuses
  <2>2. session' \in [draft : Drafts \cup {None}, inputs : BOOLEAN, view : View,
                      run : Runs \cup {None}, control : Runs \cup {None}]
    BY <1>3, <1>6, <2>1
  <2> QED BY <1>1, <1>2, <1>3, <1>7, <1>10, <2>2 DEF TypeOK
<1>13. TaskInv'
  <2>1. Sensible(t)
    BY <1>5 DEF Sensible
  <2>2. \A q \in Runs : q > runs' => q # n /\ q > runs
    BY <1>1, <1>2, <1>3 DEF TypeOK, Runs, n
  <2> QED BY <1>1, <1>7, <2>1, <2>2 DEF TaskInv
<1>14. EventInv'
  <2>1. \A q \in Runs : \A w : ResultOf(task[q], w) => ResultOf(task'[q], w)
    BY <1>4, <1>7 DEF ResultOf
  <2> QED BY <1>1, <2>1 DEF EventInv
<1>15. ScreenInv'
  BY <1>3, <1>5, <1>6, <1>7 DEF ScreenInv, Terminal, Drafts, None
<1>16. RequestInv'
  <2>1. stream # None => task'[stream].phase \notin {"none", "requested"}
    BY <1>1, <1>4, <1>7 DEF RequestInv, TypeOK
  <2>2. \A e \in Queued' : IsRequest(e) => task'[e.run].phase = "requested"
    BY <1>5, <1>7, <1>8, <1>11
  <2>3. \A e \in Range(effects') : IsRequest(e) => session'.run = e.run /\ route' \in {"WorkflowInputs", "WorkflowRun"}
    BY <1>6, <1>8, <1>10, <1>11
  <2>4. SwitchTo("WorkflowRun") \in Queued'
    BY <1>9, <1>10
  <2>5. OneRequest(batch')
    BY <1>10, FewRequests
  <2> QED BY <1>10, <2>1, <2>2, <2>3, <2>4, <2>5 DEF RequestInv
<1>17. ControlInv'
  BY <1>6 DEF ControlInv, IsRunning
<1> QED BY <1>12, <1>13, <1>14, <1>15, <1>16, <1>17 DEF SessionInv

LEMMA RunActiveKeeps ==
    ASSUME SessionInv, RunActive
    PROVE  SessionInv'
<1>1. /\ batch = <<>> /\ route = "WorkflowInputs" /\ session.inputs /\ RequestRun(session.draft)
      /\ UNCHANGED <<route, control, events, drafts, presses, history>>
  BY DEF RunActive, AtKeyboard
<1>2. TypeOK /\ session.run = None /\ session.draft \in Drafts
  BY <1>1 DEF SessionInv, ScreenInv, TypeOK
<1>3. \A e \in Range(effects) : ~IsRequest(e)
  <2> SUFFICES ASSUME NEW e \in Range(effects), IsRequest(e) PROVE FALSE
    OBVIOUS
  <2>1. e.run = session.run /\ e.run \in Runs
    BY <1>2, QueuedTyped DEF SessionInv, RequestInv, Queued
  <2> QED BY <1>2, <2>1 DEF Runs, None
<1>4. drafts' \in 0 .. MaxDrafts
  BY <1>1, <1>2 DEF TypeOK
<1> QED BY <1>1, <1>2, <1>3, <1>4, RequestKeeps

LEMMA RerunFailedKeeps ==
    ASSUME SessionInv, RerunFailed
    PROVE  SessionInv'
<1>1. /\ batch = <<>> /\ route = "WorkflowRun" /\ session.view.failed
      /\ drafts < MaxDrafts /\ drafts' = drafts + 1 /\ RequestRun(drafts + 1)
      /\ UNCHANGED <<route, control, events, presses, history>>
  BY DEF RerunFailed, CanRerun, AtRunView, AtKeyboard
<1>2. \A e \in Range(effects) : ~IsRequest(e)
  BY <1>1, FailureIsOfABegunRun
<1>3. drafts + 1 \in Drafts /\ drafts' \in 0 .. MaxDrafts
  BY <1>1, SessionAssumption DEF SessionInv, TypeOK, Drafts
<1> QED BY <1>1, <1>2, <1>3, RequestKeeps

-----------------------------------------------------------------------------
(* The event loop keeps the invariant *)

LEMMA TickKeeps ==
    ASSUME SessionInv, Tick
    PROVE  SessionInv'
<1>1. TypeOK /\ TaskInv /\ EventInv /\ ScreenInv /\ RequestInv /\ ControlInv
  BY DEF SessionInv
<1>2. /\ batch = <<>> /\ batch' = effects /\ effects' = <<>>
      /\ UNCHANGED <<route, session, stream, task, control, events, drafts, runs, presses, history>>
  BY DEF Tick, ui, counts
<1>3. Queued' = Queued
  BY <1>2 DEF Queued
<1>4. Range(<<>>) = {} /\ <<>> \in Seq(Effect)
  BY DEF Range
<1>5. TypeOK'
  BY <1>1, <1>2, <1>4 DEF TypeOK
<1>6. TaskInv' /\ EventInv' /\ ScreenInv'
  BY <1>1, <1>2 DEF TaskInv, EventInv, ScreenInv
<1>7. RequestInv'
  BY <1>1, <1>2, <1>3, <1>4, FewRequests DEF RequestInv
<1>8. ControlInv'
  BY <1>1, <1>2, <1>3 DEF ControlInv, IsRunning
<1> QED BY <1>5, <1>6, <1>7, <1>8 DEF SessionInv

\* An effect is carried out: it leaves the batch, and the keyboard's queue is
\* empty meanwhile.
LEMMA Taking ==
    ASSUME SessionInv, NEW i \in DOMAIN batch, Take(i)
    PROVE  /\ batch[i] \in Effect
           /\ effects = <<>> /\ Range(effects) = {} /\ batch[i] \in Queued
           /\ batch' \in Seq(Effect) /\ OneRequest(batch')
           /\ Range(batch') \subseteq Queued /\ Queued \subseteq Range(batch') \cup {batch[i]}
           /\ IsRequest(batch[i]) => \A e \in Range(batch') : ~IsRequest(e)
           /\ ~IsNavigation(batch[i]) => \A e \in Queued : ~IsNavigation(e)
<1>1. batch \in Seq(Effect) /\ OneRequest(batch) /\ batch' = RemoveAt(batch, i)
  BY DEF SessionInv, TypeOK, RequestInv, Take
<1>2. batch # <<>>
  OBVIOUS
<1>3. effects = <<>> /\ Range(effects) = {}
  BY <1>2 DEF SessionInv, RequestInv, Range
<1>4. Queued = Range(batch)
  BY <1>3 DEF Queued
<1>5. batch[i] \in Range(batch)
  BY DEF Range
<1>6. batch[i] \in Effect
  BY <1>1, ElementOfSeq, LenProperties
<1>7. batch' \in Seq(Effect)
  BY <1>1, Removal
<1>8. /\ Range(batch') \subseteq Range(batch) /\ Range(batch) \subseteq Range(batch') \cup {batch[i]}
      /\ OneRequest(batch')
      /\ IsRequest(batch[i]) => \A e \in Range(batch') : ~IsRequest(e)
  BY <1>1, RemovalKeeps
<1>9. ASSUME ~IsNavigation(batch[i]), NEW j \in DOMAIN batch PROVE ~IsNavigation(batch[j])
  BY <1>9 DEF Take, InTurn, IsNavigation
<1>10. ~IsNavigation(batch[i]) => \A e \in Range(batch) : ~IsNavigation(e)
  BY <1>9 DEF Range
<1> QED BY <1>3, <1>4, <1>5, <1>6, <1>7, <1>8, <1>10

\* Leaving a view: the run stays, unless it is the run view of a run that is
\* not controlled, which is let go of with all that was shown.
LEMMA Leaving ==
    ASSUME SessionInv
    PROVE  \/ AfterExit = Empty /\ route = "WorkflowRun" /\ ~IsRunning
           \/ /\ AfterExit \in [draft : Drafts \cup {None}, inputs : BOOLEAN, view : View,
                                run : Runs \cup {None}, control : Runs \cup {None}]
              /\ AfterExit.inputs \in BOOLEAN /\ (AfterExit.inputs => session.inputs)
              /\ AfterExit.draft = session.draft /\ AfterExit.view = session.view
              /\ AfterExit.run = session.run /\ AfterExit.control = session.control
              /\ route = "WorkflowRun" => IsRunning
<1>1. session \in [draft : Drafts \cup {None}, inputs : BOOLEAN, view : View,
                   run : Runs \cup {None}, control : Runs \cup {None}]
  BY DEF SessionInv, TypeOK
<1>2. CASE route = "WorkflowRun" /\ ~IsRunning
  BY <1>2 DEF AfterExit
<1>3. CASE route = "WorkflowInputs"
  <2>1. AfterExit = [session EXCEPT !.inputs = FALSE]
    BY <1>3 DEF AfterExit
  <2> QED BY <1>1, <1>3, <2>1
<1>4. CASE ~(route = "WorkflowRun" /\ ~IsRunning) /\ route # "WorkflowInputs"
  <2>1. AfterExit = session
    BY <1>4 DEF AfterExit
  <2> QED BY <1>1, <1>4, <2>1
<1> QED BY <1>2, <1>3, <1>4

LEMMA SwitchKeeps ==
    ASSUME SessionInv, DoSwitch
    PROVE  SessionInv'
<1>1. PICK i \in DOMAIN batch :
          /\ Take(i) /\ IsNavigation(batch[i])
          /\ session' = AfterExit
          /\ route' = Shown(batch[i].route, AfterExit)
          /\ UNCHANGED <<effects, stream, task, control, events, drafts, runs, presses, history>>
  BY DEF DoSwitch, counts
<1> DEFINE e == batch[i]
<1>2. TypeOK /\ TaskInv /\ EventInv /\ ScreenInv /\ RequestInv /\ ControlInv
  BY DEF SessionInv
<1>3. /\ e \in Effect
      /\ effects = <<>> /\ Range(effects) = {} /\ e \in Queued
      /\ batch' \in Seq(Effect) /\ OneRequest(batch')
      /\ Range(batch') \subseteq Queued /\ Queued \subseteq Range(batch') \cup {e}
  BY <1>1, Taking
<1> HIDE DEF e
<1>4. e.type = "SwitchTo" /\ e.route \in Routes /\ ~IsRequest(e)
      /\ (e = SwitchTo("WorkflowRun") => e.route = "WorkflowRun")
  BY <1>1, <1>3 DEF e, Effect, IsNavigation, IsRequest, SwitchTo
<1>5. Queued' = Range(batch')
  BY <1>1, <1>3 DEF Queued
<1>6. Empty = [draft |-> None, inputs |-> FALSE, view |-> NoView, run |-> None, control |-> None]
  BY DEF Empty
<1>7. TypeOK'
  <2>1. route' \in Routes
    BY <1>1, <1>4 DEF Shown, Routes, e
  <2>2. NoView \in View
    BY DEF NoView, View, Statuses
  <2>3. Empty \in [draft : Drafts \cup {None}, inputs : BOOLEAN, view : View,
                   run : Runs \cup {None}, control : Runs \cup {None}]
    BY <1>6, <2>2
  <2>4. session' \in [draft : Drafts \cup {None}, inputs : BOOLEAN, view : View,
                      run : Runs \cup {None}, control : Runs \cup {None}]
    BY <1>1, <2>3, Leaving
  <2> QED BY <1>1, <1>2, <1>3, <2>1, <2>4 DEF TypeOK
<1>8. TaskInv' /\ EventInv'
  BY <1>1, <1>2 DEF TaskInv, EventInv
<1>9. OneRequest(effects')
  BY <1>1, <1>2 DEF RequestInv
<1>10. /\ \A x \in Queued' : IsRequest(x) => task'[x.run].phase = "requested"
       /\ stream' # None => task'[stream'].phase \notin {"none", "requested"}
  BY <1>1, <1>2, <1>3, <1>5 DEF RequestInv
<1>11. CASE AfterExit = Empty
  <2>1. ScreenInv'
    BY <1>1, <1>6, <1>11 DEF ScreenInv
  <2>2. RequestInv'
    BY <1>1, <1>3, <1>6, <1>9, <1>10, <1>11 DEF RequestInv
  <2>3. ControlInv'
    BY <1>1, <1>6, <1>11 DEF ControlInv, IsRunning
  <2> QED BY <1>7, <1>8, <2>1, <2>2, <2>3 DEF SessionInv
<1>12. CASE AfterExit # Empty
  <2>1. /\ session'.inputs => session.inputs
        /\ session'.draft = session.draft /\ session'.view = session.view
        /\ session'.run = session.run /\ session'.control = session.control
        /\ route = "WorkflowRun" => IsRunning
    BY <1>1, <1>12, Leaving
  <2>2. ScreenInv'
    BY <1>1, <1>2, <2>1 DEF ScreenInv
  <2>3. ASSUME session'.run # None, task'[session'.run].phase = "requested"
        PROVE  route' = "WorkflowRun" \/ SwitchTo("WorkflowRun") \in Queued'
    <3>1. ~IsRunning
      BY <1>1, <1>2, <2>1, <2>3 DEF ControlInv, RequestInv
    <3>2. SwitchTo("WorkflowRun") \in Queued
      BY <1>1, <1>2, <2>1, <2>3, <3>1 DEF RequestInv
    <3>3. CASE e = SwitchTo("WorkflowRun")
      <4>1. session'.view # NoView
        BY <1>1, <1>2, <2>1, <2>3 DEF ScreenInv, NoView
      <4> QED BY <1>1, <1>4, <3>3, <4>1 DEF Shown, e
    <3> QED BY <1>3, <1>5, <3>2, <3>3
  <2>4. RequestInv'
    BY <1>1, <1>3, <1>9, <1>10, <2>3 DEF RequestInv
  <2>5. ControlInv'
    <3> SUFFICES ASSUME IsRunning' PROVE ControlInv'
      BY DEF ControlInv
    <3>1. IsRunning /\ session.run # None
      BY <1>2, <2>1 DEF IsRunning, ScreenInv
    <3>2. session'.view # NoView /\ session'.control # None
      BY <1>2, <2>1, <3>1 DEF ScreenInv, NoView, IsRunning
    <3>3. route' # "Workflows"
      BY <1>1, <3>2 DEF Shown
    <3> QED BY <1>1, <1>2, <1>3, <1>5, <2>1, <3>1, <3>3 DEF ControlInv
  <2> QED BY <1>7, <1>8, <2>2, <2>4, <2>5 DEF SessionInv
<1> QED BY <1>11, <1>12

LEMMA RunRequestedKeeps ==
    ASSUME SessionInv, DoRunRequested
    PROVE  SessionInv'
<1>1. PICK i \in DOMAIN batch :
          /\ Take(i) /\ batch[i].type = "RunRequested"
          /\ task' = [task EXCEPT ![batch[i].run].phase = "created", ![batch[i].run].todo = StepsPerRun]
          /\ session' = Registered(batch[i].run)
          /\ stream' = batch[i].run
          /\ events' = [q \in Runs |-> <<>>]
          /\ UNCHANGED <<route, effects, control, drafts, runs, presses, history>>
  BY DEF DoRunRequested, counts
<1> DEFINE r == batch[i].run
           t == [[task[r] EXCEPT !.phase = "created"] EXCEPT !.todo = StepsPerRun]
<1>2. TypeOK /\ TaskInv /\ EventInv /\ ScreenInv /\ RequestInv /\ ControlInv
  BY DEF SessionInv
<1>3. /\ IsRequest(batch[i]) /\ ~IsNavigation(batch[i])
      /\ effects = <<>> /\ Range(effects) = {} /\ batch[i] \in Queued
      /\ batch' \in Seq(Effect) /\ OneRequest(batch')
      /\ \A x \in Range(batch') : ~IsRequest(x)
      /\ \A x \in Queued : ~IsNavigation(x)
  <2>1. IsRequest(batch[i]) /\ ~IsNavigation(batch[i])
    BY <1>1 DEF IsRequest, IsNavigation
  <2> QED BY <1>1, <2>1, Taking
<1>4. r \in Runs /\ r # None /\ task[r].phase = "requested"
  <2>1. r \in Runs /\ task[r].phase = "requested"
    BY <1>2, <1>3, QueuedTyped DEF RequestInv
  <2> QED BY <2>1 DEF Runs, None
<1>5. Queued' = Range(batch')
  BY <1>1, <1>3 DEF Queued
<1> HIDE DEF r
<1>6. task[r] \in Task /\ Sensible(task[r])
  BY <1>2, <1>4 DEF TypeOK, TaskInv
<1>7. t \in Task /\ t.phase = "created" /\ t.draft = task[r].draft /\ t.cancel = task[r].cancel
      /\ t.todo = StepsPerRun
  <2>1. StepsPerRun \in Nat /\ "created" \in Phases
    BY SessionAssumption DEF Phases, Spawned
  <2> QED BY <1>6, <2>1 DEF Task
<1>8. task' = [task EXCEPT ![r] = t]
  BY <1>1, <1>2, <1>4 DEF TypeOK, r
<1> HIDE DEF t
<1>9. task' \in [Runs -> Task] /\ task'[r] = t /\ \A q \in Runs : q # r => task'[q] = task[q]
  BY <1>2, <1>4, <1>7, <1>8 DEF TypeOK
<1>10. \A q \in Runs : \A w : ResultOf(task[q], w) => ResultOf(task'[q], w)
  BY <1>4, <1>9 DEF ResultOf
<1>11. \A q \in Runs : Range(events'[q]) = {}
  BY <1>1 DEF Range
<1>12. /\ session'.draft = session.draft /\ session'.inputs = session.inputs
       /\ session'.view = session.view /\ session'.run = session.run
       /\ session'.control = IF session.run = r THEN r ELSE session.control
       /\ session' \in [draft : Drafts \cup {None}, inputs : BOOLEAN, view : View,
                        run : Runs \cup {None}, control : Runs \cup {None}]
  <2>1. session \in [draft : Drafts \cup {None}, inputs : BOOLEAN, view : View,
                     run : Runs \cup {None}, control : Runs \cup {None}]
    BY <1>2 DEF TypeOK
  <2>2. session' = IF session.run = r THEN [session EXCEPT !.control = r] ELSE session
    BY <1>1 DEF Registered, r
  <2> QED BY <1>4, <2>1, <2>2
<1>13. session.control = None
  BY <1>2, <1>3 DEF ControlInv, IsRunning
<1>14. TypeOK'
  <2>1. stream' \in Runs /\ events' \in [Runs -> Seq(Event)]
    BY <1>1, <1>4 DEF r
  <2> QED BY <1>1, <1>2, <1>3, <1>9, <1>12, <2>1 DEF TypeOK
<1>15. TaskInv'
  <2>1. Sensible(t)
    BY <1>4, <1>6, <1>7 DEF Sensible
  <2> QED BY <1>1, <1>2, <1>4, <1>9, <2>1 DEF TaskInv
<1>16. EventInv'
  BY <1>11 DEF EventInv
<1>17. session.run # None => session.run \in Runs
  BY <1>2 DEF TypeOK
<1>18. ScreenInv'
  <2>1. \A q \in Runs : /\ task'[q].draft = task[q].draft
                        /\ task[q].phase # "none" => task'[q].phase # "none"
                        /\ task'[q].phase = "requested" => task[q].phase = "requested"
    BY <1>4, <1>7, <1>9
  <2>2. session.run = None => session'.control = None
    BY <1>4, <1>12, <1>13
  <2> QED BY <1>1, <1>2, <1>10, <1>12, <1>17, <2>1, <2>2 DEF ScreenInv
<1>19. RequestInv'
  <2>1. stream' # None => task'[stream'].phase \notin {"none", "requested"}
    BY <1>1, <1>7, <1>9 DEF r
  <2>2. ASSUME session'.run # None, task'[session'.run].phase = "requested"
        PROVE  route' = "WorkflowRun" \/ SwitchTo("WorkflowRun") \in Queued'
    <3>1. session.run # r /\ task[session.run].phase = "requested"
      BY <1>7, <1>9, <1>12, <1>17, <2>2
    <3>2. SwitchTo("WorkflowRun") \notin Queued
      BY <1>3 DEF IsNavigation, SwitchTo
    <3> QED BY <1>1, <1>2, <1>12, <2>2, <3>1, <3>2 DEF RequestInv
  <2>3. OneRequest(effects') /\ effects' = <<>> /\ Range(effects') = {}
    BY <1>1, <1>2, <1>3 DEF RequestInv
  <2> QED BY <1>3, <1>5, <2>1, <2>2, <2>3 DEF RequestInv
<1>20. ControlInv'
  <2> SUFFICES ASSUME IsRunning' PROVE ControlInv'
    BY DEF ControlInv
  <2>1. session.run = r /\ session'.control = r
    BY <1>12, <1>13 DEF IsRunning
  <2>2. SwitchTo("WorkflowRun") \notin Queued
    BY <1>3 DEF IsNavigation, SwitchTo
  <2>3. route' = "WorkflowRun"
    BY <1>1, <1>2, <1>4, <2>1, <2>2 DEF RequestInv
  <2>4. ~session'.view.failed
    BY <1>2, <1>4, <1>12, <2>1 DEF ScreenInv
  <2> QED BY <1>1, <1>3, <1>5, <1>7, <1>9, <1>12, <2>1, <2>3, <2>4 DEF ControlInv, r
<1> QED BY <1>14, <1>15, <1>16, <1>18, <1>19, <1>20 DEF SessionInv

LEMMA RunControlKeeps ==
    ASSUME SessionInv, DoRunControl
    PROVE  SessionInv'
<1>1. PICK i \in DOMAIN batch :
          /\ Take(i) /\ batch[i].type = "RunControl"
          /\ control' = IF session.run = batch[i].run /\ IsRunning
                        THEN [control EXCEPT ![batch[i].run] = Append(@, batch[i].command)]
                        ELSE control
          /\ UNCHANGED <<route, session, effects, stream, task, events, drafts, runs, presses, history>>
  BY DEF DoRunControl, ui, counts
<1> DEFINE e == batch[i]
<1>2. TypeOK /\ TaskInv /\ EventInv /\ ScreenInv /\ RequestInv /\ ControlInv
  BY DEF SessionInv
<1>3. /\ e \in Effect
      /\ effects = <<>> /\ Range(effects) = {} /\ e \in Queued
      /\ batch' \in Seq(Effect) /\ OneRequest(batch')
      /\ Range(batch') \subseteq Queued /\ Queued \subseteq Range(batch') \cup {e}
  BY <1>1, Taking
<1>4. e.run \in Runs /\ e.command \in Commands /\ e # SwitchTo("WorkflowRun")
  <2> HIDE DEF e
  <2> QED BY <1>1, <1>3 DEF e, Effect, SwitchTo
<1>5. Queued' = Range(batch')
  BY <1>1, <1>3 DEF Queued
<1>6. control' \in [Runs -> Seq(Commands)]
  <2>1. Append(control[e.run], e.command) \in Seq(Commands)
    BY <1>2, <1>4, AppendProperties DEF TypeOK
  <2> HIDE DEF e
  <2> QED BY <1>1, <1>2, <1>4, <2>1 DEF TypeOK, e
<1> HIDE DEF e
<1>7. TypeOK'
  BY <1>1, <1>2, <1>3, <1>6 DEF TypeOK
<1>8. TaskInv' /\ EventInv' /\ ScreenInv'
  BY <1>1, <1>2 DEF TaskInv, EventInv, ScreenInv
<1>9. RequestInv'
  BY <1>1, <1>2, <1>3, <1>4, <1>5 DEF RequestInv
<1>10. ControlInv'
  BY <1>1, <1>2, <1>3, <1>5 DEF ControlInv, IsRunning
<1> QED BY <1>7, <1>8, <1>9, <1>10 DEF SessionInv

-----------------------------------------------------------------------------
(* A run event keeps the invariant *)

\* What an event changes of the session that shows its run.
LEMMA Delivered ==
    ASSUME TypeOK, NEW e \in Event
    PROVE  LET s == Deliver(e) IN
           /\ s \in [draft : Drafts \cup {None}, inputs : BOOLEAN, view : View,
                     run : Runs \cup {None}, control : Runs \cup {None}]
           /\ s.draft = session.draft /\ s.inputs = session.inputs /\ s.run = session.run
           /\ s.view.status = session.view.status
                  \/ (e.type \in {"Status", "Completed"} /\ s.view.status = e.value /\ e.value # "none")
           /\ e.type = "Completed" => s.control = None
           /\ s.control = session.control \/ s.control = None
           /\ s.control # session.control => s.view.failed \/ s.view.status \in Terminal
           /\ s.view.failed => session.view.failed \/ s.control = None
<1>1. session \in [draft : Drafts \cup {None}, inputs : BOOLEAN, view : View,
                   run : Runs \cup {None}, control : Runs \cup {None}]
  BY DEF TypeOK
<1>2. session.view \in View /\ session.view.status \in Statuses /\ session.view.failed \in BOOLEAN
  BY <1>1 DEF View
<1>3. CASE e.type = "Status"
  <2>1. e.value \in Statuses /\ e.value # "none"
    BY <1>3 DEF Event, Started, Statuses, Terminal
  <2>2. Deliver(e) = [session EXCEPT !.view.status = e.value]
    BY <1>3 DEF Deliver
  <2>3. [session.view EXCEPT !.status = e.value] \in View
    BY <1>2, <2>1 DEF View
  <2> QED BY <1>1, <1>2, <1>3, <2>1, <2>2, <2>3 DEF View
<1>4. CASE e.type = "Finished"
  <2>1. CASE e.value = "Failed"
    <3>1. Deliver(e) = [session EXCEPT !.view.failed = TRUE, !.control = None]
      BY <1>4, <2>1 DEF Deliver
    <3>2. [session.view EXCEPT !.failed = TRUE] \in View
      BY <1>2 DEF View
    <3> QED BY <1>1, <1>2, <1>4, <3>1, <3>2 DEF View
  <2>2. CASE e.value # "Failed"
    <3>1. Deliver(e) = session
      BY <1>4, <2>2 DEF Deliver
    <3> QED BY <1>1, <1>4, <3>1
  <2> QED BY <2>1, <2>2
<1>5. CASE e.type = "Completed"
  <2>1. e.value \in Statuses /\ e.value \in Terminal /\ e.value # "none"
    BY <1>5 DEF Event, Started, Statuses, Terminal
  <2>2. Deliver(e) = [session EXCEPT !.view.status = e.value, !.control = None]
    BY <1>5 DEF Deliver
  <2> DEFINE w == [session.view EXCEPT !.status = e.value]
  <2>3. w \in View /\ w.status = e.value /\ w.failed = session.view.failed
    BY <1>2, <2>1 DEF View
  <2> HIDE DEF w
  <2>4. Deliver(e) = [session EXCEPT !.view = w, !.control = None]
    BY <2>2 DEF w
  <2> QED BY <1>1, <1>5, <2>1, <2>3, <2>4
<1>6. CASE e.type \notin {"Status", "Finished", "Completed"}
  <2>1. Deliver(e) = session
    BY <1>6 DEF Deliver
  <2> QED BY <1>1, <1>6, <2>1
<1> QED BY <1>3, <1>4, <1>5, <1>6

LEMMA ReceiveKeeps ==
    ASSUME SessionInv, ReceiveEvent
    PROVE  SessionInv'
<1> DEFINE r == stream
           e == Head(events[r])
<1>1. TypeOK /\ TaskInv /\ EventInv /\ ScreenInv /\ RequestInv /\ ControlInv
  BY DEF SessionInv
<1>2. /\ r # None /\ events[r] # <<>>
      /\ session' = IF ConcernsSession THEN Deliver(e) ELSE session
      /\ history' = IF IsSuccess(e) /\ session.draft # None
                    THEN history \cup {session.draft} ELSE history
      /\ events' = [events EXCEPT ![r] = Tail(@)]
      /\ UNCHANGED <<route, effects, batch, stream, task, control, drafts, runs, presses>>
  BY DEF ReceiveEvent, loop, counts
<1>3. r \in Runs /\ events[r] \in Seq(Event)
  BY <1>1, <1>2 DEF TypeOK
<1>4. e \in Event /\ e \in Range(events[r])
  <2>1. e \in Event /\ e = events[r][1] /\ Len(events[r]) \in Nat /\ Len(events[r]) # 0
    BY <1>2, <1>3, HeadTailProperties, LenProperties, EmptySeq
  <2>2. 1 \in DOMAIN events[r]
    BY <1>3, <2>1, LenProperties
  <2> QED BY <2>1, <2>2 DEF Range
<1>5. /\ Tail(events[r]) \in Seq(Event) /\ Range(Tail(events[r])) \subseteq Range(events[r])
      /\ Range(events[r]) \subseteq Range(Tail(events[r])) \cup {e}
  <2>1. /\ Tail(events[r]) \in Seq(Event) /\ Len(Tail(events[r])) = Len(events[r]) - 1
        /\ \A k \in 1 .. Len(Tail(events[r])) : Tail(events[r])[k] = events[r][k + 1]
        /\ Len(events[r]) \in Nat
    BY <1>2, <1>3, HeadTailProperties, LenProperties
  <2>2. DOMAIN Tail(events[r]) = 1 .. (Len(events[r]) - 1) /\ DOMAIN events[r] = 1 .. Len(events[r])
    BY <1>3, <2>1, LenProperties
  <2>3. \A k \in DOMAIN Tail(events[r]) :
            k + 1 \in DOMAIN events[r] /\ Tail(events[r])[k] = events[r][k + 1]
    BY <2>1, <2>2
  <2>4. Range(Tail(events[r])) \subseteq Range(events[r])
    BY <2>3 DEF Range
  <2>5. events[r][1] = e
    BY <1>2, <1>3, HeadTailProperties
  <2>6. \A k \in DOMAIN events[r] :
            k = 1 \/ (k - 1 \in DOMAIN Tail(events[r]) /\ Tail(events[r])[k - 1] = events[r][k])
    <3> SUFFICES ASSUME NEW k \in DOMAIN events[r], k # 1
                 PROVE  k - 1 \in DOMAIN Tail(events[r]) /\ Tail(events[r])[k - 1] = events[r][k]
      OBVIOUS
    <3>1. k - 1 \in DOMAIN Tail(events[r]) /\ (k - 1) + 1 = k
      BY <2>1, <2>2
    <3> QED BY <2>3, <3>1
  <2>7. Range(events[r]) \subseteq Range(Tail(events[r])) \cup {e}
    BY <2>5, <2>6 DEF Range
  <2> QED BY <2>1, <2>4, <2>7
<1>6. e.type \in {"Status", "Completed"} /\ e.value \in Terminal => ResultOf(task[r], e.value)
  BY <1>1, <1>3, <1>4 DEF EventInv
<1> HIDE DEF e, r
<1>7. events' \in [Runs -> Seq(Event)] /\ \A q \in Runs : Range(events'[q]) \subseteq Range(events[q])
  BY <1>1, <1>2, <1>3, <1>5 DEF TypeOK
<1>8. history \subseteq history' /\ history' \subseteq Drafts
  BY <1>1, <1>2 DEF TypeOK
<1>9. Queued' = Queued
  BY <1>2 DEF Queued
<1>10. TaskInv' /\ EventInv'
  BY <1>1, <1>2, <1>7 DEF TaskInv, EventInv
<1>11. CASE ~ConcernsSession
  <2>1. session' = session
    BY <1>2, <1>11
  <2>2. TypeOK'
    BY <1>1, <1>2, <1>7, <1>8, <2>1 DEF TypeOK
  <2>3. ScreenInv'
    BY <1>1, <1>2, <1>8, <2>1 DEF ScreenInv
  <2>4. RequestInv' /\ ControlInv'
    <3>1. RequestInv'
      BY <1>1, <1>2, <1>9, <2>1 DEF RequestInv
    <3>2. ~IsRunning
      BY <1>1, <1>11 DEF ControlInv, ConcernsSession, HasView, ScreenInv, NoView, IsRunning
    <3> QED BY <2>1, <3>1, <3>2 DEF ControlInv, IsRunning
  <2> QED BY <1>10, <2>2, <2>3, <2>4 DEF SessionInv
<1>12. CASE ConcernsSession
  <2> DEFINE s == session'
  <2>1. /\ s \in [draft : Drafts \cup {None}, inputs : BOOLEAN, view : View,
                  run : Runs \cup {None}, control : Runs \cup {None}]
        /\ s.draft = session.draft /\ s.inputs = session.inputs /\ s.run = session.run
        /\ s.view.status = session.view.status
               \/ (e.type \in {"Status", "Completed"} /\ s.view.status = e.value /\ e.value # "none")
        /\ e.type = "Completed" => s.control = None
        /\ s.control = session.control \/ s.control = None
        /\ s.view.failed => session.view.failed \/ s.control = None
    BY <1>1, <1>2, <1>4, <1>12, Delivered
  <2> HIDE DEF s
  <2>2. session.run = r /\ session.run # None
    BY <1>2, <1>12 DEF ConcernsSession, r
  <2>3. task[r].phase \notin {"none", "requested"}
    BY <1>1, <1>2 DEF RequestInv, r
  <2>4. TypeOK'
    BY <1>1, <1>2, <1>7, <1>8, <2>1 DEF TypeOK, s
  <2>5. ScreenInv'
    <3>1. s.view.status = "Succeeded" => s.draft \in history'
      <4>1. CASE s.view.status = session.view.status
        BY <1>1, <1>8, <2>1, <2>2, <4>1 DEF ScreenInv
      <4>2. ASSUME e.type \in {"Status", "Completed"}, e.value = "Succeeded"
            PROVE  s.draft \in history'
        <5>1. e.type = "Completed"
          BY <1>4, <4>2 DEF Event, Started
        <5>2. IsSuccess(e) /\ session.draft # None
          BY <1>1, <2>2, <4>2, <5>1 DEF IsSuccess, ScreenInv
        <5> QED BY <1>2, <2>1, <5>2
      <4> QED BY <2>1, <4>1, <4>2
    <3>2. s.view.status # "none"
      BY <1>1, <2>1, <2>2 DEF ScreenInv
    <3>3. s.view.status \in Terminal => ResultOf(task[r], s.view.status)
      BY <1>1, <1>6, <2>1, <2>2 DEF ScreenInv
    <3> QED BY <1>1, <1>2, <2>1, <2>2, <2>3, <3>1, <3>2, <3>3 DEF ScreenInv, s
  <2>6. RequestInv'
    BY <1>1, <1>2, <1>9, <2>1 DEF RequestInv, s
  <2>7. ControlInv'
    <3> SUFFICES ASSUME IsRunning' PROVE ControlInv'
      BY DEF ControlInv
    <3>1. IsRunning /\ s.control = session.control /\ e.type # "Completed"
      BY <2>1 DEF IsRunning, s
    <3>2. task[r].phase = "over" => EndIsSaid(events[r])
      BY <1>1, <2>2, <3>1 DEF ControlInv
    <3>3. events'[r] = Tail(events[r])
      BY <1>1, <1>2, <1>3 DEF TypeOK
    <3>4. task[r].phase = "over" => EndIsSaid(events'[r])
      BY <1>5, <3>1, <3>2, <3>3 DEF EndIsSaid
    <3> QED BY <1>1, <1>2, <1>9, <2>1, <2>2, <3>1, <3>4 DEF ControlInv, s
  <2> QED BY <1>10, <2>4, <2>5, <2>6, <2>7 DEF SessionInv
<1> QED BY <1>11, <1>12

\* The stream of a run that is over and empty is not that of a controlled run:
\* that one would still have its end to say.
LEMMA CloseKeeps ==
    ASSUME SessionInv, CloseStream
    PROVE  SessionInv'
<1>1. TypeOK /\ TaskInv /\ EventInv /\ ScreenInv /\ RequestInv /\ ControlInv
  BY DEF SessionInv
<1>2. /\ events[stream] = <<>> /\ task[stream].phase = "over" /\ stream' = None
      /\ UNCHANGED <<route, session, effects, batch, task, control, events, drafts, runs, presses, history>>
  BY DEF CloseStream, ui, counts
<1>3. Queued' = Queued
  BY <1>2 DEF Queued
<1>4. ~IsRunning
  <2> SUFFICES ASSUME IsRunning PROVE FALSE
    OBVIOUS
  <2>1. EndIsSaid(<<>>)
    BY <1>1, <1>2 DEF ControlInv
  <2> QED BY <2>1 DEF EndIsSaid, Range
<1>5. TypeOK'
  BY <1>1, <1>2 DEF TypeOK
<1>6. TaskInv' /\ EventInv' /\ ScreenInv'
  BY <1>1, <1>2 DEF TaskInv, EventInv, ScreenInv
<1>7. RequestInv'
  BY <1>1, <1>2, <1>3 DEF RequestInv
<1>8. ControlInv'
  BY <1>2, <1>4 DEF ControlInv, IsRunning
<1> QED BY <1>5, <1>6, <1>7, <1>8 DEF SessionInv

-----------------------------------------------------------------------------
(* The theorems *)

\* The types, the truth of what is shown, and who controls what, in every order
\* of key presses, ticks, effects, run events and steps of the run tasks.
THEOREM SessionInvariant == Spec => []SessionInv
<1>1. ASSUME Init PROVE SessionInv
  <2>1. NoTask \in Task /\ NoTask.phase = "none" /\ ~NoTask.cancel
    BY DEF NoTask, Task, Phases, None
  <2>2. Sensible(NoTask)
    BY <2>1 DEF Sensible
  <2>3. NoView \in View
    BY DEF NoView, View, Statuses
  <2>4. /\ session = [draft |-> None, inputs |-> FALSE, view |-> NoView, run |-> None, control |-> None]
        /\ route = "Other" /\ effects = <<>> /\ batch = <<>> /\ stream = None
        /\ task = [r \in Runs |-> NoTask]
        /\ control = [r \in Runs |-> <<>>] /\ events = [r \in Runs |-> <<>>]
        /\ drafts = 0 /\ runs = 0 /\ presses = 0 /\ history = {}
    BY <1>1 DEF Init, Empty
  <2>5. Queued = {} /\ Range(effects) = {} /\ OneRequest(effects) /\ OneRequest(batch)
    BY <2>4, FewRequests DEF Queued, Range
  <2>6. TypeOK
    <3>1. MaxDrafts \in Nat /\ MaxRuns \in Nat
      BY SessionAssumption
    <3>2. 0 \in 0 .. MaxDrafts /\ 0 \in 0 .. MaxRuns /\ 0 \in Nat
      BY <3>1
    <3>3. task \in [Runs -> Task]
      BY <2>1, <2>4
    <3>4. control \in [Runs -> Seq(Commands)] /\ events \in [Runs -> Seq(Event)]
      BY <2>4
    <3>5. route \in Routes /\ effects \in Seq(Effect) /\ batch \in Seq(Effect)
      BY <2>4 DEF Routes
    <3>6. session \in [draft : Drafts \cup {None}, inputs : BOOLEAN, view : View,
                       run : Runs \cup {None}, control : Runs \cup {None}]
      BY <2>3, <2>4
    <3> QED BY <2>4, <3>2, <3>3, <3>4, <3>5, <3>6 DEF TypeOK
  <2>7. TaskInv
    BY <2>1, <2>2, <2>4 DEF TaskInv
  <2>8. EventInv
    BY <2>4 DEF EventInv, Range
  <2>9. ScreenInv
    BY <2>4 DEF ScreenInv
  <2>10. RequestInv
    BY <2>4, <2>5 DEF RequestInv
  <2>11. ControlInv
    BY <2>4 DEF ControlInv, IsRunning
  <2> QED BY <2>6, <2>7, <2>8, <2>9, <2>10, <2>11 DEF SessionInv
<1>2. ASSUME SessionInv, [Next]_vars PROVE SessionInv'
  <2>1. CASE User
    BY <1>2, <2>1, NavigateKeeps, OpenInputsKeeps, RunActiveKeeps, PressControlKeeps,
       ReviewInputsKeeps, RerunFailedKeeps DEF User
  <2>2. CASE EventLoop
    BY <1>2, <2>2, TickKeeps, SwitchKeeps, RunRequestedKeeps, RunControlKeeps, ReceiveKeeps,
       CloseKeeps DEF EventLoop, DoEffect
  <2>3. CASE \E r \in Runs : RunTask(r)
    <3>1. PICK r \in Runs : RunTask(r)
      BY <2>3
    <3>2. TaskStep(r)
      BY <1>2, <3>1, RunTaskSteps DEF SessionInv
    <3> QED BY <1>2, <3>2, TaskStepKeeps
  <2>4. CASE UNCHANGED vars
    BY <1>2, <2>4 DEF vars, ui, loop, counts, SessionInv, TypeOK, TaskInv, EventInv, ScreenInv,
                      RequestInv, ControlInv, IsRunning, Queued
  <2> QED BY <1>2, <2>1, <2>2, <2>3, <2>4 DEF Next
<1> QED BY <1>1, <1>2, PTL DEF Spec

(* A controlled run is the one on screen, prepared by the draft at hand, and *)
(* the one listened to; the list from which another could be opened is not   *)
(* shown: for every order of key presses, effects and run events.            *)
THEOREM ControlSafety == Spec => []ControlledRunIsShown
<1>1. ASSUME SessionInv PROVE ControlledRunIsShown
  <2> SUFFICES ASSUME IsRunning PROVE ControlledRunIsShown
    BY DEF ControlledRunIsShown
  <2>1. session.control = session.run /\ stream = session.run /\ route # "Workflows" /\ session.run # None
    BY <1>1 DEF SessionInv, ControlInv, IsRunning
  <2>2. session.draft = task[session.run].draft /\ HasView
    BY <1>1, <2>1 DEF SessionInv, ScreenInv, HasView, NoView
  <2> QED BY <2>1, <2>2 DEF ControlledRunIsShown
<1> QED BY <1>1, SessionInvariant, PTL

(* The result on screen is the one the run came to, however many runs there  *)
(* were before it and wherever the user has been meanwhile.                  *)
THEOREM ResultSafety == Spec => []ResultShownIsTrue
<1>1. ASSUME SessionInv PROVE ResultShownIsTrue
  BY <1>1 DEF SessionInv, ScreenInv, ResultOf, ResultShownIsTrue
<1> QED BY <1>1, SessionInvariant, PTL

(* A success on screen has had the inputs it was obtained with saved.        *)
THEOREM HistoryOfSuccess == Spec => []SuccessIsSaved
<1>1. ASSUME SessionInv PROVE SuccessIsSaved
  <2> SUFFICES ASSUME session.view.status = "Succeeded" PROVE SuccessIsSaved
    BY DEF SuccessIsSaved
  <2>1. session.run # None
    BY <1>1 DEF SessionInv, ScreenInv, NoView
  <2> QED BY <1>1, <2>1 DEF SessionInv, ScreenInv, SuccessIsSaved
<1> QED BY <1>1, SessionInvariant, PTL

(* The UI lets go of a run it controls only when one of its steps failed or  *)
(* it has completed, and not because of anything the user does.              *)
THEOREM ControlIsNotLost == Spec => ControlIsKept
<1> DEFINE Kept == IsRunning /\ session'.control # session.control =>
                       /\ session'.run = session.run
                       /\ session'.view.failed \/ session'.view.status \in Terminal
<1>1. ASSUME SessionInv, [Next]_vars PROVE Kept
  <2> SUFFICES ASSUME IsRunning, session'.control # session.control
               PROVE  /\ session'.run = session.run
                      /\ session'.view.failed \/ session'.view.status \in Terminal
    OBVIOUS
  <2>1. session.run # None /\ ~session.view.failed /\ route # "Workflows" /\ ~session.inputs
    BY <1>1 DEF SessionInv, ControlInv, ScreenInv, IsRunning
  <2>2. session' # session
    OBVIOUS
  <2>3. ~User
    BY <2>1, <2>2 DEF User, Navigate, OpenInputs, RunActive, PressControl, ReviewInputs, RerunFailed,
                      CanRerun, ui
  <2>4. ~DoSwitch
    <3> SUFFICES ASSUME DoSwitch PROVE FALSE
      OBVIOUS
    <3>1. session' = AfterExit
      BY DEF DoSwitch
    <3> QED BY <1>1, <3>1, Leaving
  <2>5. ~DoRunRequested
    <3> SUFFICES ASSUME NEW i \in DOMAIN batch, batch[i].type = "RunRequested" PROVE FALSE
      BY DEF DoRunRequested
    <3>1. batch[i] \in Queued /\ IsRequest(batch[i])
      BY DEF Queued, Range, IsRequest
    <3> QED BY <1>1, <3>1 DEF SessionInv, ControlInv
  <2>6. CASE ReceiveEvent
    <3>1. /\ stream # None /\ events[stream] # <<>>
          /\ session' = Deliver(Head(events[stream]))
      BY <2>2, <2>6 DEF ReceiveEvent
    <3>2. events[stream] \in Seq(Event)
      BY <1>1, <3>1 DEF SessionInv, TypeOK
    <3>3. Head(events[stream]) \in Event
      BY <3>1, <3>2, HeadTailProperties
    <3> QED BY <1>1, <3>1, <3>3, Delivered DEF SessionInv
  <2>7. ~(Tick \/ DoRunControl \/ CloseStream \/ UNCHANGED vars)
    BY <2>2 DEF Tick, DoRunControl, CloseStream, vars, ui
  <2>8. ~\E r \in Runs : RunTask(r)
    <3> SUFFICES ASSUME NEW r \in Runs, RunTask(r) PROVE FALSE
      OBVIOUS
    <3>1. TaskStep(r)
      BY <1>1, RunTaskSteps DEF SessionInv
    <3> QED BY <2>2, <3>1 DEF TaskStep, ui
  <2> QED BY <1>1, <2>3, <2>4, <2>5, <2>6, <2>7, <2>8 DEF Next, EventLoop, DoEffect
<1>2. ASSUME SessionInv, [Next]_vars PROVE [Kept]_vars
  BY <1>1, <1>2
<1> HIDE DEF Kept
<1>3. Spec => [][Kept]_vars
  BY <1>2, SessionInvariant, PTL DEF Spec
<1> QED BY <1>3 DEF Kept, ControlIsKept

=============================================================================

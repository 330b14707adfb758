---------------------------- MODULE PaletteProofs ----------------------------
(***************************************************************************)
(* Theorems about PaletteExecution, for every set of inputs, and without a *)
(* bound on the requests and the effects that wait.                        *)
(***************************************************************************)
EXTENDS PaletteExecution, FiniteSetTheorems, SequenceTheorems, TLAPS

\* What the palette remembers to save, and what it has saved, are commands a
\* request was made for.
OnlyRunsAreKept ==
    pending \in sent \cup {None} /\ saved \subseteq sent

\* The palette forgets the pending command, and may save it first.
LEMMA ClearAllKeeps ==
    ASSUME OnlyRunsAreKept, pending' \in {pending, None}, saved' \subseteq saved \cup ({pending} \ {None}),
           sent' = sent
    PROVE  OnlyRunsAreKept'
BY DEF OnlyRunsAreKept

\* Whatever is typed, run and answered meanwhile, and in whatever order, the
\* history holds only commands whose request was made.
THEOREM HistorySafety == Spec => []HistoryIsOfRuns
<1>1. Init => OnlyRunsAreKept
  BY DEF Init, OnlyRunsAreKept
<1>2. OnlyRunsAreKept /\ [Next]_vars => OnlyRunsAreKept'
  <2> SUFFICES ASSUME OnlyRunsAreKept, [Next]_vars
               PROVE  OnlyRunsAreKept'
    OBVIOUS
  <2>1. CASE UNCHANGED <<pending, saved, sent>>
    BY <2>1 DEF OnlyRunsAreKept
  <2>8. CASE ChangeRegistry
    BY <2>1, <2>8 DEF ChangeRegistry, memory
  <2>2. CASE Keys
    <3>1. CASE Escape
      BY <3>1, ClearAllKeeps DEF Escape, ClearAll, memory
    <3>2. CASE (\E t \in Texts \cup {Empty} : Edit(t)) \/ Suggest \/ Enter \/ Confirm \/ Close
               \/ Leave \/ Return
      BY <2>1, <3>2 DEF Edit, Suggest, Enter, Confirm, Close, Press, Leave, Return, memory
    <3> QED BY <2>2, <3>1, <3>2 DEF Keys
  <2>3. CASE Tick
    BY <2>1, <2>3 DEF Tick, memory
  <2>4. CASE Carry
    <3>1. PICK i \in DOMAIN batch :
              Navigate(i) \/ SendToPalette(i) \/ Refuse(i) \/ Run(i) \/ Confirmed(i)
      BY <2>4 DEF Carry
    <3>2. CASE Run(i)
      BY <3>2 DEF Run, OnlyRunsAreKept
    <3>3. CASE Navigate(i) \/ SendToPalette(i) \/ Refuse(i) \/ Confirmed(i)
      BY <2>1, <3>3 DEF Navigate, SendToPalette, Refuse, Confirmed, memory
    <3> QED BY <3>1, <3>2, <3>3
  <2>5. ASSUME NEW t \in tasks, Answered(t)
        PROVE  OnlyRunsAreKept'
    BY <2>1, <2>5 DEF Answered, memory
  <2>6. ASSUME NEW t \in tasks, Join(t)
        PROVE  OnlyRunsAreKept'
    BY <2>6, ClearAllKeeps DEF Join, Finalize, ClearAll, memory
  <2>7. CASE UNCHANGED vars
    BY <2>1, <2>7 DEF vars, memory
  <2> QED BY <2>2, <2>3, <2>4, <2>5, <2>6, <2>7, <2>8 DEF Next
<1>3. OnlyRunsAreKept => HistoryIsOfRuns
  BY DEF OnlyRunsAreKept, HistoryIsOfRuns
<1> QED BY <1>1, <1>2, <1>3, PTL DEF Spec

-----------------------------------------------------------------------------
(* Deletes are asked about *)

\* An effect that does not run, unasked, what is known to be a DELETE.
Dos == {"confirm", "run", "close", "confirmed", "leave", "return", "send", "results"}
EffectType == [do : Dos, text : Texts \cup {Empty, None}, unasked : BOOLEAN]
Asked == {e \in EffectType : ~e.unasked /\ (e.do = "send" => e.text \in Texts)}

\* What is known to be a DELETE has its flag from the moment it is typed; so nothing
\* that waits, or is carried out, runs it unasked.
AskedInv ==
    /\ queue \in Seq(Asked) /\ batch \in Seq(Asked)
    /\ input \in Texts \cup {Empty} /\ flag \in BOOLEAN /\ known \in BOOLEAN
    /\ known => flag

\* Taking one element leaves a sequence of the same elements.
LEMMA RemovalKeepsType ==
    ASSUME NEW S, NEW q \in Seq(S), NEW i \in DOMAIN q
    PROVE  RemoveAt(q, i) \in Seq(S)
<1>1. i \in 1 .. Len(q) /\ Len(q) \in Nat
  BY LenProperties
<1>2. SubSeq(q, 1, i - 1) \in Seq(S)
  BY <1>1, SubSeqProperties
<1>3. SubSeq(q, i + 1, Len(q)) \in Seq(S)
  <2>1. CASE i < Len(q)
    BY <1>1, <2>1, SubSeqProperties
  <2>2. CASE i = Len(q)
    BY <1>1, <2>2, SubSeqEmpty, EmptySeq
  <2> QED BY <1>1, <2>1, <2>2
<1> QED BY <1>2, <1>3, ConcatProperties DEF RemoveAt

\* The flag is judged with the input.
LEMMA TypedTells ==
    ASSUME NEW t \in Texts \cup {Empty}, Typed(t), flag \in BOOLEAN
    PROVE  /\ input' \in Texts \cup {Empty} /\ flag' \in BOOLEAN /\ known' \in BOOLEAN
           /\ known' => flag'
<1>1. PICK locked \in BOOLEAN :
          Judge(t, locked) /\ known' = (t # Empty /\ ~locked /\ offers[t] = "delete")
  BY DEF Typed
<1>2. known' \in BOOLEAN /\ (known' => t # Empty /\ ~locked /\ offers[t] = "delete")
  BY <1>1, Zenon
<1>3. flag' \in BOOLEAN /\ (t # Empty /\ ~locked /\ offers[t] = "delete" => flag')
  <2>1. CASE t = Empty /\ flag' = FALSE
    BY <2>1
  <2>2. CASE t # Empty /\ ~locked /\ offers[t] \in Http /\ flag' = (offers[t] = "delete")
    <3>1. (offers[t] = "delete") \in BOOLEAN
      OBVIOUS
    <3> QED BY <2>2, <3>1, Zenon
  <2>3. CASE t # Empty /\ (locked \/ offers[t] \notin Http) /\ flag' = flag
    <3>1. "delete" \in Http
      BY DEF Http
    <3> QED BY <2>3, <3>1, Zenon
  <2> QED BY <1>1, <2>1, <2>2, <2>3, Zenon DEF Judge
<1>4. input' = t
  BY DEF Typed
<1> QED BY <1>2, <1>3, <1>4

\* An effect that runs nothing asks for nothing.
LEMMA OtherEffectsAreAsked ==
    ASSUME NEW what \in Dos \ {"run"}, NEW t \in Texts \cup {Empty, None}, what = "send" => t \in Texts
    PROVE  Effect(what, t) \in Asked
BY DEF Effect, Asked, EffectType, Dos

\* Effects are queued behind those that wait.
LEMMA QueueKeepsAsked ==
    ASSUME queue \in Seq(Asked), NEW es \in Seq(Asked), Queue(es)
    PROVE  queue' \in Seq(Asked)
BY ConcatProperties DEF Queue

\* However an input comes about, by typing, recalling or from the browser, whatever
\* happens between Enter, the modal and the tick, and however the registry changes,
\* what was known to be a DELETE when it was typed waits for its request only if the
\* user confirmed it.
THEOREM DeleteSafety == Spec => []DeletesAreAsked
<1>1. Init => AskedInv
  <2> SUFFICES ASSUME Init PROVE AskedInv
    OBVIOUS
  <2>1. queue \in Seq(Asked) /\ batch \in Seq(Asked)
    BY EmptySeq DEF Init
  <2> QED BY <2>1 DEF Init, AskedInv
<1>2. AskedInv /\ [Next]_vars => AskedInv'
  <2> SUFFICES ASSUME AskedInv, [Next]_vars PROVE AskedInv'
    OBVIOUS
  <2>1. CASE UNCHANGED <<line, batch>> /\ queue' \in Seq(Asked)
    BY <2>1 DEF AskedInv, line
  <2>2. ASSUME NEW t \in Texts \cup {Empty}, Typed(t), queue' = queue, batch' \in Seq(Asked)
        PROVE  AskedInv'
    BY <2>2, TypedTells DEF AskedInv
  <2>3. ASSUME input' = Empty, known' = FALSE, UNCHANGED <<flag, batch>>, queue' \in Seq(Asked)
        PROVE  AskedInv'
    BY <2>3 DEF AskedInv
  <2>18. CASE ChangeRegistry
    BY <2>18 DEF ChangeRegistry, AskedInv, line
  <2>4. ASSUME NEW e \in Asked, Queue(<<e>>) PROVE queue' \in Seq(Asked)
    <3>1. <<e>> \in Seq(Asked)
      OBVIOUS
    <3> QED BY <2>4, <3>1, QueueKeepsAsked DEF AskedInv
  <2>5. ASSUME NEW e \in Asked, NEW f \in Asked, Queue(<<e, f>>) PROVE queue' \in Seq(Asked)
    <3>1. <<e, f>> \in Seq(Asked)
      OBVIOUS
    <3> QED BY <2>5, <3>1, QueueKeepsAsked DEF AskedInv
  <2>6. \A what \in Dos \ {"run", "send"} : Effect(what, None) \in Asked
    BY OtherEffectsAreAsked
  <2>7. CASE \E t \in Texts \cup {Empty} : Edit(t)
    BY <2>2, <2>7 DEF Edit, AskedInv
  <2>8. CASE Suggest
    BY <2>8 DEF Suggest, AskedInv
  <2>9. CASE Escape
    <3>1. CASE UNCHANGED <<input, known>>
      BY <2>9, <3>1 DEF Escape, AskedInv
    <3>2. CASE input' = Empty /\ known' = FALSE
      BY <2>3, <2>9, <3>2 DEF Escape, AskedInv
    <3> QED BY <2>9, <3>1, <3>2 DEF Escape, ClearAll
  <2>10. CASE Enter
    <3> DEFINE e == IF flag THEN Effect("confirm", None) ELSE Effect("run", input)
    <3>1. ~flag => Effect("run", input) \in Asked
      BY DEF AskedInv, Effect, Asked, EffectType, Dos
    <3>2. e \in Asked
      BY <2>6, <3>1 DEF Dos
    <3>3. Queue(<<e>>) /\ UNCHANGED <<line, batch>>
      BY <2>10 DEF Enter
    <3> HIDE DEF e
    <3> QED BY <2>1, <2>4, <3>2, <3>3
  <2>11. CASE Confirm \/ Close
    <3>1. UNCHANGED <<line, batch>>
      BY <2>11 DEF Confirm, Close, Press
    <3>2. \/ Queue(<<Effect("close", None)>> \o <<Effect("confirmed", None)>>)
          \/ Queue(<<Effect("close", None)>> \o <<>>)
      BY <2>11 DEF Confirm, Close, Press
    <3>3. <<Effect("close", None)>> \in Seq(Asked) /\ <<Effect("confirmed", None)>> \in Seq(Asked)
      BY <2>6 DEF Dos
    <3>4. /\ <<Effect("close", None)>> \o <<Effect("confirmed", None)>> \in Seq(Asked)
          /\ <<Effect("close", None)>> \o <<>> \in Seq(Asked)
      BY <3>3, EmptySeq, ConcatProperties
    <3> QED BY <2>1, <3>1, <3>2, <3>4, QueueKeepsAsked DEF AskedInv
  <2>12. CASE Leave \/ Return
    <3>1. UNCHANGED <<line, batch>>
      BY <2>12 DEF Leave, Return
    <3>2. \/ Queue(<<Effect("leave", None)>>) \/ Queue(<<Effect("return", None)>>)
          \/ \E t \in Texts : Queue(<<Effect("return", None), Effect("send", t)>>)
      BY <2>12 DEF Leave, Return
    <3>3. \A t \in Texts : Effect("send", t) \in Asked
      BY OtherEffectsAreAsked DEF Dos
    <3>4. Effect("leave", None) \in Asked /\ Effect("return", None) \in Asked
      BY <2>6 DEF Dos
    <3>5. queue' \in Seq(Asked)
      BY <2>4, <2>5, <3>2, <3>3, <3>4
    <3> QED BY <2>1, <3>1, <3>5
  <2>13. CASE Tick
    BY <2>13, EmptySeq DEF Tick, AskedInv, line
  <2>14. CASE Carry
    <3>1. PICK i \in DOMAIN batch :
              Navigate(i) \/ SendToPalette(i) \/ Refuse(i) \/ Run(i) \/ Confirmed(i)
      BY <2>14 DEF Carry
    <3>2. batch' = RemoveAt(batch, i)
      BY <3>1 DEF Navigate, SendToPalette, Refuse, Run, Confirmed, Due
    <3>3. batch' \in Seq(Asked)
      BY <3>2, RemovalKeepsType DEF AskedInv
    <3>4. CASE Navigate(i) \/ Refuse(i) \/ Run(i)
      <4>1. UNCHANGED <<line, queue>>
        BY <3>4 DEF Navigate, Refuse, Run
      <4> QED BY <3>3, <4>1 DEF AskedInv, line
    <3>5. CASE SendToPalette(i)
      <4>1. batch[i] \in Asked /\ batch[i].do = "send" /\ Typed(batch[i].text) /\ queue' = queue
        BY <3>5, ElementOfSeq, LenProperties DEF SendToPalette, AskedInv
      <4>2. batch[i].text \in Texts \cup {Empty}
        BY <4>1 DEF Asked
      <4> QED BY <2>2, <3>3, <4>1, <4>2
    <3>6. CASE Confirmed(i)
      <4> DEFINE e == [Effect("run", input) EXCEPT !.unasked = FALSE]
      <4>1. e \in Asked
        BY DEF AskedInv, Effect, Asked, EffectType, Dos
      <4>2. queue' \in {queue, Append(queue, e)} /\ UNCHANGED line
        BY <3>6 DEF Confirmed
      <4> HIDE DEF e
      <4>3. queue' \in Seq(Asked)
        BY <4>1, <4>2, AppendProperties DEF AskedInv
      <4> QED BY <3>3, <4>2, <4>3 DEF AskedInv, line
    <3> QED BY <3>1, <3>4, <3>5, <3>6
  <2>15. ASSUME NEW t \in tasks, Answered(t) PROVE AskedInv'
    BY <2>15 DEF Answered, AskedInv, line
  <2>16. ASSUME NEW t \in tasks, Join(t) PROVE AskedInv'
    <3>1. /\ UNCHANGED <<flag, batch>>
          /\ UNCHANGED <<input, known>> \/ (input' = Empty /\ known' = FALSE)
      BY <2>16 DEF Join, Finalize, ClearAll
    <3>2. queue' = queue \/ Queue(<<Effect("results", None)>>)
      BY <2>16 DEF Join
    <3>3. Effect("results", None) \in Asked
      BY <2>6 DEF Dos
    <3>4. queue' \in Seq(Asked)
      BY <2>4, <3>2, <3>3 DEF AskedInv
    <3>5. CASE UNCHANGED <<input, known>>
      BY <3>1, <3>4, <3>5 DEF AskedInv
    <3> QED BY <2>3, <3>1, <3>4, <3>5
  <2>17. CASE UNCHANGED vars
    BY <2>17 DEF vars, line, AskedInv
  <2> QED BY <2>7, <2>8, <2>9, <2>10, <2>11, <2>12, <2>13, <2>14, <2>15, <2>16, <2>17, <2>18 DEF Next, Keys
<1>3. AskedInv => DeletesAreAsked
  <2> SUFFICES ASSUME AskedInv, NEW e \in Range(queue) \cup Range(batch)
               PROVE  ~e.unasked
    BY DEF DeletesAreAsked
  <2>1. e \in Asked
    BY ElementOfSeq, LenProperties DEF AskedInv, Range
  <2> QED BY <2>1 DEF Asked
<1> QED BY <1>1, <1>2, <1>3, PTL DEF Spec

-----------------------------------------------------------------------------
(* The spinner tells the truth *)

TaskType == [id : 1 .. MaxRuns, text : Texts, stage : Outcomes \cup {"working"}]
Working == {t \in tasks : t.stage = "working"}

\* The spinner turns for what is out; and the count that keeps it turning is, when
\* everything can be sent, the number of the requests under way.
SpinnerInv ==
    /\ tasks \in SUBSET TaskType /\ IsFiniteSet(tasks)
    /\ started \in Nat /\ Cardinality(tasks) <= started
    /\ active \in Int /\ executing \in BOOLEAN
    /\ tasks # {} => executing
    /\ tasks = {} /\ executing => active > 0
    /\ Unsendable = {} => active = Cardinality(Working)

\* There is a number no task has, as long as there are fewer tasks than numbers.
LEMMA FreshId ==
    ASSUME NEW S, S \in SUBSET TaskType, IsFiniteSet(S), Cardinality(S) < MaxRuns
    PROVE  \E n \in 1 .. MaxRuns : \A t \in S : t.id # n
<1> DEFINE f == [t \in S |-> t.id]
<1>1. SUFFICES ASSUME \A n \in 1 .. MaxRuns : \E t \in S : t.id = n
               PROVE  FALSE
  OBVIOUS
<1>2. f \in Surjection(S, 1 .. MaxRuns)
  <2>1. f \in [S -> 1 .. MaxRuns]
    BY DEF TaskType
  <2>2. \A n \in 1 .. MaxRuns : \E t \in S : f[t] = n
    BY <1>1
  <2> HIDE DEF f
  <2> QED BY <2>1, <2>2 DEF Surjection
<1>3. Cardinality(1 .. MaxRuns) <= Cardinality(S)
  BY <1>2, FS_Surjection
<1>4. Cardinality(1 .. MaxRuns) = MaxRuns /\ MaxRuns \in Nat
  <2>1. MaxRuns \in Nat
    BY PaletteAssumption
  <2>2. MaxRuns >= 1 => Cardinality(1 .. MaxRuns) = MaxRuns
    BY <2>1, FS_Interval
  <2>3. MaxRuns = 0 => 1 .. MaxRuns = {}
    BY <2>1
  <2> QED BY <2>1, <2>2, <2>3, FS_EmptySet
<1>5. Cardinality(S) \in Nat
  BY FS_CardinalityType
<1> QED BY <1>3, <1>4, <1>5

\* A set with one more element, or perhaps the same one, is finite and has at most
\* one more.
LEMMA OneMore ==
    ASSUME NEW S, IsFiniteSet(S), NEW x
    PROVE  /\ IsFiniteSet(S \cup {x}) /\ Cardinality(S) \in Nat
           /\ Cardinality(S \cup {x}) <= Cardinality(S) + 1
           /\ x \notin S => Cardinality(S \cup {x}) = Cardinality(S) + 1
BY FS_AddElement, FS_CardinalityType

\* And without an element of its own, one fewer.
LEMMA OneFewer ==
    ASSUME NEW S, IsFiniteSet(S), NEW x \in S
    PROVE  /\ IsFiniteSet(S \ {x}) /\ Cardinality(S) \in Nat
           /\ Cardinality(S \ {x}) = Cardinality(S) - 1
BY FS_RemoveElement, FS_CardinalityType

\* Judging anew whether something is out keeps the spinner right.
LEMMA StillRight ==
    ASSUME SpinnerInv, StillExecuting, UNCHANGED work
    PROVE  SpinnerInv'
<1>1. tasks' = tasks /\ active' = active /\ started' = started
  BY DEF work
<1>2. executing' = (active > 0 \/ tasks # {})
  BY DEF StillExecuting, Outstanding
<1>3. executing' \in BOOLEAN /\ (tasks # {} => executing') /\ (tasks = {} /\ executing' => active > 0)
  BY <1>2, Zenon
<1> QED BY <1>1, <1>3 DEF SpinnerInv, Working

\* Whatever order requests are made, answered and taken in, the spinner turns
\* while one is out, and, unless one could not be sent, only then.
THEOREM SpinnerSafety == Spec => []SpinnerTellsTruth
<1>1. Init => SpinnerInv
  <2> SUFFICES ASSUME Init PROVE SpinnerInv
    OBVIOUS
  <2>1. Working = {}
    BY DEF Init, Working
  <2>2. tasks = {} /\ started = 0 /\ active = 0 /\ executing = FALSE
    BY DEF Init
  <2>3. IsFiniteSet(tasks) /\ Cardinality(tasks) = 0 /\ Cardinality(Working) = 0
    BY <2>1, <2>2, FS_EmptySet
  <2>4. ~executing /\ executing \in BOOLEAN
    BY <2>2
  <2>5. started \in Nat /\ active \in Int /\ Cardinality(tasks) <= started /\ active = Cardinality(Working)
    BY <2>2, <2>3
  <2> QED BY <2>2, <2>3, <2>4, <2>5, Zenon DEF SpinnerInv
<1>2. SpinnerInv /\ [Next]_vars => SpinnerInv'
  <2> SUFFICES ASSUME SpinnerInv, [Next]_vars PROVE SpinnerInv'
    OBVIOUS
  <2>1. CASE UNCHANGED <<work, executing>>
    BY <2>1 DEF SpinnerInv, Working, work
  <2>9. CASE ChangeRegistry
    BY <2>1, <2>9 DEF ChangeRegistry
  <2>2. CASE Keys
    BY <2>1, <2>2 DEF Keys, Edit, Suggest, Escape, Enter, Confirm, Close, Press, Leave, Return
  <2>3. CASE Tick
    BY <2>1, <2>3 DEF Tick
  <2>4. ASSUME NEW i \in DOMAIN batch, Run(i) PROVE SpinnerInv'
    <3> DEFINE n == CHOOSE m \in 1 .. MaxRuns : \A t \in tasks : t.id # m
               text == batch[i].text
    <3>1. PICK stage \in {"working"} \cup
                    IF text \in Unsendable /\ offers[text] \in Http THEN {"unsent"} ELSE {} :
              tasks' = tasks \cup {[id |-> n, text |-> text, stage |-> stage]}
      BY <2>4 DEF Run
    <3>2. /\ text \in Texts /\ started < MaxRuns /\ started' = started + 1
          /\ active' = active + 1 /\ executing' = TRUE
      BY <2>4 DEF Run
    <3>3. MaxRuns \in Nat /\ Cardinality(tasks) \in Nat
      BY PaletteAssumption, FS_CardinalityType DEF SpinnerInv
    <3>4. n \in 1 .. MaxRuns /\ \A t \in tasks : t.id # n
      <4>1. Cardinality(tasks) < MaxRuns
        BY <3>2, <3>3 DEF SpinnerInv
      <4>2. \E m \in 1 .. MaxRuns : \A t \in tasks : t.id # m
        BY <4>1, FreshId DEF SpinnerInv
      <4> QED BY <4>2
    <3> HIDE DEF n, text
    <3> DEFINE new == [id |-> n, text |-> text, stage |-> stage]
    <3>5. new \in TaskType /\ new \notin tasks
      BY <3>1, <3>2, <3>4 DEF TaskType, Outcomes
    <3>6. Unsendable = {} => Working' = Working \cup {new}
      BY <3>1 DEF Working
    <3>7. tasks' = tasks \cup {new} /\ new \notin Working
      BY <3>1, <3>5 DEF Working
    <3> HIDE DEF new
    <3>8. IsFiniteSet(tasks') /\ Cardinality(tasks') <= Cardinality(tasks) + 1
      BY <3>7, OneMore DEF SpinnerInv
    <3>9. Unsendable = {} => active' = Cardinality(Working')
      <4>1. IsFiniteSet(Working)
        BY FS_Subset DEF SpinnerInv, Working
      <4>2. Cardinality(Working \cup {new}) = Cardinality(Working) + 1
        BY <3>7, <4>1, OneMore
      <4> QED BY <3>2, <3>6, <4>2 DEF SpinnerInv
    <3>10. tasks' \in SUBSET TaskType /\ tasks' # {}
      BY <3>5, <3>7 DEF SpinnerInv
    <3>11. started' \in Nat /\ active' \in Int /\ Cardinality(tasks') <= started'
      <4>1. Cardinality(tasks') \in Nat
        BY <3>8, FS_CardinalityType
      <4> QED BY <3>2, <3>3, <3>8, <4>1 DEF SpinnerInv
    <3> QED BY <3>2, <3>8, <3>9, <3>10, <3>11 DEF SpinnerInv
  <2>5. CASE Carry
    <3>1. PICK i \in DOMAIN batch :
              Navigate(i) \/ SendToPalette(i) \/ Refuse(i) \/ Run(i) \/ Confirmed(i)
      BY <2>5 DEF Carry
    <3>2. CASE Navigate(i)
      BY <2>1, <3>2 DEF Navigate
    <3>3. CASE SendToPalette(i) \/ Refuse(i) \/ Confirmed(i)
      <4>1. StillExecuting /\ UNCHANGED work
        BY <3>3 DEF SendToPalette, Refuse, Confirmed
      <4> QED BY <4>1, StillRight
    <3> QED BY <2>4, <3>1, <3>2, <3>3
  <2>6. ASSUME NEW t \in tasks, Answered(t) PROVE SpinnerInv'
    <3>1. PICK o \in Outcomes \ {"unsent"} :
              tasks' = (tasks \ {t}) \cup {[t EXCEPT !.stage = o]}
      BY <2>6 DEF Answered
    <3> DEFINE u == [t EXCEPT !.stage = o]
    <3>2. t \in TaskType /\ t.stage = "working" /\ active' = active - 1
          /\ UNCHANGED <<executing, started>>
      BY <2>6 DEF Answered, SpinnerInv
    <3>3. u \in TaskType /\ u.stage # "working"
      BY <3>2 DEF TaskType, Outcomes
    <3>4. tasks' = (tasks \ {t}) \cup {u}
      BY <3>1
    <3> HIDE DEF u
    <3>5. Working' = Working \ {t} /\ t \in Working
      BY <3>2, <3>3, <3>4 DEF Working
    <3>6. IsFiniteSet(tasks \ {t}) /\ Cardinality(tasks \ {t}) = Cardinality(tasks) - 1
      BY OneFewer DEF SpinnerInv
    <3>7. IsFiniteSet(tasks') /\ Cardinality(tasks') <= Cardinality(tasks \ {t}) + 1
      BY <3>4, <3>6, OneMore
    <3>8. Cardinality(tasks) \in Nat /\ Cardinality(tasks') \in Nat
      BY <3>7, FS_CardinalityType DEF SpinnerInv
    <3>9. Cardinality(tasks') <= started'
      BY <3>2, <3>6, <3>7, <3>8 DEF SpinnerInv
    <3>10. Unsendable = {} => active' = Cardinality(Working')
      <4>1. IsFiniteSet(Working)
        BY FS_Subset DEF SpinnerInv, Working
      <4> QED BY <3>2, <3>5, <4>1, OneFewer DEF SpinnerInv
    <3>11. tasks' \in SUBSET TaskType /\ tasks' # {} /\ tasks # {}
      BY <3>3, <3>4 DEF SpinnerInv
    <3>12. executing' /\ executing' \in BOOLEAN
      BY <3>2, <3>11 DEF SpinnerInv
    <3>13. started' \in Nat /\ active' \in Int
      BY <3>2 DEF SpinnerInv
    <3> QED BY <3>7, <3>9, <3>10, <3>11, <3>12, <3>13 DEF SpinnerInv
  <2>7. ASSUME NEW t \in tasks, Join(t) PROVE SpinnerInv'
    <3>1. tasks' = tasks \ {t} /\ t.stage # "working" /\ UNCHANGED <<active, started>>
      BY <2>7 DEF Join
    <3>2. executing' = (active > 0 \/ tasks' # {})
      BY <2>7 DEF Join, Outstanding
    <3>3. Working' = Working
      BY <3>1 DEF Working
    <3>4. IsFiniteSet(tasks') /\ Cardinality(tasks') = Cardinality(tasks) - 1
          /\ Cardinality(tasks) \in Nat
      BY <3>1, OneFewer DEF SpinnerInv
    <3>5. Cardinality(tasks') <= started'
      BY <3>1, <3>4 DEF SpinnerInv
    <3>6. executing' \in BOOLEAN /\ (tasks' # {} => executing')
          /\ (tasks' = {} /\ executing' => active > 0)
      BY <3>2, Zenon
    <3> QED BY <3>1, <3>3, <3>4, <3>5, <3>6 DEF SpinnerInv
  <2>8. CASE UNCHANGED vars
    BY <2>1, <2>8 DEF vars
  <2> QED BY <2>2, <2>3, <2>5, <2>6, <2>7, <2>8, <2>9 DEF Next
<1>3. SpinnerInv => SpinnerTellsTruth
  <2> SUFFICES ASSUME SpinnerInv, tasks = {}, executing PROVE active > 0 /\ Unsendable # {}
    BY DEF SpinnerInv, SpinnerTellsTruth
  <2>1. active > 0
    BY DEF SpinnerInv
  <2>2. Working = {}
    BY DEF Working
  <2>3. Cardinality(Working) = 0
    BY <2>2, FS_EmptySet
  <2> QED BY <2>1, <2>3 DEF SpinnerInv
<1> QED BY <1>1, <1>2, <1>3, PTL DEF Spec
=============================================================================

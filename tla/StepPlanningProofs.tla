------------------------- MODULE StepPlanningProofs -------------------------
(***************************************************************************)
(* The planner is sound, for every declaration of a workflow: what it      *)
(* accepts is put in a complete and topological order, what it refuses it  *)
(* refuses for the reason given.                                           *)
(***************************************************************************)
EXTENDS StepPlanning, Integers, SequenceTheorems, FiniteSetTheorems, WellFoundedInduction, TLAPS

Indexed == phase \in {"edges", "seed", "pop", "children", "ok", "cycle"}
Sorting == phase \in {"pop", "children", "ok", "cycle"}

\* Every variable keeps to its type; the cursors stay at most one past the end.
TypeInv ==
    /\ steps \in Seq(Declaration)
    /\ i \in 1 .. Count + 1
    /\ j \in Nat \ {0}
    /\ phase = "edges" /\ i <= Count => j <= Len(steps[i].deps) + 1
    /\ seen \subseteq Ids
    /\ inDegree \in [Ids -> Int]
    /\ adjacency \in [Ids -> Seq(Ids)]
    /\ queue \in Seq(Ids) /\ ordered \in Seq(Ids)
    /\ phase = "children" => ordered # <<>>

\* The identifiers looked at so far are distinct.
DistinctUpTo(n) == \A k, l \in 1 .. n : IdAt(k) = IdAt(l) => k = l
LookupInv ==
    /\ phase = "index" => DistinctUpTo(i - 1)
    /\ Indexed => DistinctUpTo(Count)

\* The steps that x has been found to depend on.
In(x) == {d \in Ids : x \in Range(adjacency[d])}

\* The dependencies of step k that have been looked at.
Found(k) ==
    IF phase = "edges" /\ i < k THEN {}
    ELSE IF phase = "edges" /\ i = k THEN {steps[k].deps[p] : p \in 1 .. (j - 1)}
    ELSE DepsAt(k)

\* An edge is recorded once, for exactly the dependencies looked at.
EdgeInv ==
    /\ \A d \in Ids : \A p, q \in DOMAIN adjacency[d] : adjacency[d][p] = adjacency[d][q] => p = q
    /\ \A x \in Ids \ Declared : In(x) = {}
    /\ \A x \in Ids : In(x) \subseteq Declared
    /\ phase = "index" => \A x \in Ids : In(x) = {}
    /\ Indexed => \A k \in 1 .. Count : In(IdAt(k)) = Found(k)
    /\ phase = "edges" /\ i <= Count => seen = Found(i)

\* The dependent x has been told that d is ordered.
Released(d, x) ==
    /\ d \in Range(ordered)
    /\ phase = "children" /\ d = Current => \E p \in 1 .. (j - 1) : adjacency[d][p] = x

\* What x still waits for; its in-degree counts that.
Waits(x) == {d \in In(x) : ~Released(d, x)}
CountInv == \A x \in Ids : IsFiniteSet(Waits(x)) /\ inDegree[x] = Cardinality(Waits(x))

\* The steps that were ordered, followed by those that are queued.
Line == ordered \o queue

\* Nobody stands in line twice, and everybody behind all dependencies.
LineInv ==
    /\ \A p, q \in DOMAIN Line : Line[p] = Line[q] => p = q
    /\ \A p \in DOMAIN Line : \A d \in In(Line[p]) : \E q \in 1 .. (p - 1) : Line[q] = d

\* Exactly the steps that wait for nothing are in line, as soon as each was
\* looked at.
QueueInv ==
    /\ ~Sorting /\ phase # "seed" => queue = <<>>
    /\ ~Sorting => ordered = <<>>
    /\ phase = "seed" =>
           /\ \A x \in Range(Line) : \E k \in 1 .. (i - 1) : x = IdAt(k)
           /\ \A k \in 1 .. (i - 1) : IdAt(k) \in Range(Line) <=> Waits(IdAt(k)) = {}
    /\ Sorting =>
           /\ Range(Line) \subseteq Declared
           /\ \A x \in Declared : x \in Range(Line) <=> Waits(x) = {}
    /\ phase \in {"ok", "cycle"} => queue = <<>> /\ (phase = "ok" <=> Len(ordered) = Count)

\* What was refused while reading the declaration.
RefusalInv ==
    /\ phase = "duplicate" => \E k, l \in 1 .. Count : k # l /\ IdAt(k) = IdAt(l)
    /\ phase = "unknown" => \E k \in 1 .. Count : ~ (DepsAt(k) \subseteq Declared)
    /\ phase = "self" => \E k \in 1 .. Count : IdAt(k) \in DepsAt(k)

PlanInv == TypeInv /\ LookupInv /\ EdgeInv /\ CountInv /\ LineInv /\ QueueInv /\ RefusalInv

-----------------------------------------------------------------------------
(* Sequences *)

\* The elements of a sequence.
LEMMA ElementsOf ==
    ASSUME NEW S, NEW s \in Seq(S)
    PROVE  /\ Len(s) \in Nat /\ DOMAIN s = 1 .. Len(s)
           /\ \A p \in 1 .. Len(s) : s[p] \in S /\ s[p] \in Range(s)
           /\ \A x \in Range(s) : x \in S /\ \E p \in 1 .. Len(s) : s[p] = x
<1>1. DOMAIN s = 1 .. Len(s) /\ Len(s) \in Nat
  BY LenProperties
<1>2. \A p \in 1 .. Len(s) : s[p] \in S
  BY ElementOfSeq
<1>3. Range(s) = {s[p] : p \in 1 .. Len(s)}
  BY <1>1 DEF Range
<1>4. \A p \in 1 .. Len(s) : s[p] \in S /\ s[p] \in Range(s)
  BY <1>2, <1>3
<1>5. \A x \in Range(s) : x \in S /\ \E p \in 1 .. Len(s) : s[p] = x
  BY <1>2, <1>3
<1> QED BY <1>1, <1>4, <1>5

\* A sequence with one more element at its end.
LEMMA RangeOfAppend ==
    ASSUME NEW S, NEW s \in Seq(S), NEW e \in S
    PROVE  /\ Append(s, e) \in Seq(S) /\ Len(Append(s, e)) = Len(s) + 1
           /\ \A p \in 1 .. Len(s) : Append(s, e)[p] = s[p]
           /\ Append(s, e)[Len(s) + 1] = e
           /\ Range(Append(s, e)) = Range(s) \cup {e}
<1> DEFINE t == Append(s, e)
<1>1. /\ t \in Seq(S) /\ Len(t) = Len(s) + 1
      /\ \A p \in 1 .. Len(s) : t[p] = s[p]
      /\ t[Len(s) + 1] = e
  BY AppendProperties
<1> HIDE DEF t
<1>2. Len(s) \in Nat /\ \A p \in 1 .. Len(s) : s[p] \in Range(s)
  BY ElementsOf
<1>3. \A x \in Range(s) : \E p \in 1 .. Len(s) : s[p] = x
  BY ElementsOf
<1>4. \A p \in 1 .. Len(t) : t[p] \in Range(t)
  BY <1>1, ElementsOf
<1>5. \A x \in Range(t) : \E p \in 1 .. Len(t) : t[p] = x
  BY <1>1, ElementsOf
<1>6. 1 .. Len(t) = 1 .. Len(s) \cup {Len(s) + 1}
  BY <1>1, <1>2
<1>7. Range(s) \cup {e} \subseteq Range(t)
  BY <1>1, <1>3, <1>4, <1>6
<1>8. Range(t) \subseteq Range(s) \cup {e}
  BY <1>1, <1>2, <1>5, <1>6
<1> QED BY <1>1, <1>7, <1>8 DEF t

\* The line is the ordered steps and then the queue.
LEMMA LineProperties ==
    ASSUME queue \in Seq(Ids), ordered \in Seq(Ids)
    PROVE  /\ Line \in Seq(Ids) /\ Len(Line) = Len(ordered) + Len(queue)
           /\ \A p \in 1 .. Len(ordered) : Line[p] = ordered[p]
           /\ Range(ordered) \subseteq Range(Line) /\ Range(queue) \subseteq Range(Line)
           /\ queue = <<>> => Line = ordered
<1>1. /\ Line \in Seq(Ids) /\ Len(Line) = Len(ordered) + Len(queue)
      /\ \A p \in 1 .. Len(ordered) + Len(queue) :
             Line[p] = IF p <= Len(ordered) THEN ordered[p] ELSE queue[p - Len(ordered)]
  BY ConcatProperties DEF Line
<1>2. Len(ordered) \in Nat /\ Len(queue) \in Nat
  BY LenProperties
<1>3. \A p \in 1 .. Len(ordered) : Line[p] = ordered[p]
  BY <1>1, <1>2
<1>4. \A p \in 1 .. Len(queue) : Len(ordered) + p \in 1 .. Len(Line) /\ Line[Len(ordered) + p] = queue[p]
  <2> SUFFICES ASSUME NEW p \in 1 .. Len(queue)
               PROVE  Len(ordered) + p \in 1 .. Len(Line) /\ Line[Len(ordered) + p] = queue[p]
    OBVIOUS
  <2>1. (Len(ordered) + p) - Len(ordered) = p /\ ~(Len(ordered) + p <= Len(ordered))
    BY <1>2
  <2> QED BY <1>1, <1>2, <2>1
<1>5. /\ \A x \in Range(ordered) : \E p \in 1 .. Len(ordered) : ordered[p] = x
      /\ \A x \in Range(queue) : \E p \in 1 .. Len(queue) : queue[p] = x
      /\ \A p \in 1 .. Len(Line) : Line[p] \in Range(Line)
  BY <1>1, ElementsOf
<1>6. Range(ordered) \subseteq Range(Line)
  <2>1. \A p \in 1 .. Len(ordered) : p \in 1 .. Len(Line)
    BY <1>1, <1>2
  <2> QED BY <1>3, <1>5, <2>1
<1>7. Range(queue) \subseteq Range(Line)
  <2> SUFFICES ASSUME NEW x \in Range(queue) PROVE x \in Range(Line)
    OBVIOUS
  <2>1. PICK p \in 1 .. Len(queue) : queue[p] = x
    BY <1>5
  <2>2. Len(ordered) + p \in 1 .. Len(Line) /\ Line[Len(ordered) + p] = x
    BY <1>4, <2>1
  <2> QED BY <1>5, <2>2
<1>8. queue = <<>> => Line = ordered
  BY ConcatEmptySeq DEF Line
<1> QED BY <1>1, <1>3, <1>6, <1>7, <1>8

\* The first in the queue becomes the last that is ordered: the line stands.
LEMMA PopKeepsLine ==
    ASSUME queue \in Seq(Ids), ordered \in Seq(Ids), queue # <<>>
    PROVE  Append(ordered, Head(queue)) \o Tail(queue) = Line
<1>1. /\ Head(queue) = queue[1] /\ Head(queue) \in Ids
      /\ Tail(queue) \in Seq(Ids) /\ Len(Tail(queue)) = Len(queue) - 1
      /\ \A p \in 1 .. Len(Tail(queue)) : Tail(queue)[p] = queue[p + 1]
  BY HeadTailProperties
<1> DEFINE o == Append(ordered, Head(queue))
           t == Tail(queue)
<1>2. /\ o \in Seq(Ids) /\ Len(o) = Len(ordered) + 1 /\ o[Len(ordered) + 1] = queue[1]
      /\ \A p \in 1 .. Len(ordered) : o[p] = ordered[p]
  BY <1>1, AppendProperties
<1>3. Len(ordered) \in Nat /\ Len(queue) \in Nat
  BY LenProperties
<1>4. t \in Seq(Ids) /\ Len(t) = Len(queue) - 1 /\ \A p \in 1 .. Len(t) : t[p] = queue[p + 1]
  BY <1>1
<1> HIDE DEF o, t
<1>5. /\ o \o t \in Seq(Ids) /\ Len(o \o t) = Len(o) + Len(t)
      /\ \A p \in 1 .. Len(o) + Len(t) : (o \o t)[p] = IF p <= Len(o) THEN o[p] ELSE t[p - Len(o)]
  BY <1>2, <1>4, ConcatProperties
<1>6. /\ Line \in Seq(Ids) /\ Len(Line) = Len(ordered) + Len(queue)
      /\ \A p \in 1 .. Len(ordered) + Len(queue) :
             Line[p] = IF p <= Len(ordered) THEN ordered[p] ELSE queue[p - Len(ordered)]
  BY ConcatProperties DEF Line
<1>7. Len(o \o t) = Len(Line)
  BY <1>2, <1>3, <1>4, <1>5, <1>6
<1>8. \A p \in 1 .. Len(o \o t) : (o \o t)[p] = Line[p]
  <2> SUFFICES ASSUME NEW p \in 1 .. Len(o \o t) PROVE (o \o t)[p] = Line[p]
    OBVIOUS
  <2>1. CASE p <= Len(ordered)
    BY <1>2, <1>3, <1>4, <1>5, <1>6, <2>1
  <2>2. CASE p = Len(ordered) + 1
    <3>1. p - Len(ordered) = 1
      BY <1>3, <2>2
    <3> QED BY <1>2, <1>3, <1>4, <1>5, <1>6, <2>2, <3>1
  <2>3. CASE p > Len(ordered) + 1
    <3>1. p - Len(o) \in 1 .. Len(t) /\ (p - Len(o)) + 1 = p - Len(ordered)
      BY <1>2, <1>3, <1>4, <1>5, <2>3
    <3>2. (o \o t)[p] = t[p - Len(o)] /\ Line[p] = queue[p - Len(ordered)]
      BY <1>2, <1>3, <1>4, <1>5, <1>6, <2>3
    <3> QED BY <1>4, <3>1, <3>2
  <2> QED BY <1>3, <2>1, <2>2, <2>3
<1>9. o \o t = Line
  BY <1>5, <1>6, <1>7, <1>8, SeqEqual
<1> QED BY <1>9 DEF o, t

\* Whoever joins the queue joins the line at its end.
LEMMA JoinExtendsLine ==
    ASSUME queue \in Seq(Ids), ordered \in Seq(Ids), NEW x \in Ids
    PROVE  ordered \o Append(queue, x) = Append(Line, x)
<1>1. <<x>> \in Seq(Ids) /\ Line \in Seq(Ids)
  BY ConcatProperties DEF Line
<1>2. Append(queue, x) = queue \o <<x>> /\ Append(Line, x) = Line \o <<x>>
  BY <1>1, AppendIsConcat
<1>3. (ordered \o queue) \o <<x>> = ordered \o (queue \o <<x>>)
  BY <1>1, ConcatAssociative
<1> QED BY <1>2, <1>3 DEF Line

-----------------------------------------------------------------------------
(* Types and identifiers *)

\* What stands at a place of the declaration.
LEMMA DeclarationTypes ==
    ASSUME steps \in Seq(Declaration)
    PROVE  /\ Count \in Nat
           /\ \A k \in 1 .. Count :
                  /\ IdAt(k) \in Ids /\ IdAt(k) \in Declared
                  /\ steps[k].deps \in Seq(Ids) /\ Len(steps[k].deps) \in Nat
                  /\ \A p \in 1 .. Len(steps[k].deps) :
                         steps[k].deps[p] \in DepsAt(k) /\ steps[k].deps[p] \in Ids
                  /\ DepsAt(k) = {steps[k].deps[p] : p \in 1 .. Len(steps[k].deps)}
<1>1. Count \in Nat
  BY LenProperties DEF Count
<1>2. ASSUME NEW k \in 1 .. Count
      PROVE  /\ IdAt(k) \in Ids /\ IdAt(k) \in Declared
             /\ steps[k].deps \in Seq(Ids) /\ Len(steps[k].deps) \in Nat
             /\ \A p \in 1 .. Len(steps[k].deps) :
                    steps[k].deps[p] \in DepsAt(k) /\ steps[k].deps[p] \in Ids
             /\ DepsAt(k) = {steps[k].deps[p] : p \in 1 .. Len(steps[k].deps)}
  <2>1. steps[k] \in Declaration
    BY ElementOfSeq DEF Count
  <2>2. IdAt(k) \in Ids /\ steps[k].deps \in Seq(Ids) /\ IdAt(k) \in Declared
    BY <2>1 DEF Declaration, IdAt, Declared
  <2> DEFINE deps == steps[k].deps
  <2>3. Len(deps) \in Nat /\ \A p \in 1 .. Len(deps) : deps[p] \in Ids /\ deps[p] \in Range(deps)
    BY <2>2, ElementsOf
  <2>4. Range(deps) = {deps[p] : p \in 1 .. Len(deps)}
    BY <2>2, RangeEquality
  <2> QED BY <2>2, <2>3, <2>4 DEF DepsAt
<1> QED BY <1>1, <1>2

\* Every variable keeps to its type.
THEOREM PlanTyping == Spec => []TypeInv
<1>1. Init => TypeInv
  <2> SUFFICES ASSUME Init PROVE TypeInv
    OBVIOUS
  <2>1. steps \in Seq(Declaration) /\ Count \in Nat
    BY PlanningAssumption, DeclarationTypes DEF Init
  <2> QED BY <2>1, EmptySeq DEF Init, TypeInv
<1>2. TypeInv /\ [Next]_vars => TypeInv'
  <2> SUFFICES ASSUME TypeInv, [Next]_vars PROVE TypeInv'
    OBVIOUS
  <2>0. Count \in Nat
    BY DeclarationTypes DEF TypeInv
  <2>1. CASE IndexStep
    BY <2>0, <2>1 DEF IndexStep, TypeInv, Count
  <2>2. CASE EndIndex
    <3>1. 1 <= Count => 1 <= Len(steps[1].deps) + 1
      BY <2>0, DeclarationTypes DEF TypeInv
    <3> QED BY <2>0, <2>2, <3>1 DEF EndIndex, TypeInv, Count
  <2>3. CASE AddEdge
    <3> DEFINE d == steps[i].deps[j]
    <3>1. i \in 1 .. Count /\ j \in 1 .. Len(steps[i].deps)
      BY <2>0, <2>3 DEF AddEdge, TypeInv
    <3>2. d \in Ids /\ IdAt(i) \in Ids /\ Len(steps[i].deps) \in Nat
      BY <3>1, DeclarationTypes DEF TypeInv
    <3>3. adjacency[d] \in Seq(Ids) /\ Append(adjacency[d], IdAt(i)) \in Seq(Ids)
      BY <3>2, AppendProperties DEF TypeInv
    <3>4. UNCHANGED <<steps, i, queue, ordered>>
      BY <2>3 DEF AddEdge
    <3>5. CASE UNCHANGED <<seen, inDegree, adjacency>>
      <4>1. /\ j' \in Nat \ {0} /\ phase' # "children"
            /\ phase' = "edges" => j' <= Len(steps[i].deps) + 1
        BY <2>3, <3>1, <3>2 DEF AddEdge, NextDependency
      <4> QED BY <3>4, <3>5, <4>1 DEF TypeInv, Count
    <3>6. CASE seen' = seen \cup {d} /\ NewEdge(d) /\ NextDependency /\ UNCHANGED phase
      <4>1. /\ j' \in Nat \ {0} /\ phase' # "children" /\ seen' \subseteq Ids
            /\ j' <= Len(steps[i].deps) + 1
        BY <2>3, <3>1, <3>2, <3>6 DEF AddEdge, NextDependency, TypeInv
      <4>2. inDegree' \in [Ids -> Int]
        BY <3>2, <3>6 DEF NewEdge, TypeInv
      <4>3. adjacency' \in [Ids -> Seq(Ids)]
        BY <3>2, <3>3, <3>6 DEF NewEdge, TypeInv
      <4> QED BY <3>4, <4>1, <4>2, <4>3 DEF TypeInv, Count
    <3> QED BY <2>3, <3>5, <3>6 DEF AddEdge, NextDependency
  <2>4. CASE EndEdgesOfStep
    <3>1. /\ i \in 1 .. Count /\ phase = "edges" /\ i' = i + 1 /\ j' = 1 /\ seen' = {}
          /\ UNCHANGED <<steps, phase, inDegree, adjacency, queue, ordered>>
      BY <2>0, <2>4 DEF EndEdgesOfStep, TypeInv
    <3>2. \A k \in 1 .. Count : 1 <= Len(steps[k].deps) + 1
      BY DeclarationTypes DEF TypeInv
    <3>3. i' \in 1 .. Count + 1 /\ (i' <= Count => 1 <= Len(steps[i'].deps) + 1)
      BY <2>0, <3>1, <3>2
    <3> QED BY <3>1, <3>3 DEF EndEdgesOfStep, TypeInv, Count
  <2>5. CASE EndEdges \/ EndSeed \/ EndChildren \/ Return
    <3>1. UNCHANGED <<steps, j, seen, inDegree, adjacency, queue, ordered>>
      BY <2>5 DEF EndEdges, EndSeed, EndChildren, Return
    <3>2. (i' = i \/ i' = 1) /\ phase' # "edges" /\ phase' # "children"
      BY <2>5 DEF EndEdges, EndSeed, EndChildren, Return
    <3> QED BY <2>0, <3>1, <3>2 DEF TypeInv, Count
  <2>6. CASE SeedQueue
    <3>1. IdAt(i) \in Ids
      BY <2>0, <2>6, DeclarationTypes DEF SeedQueue, TypeInv
    <3>2. Append(queue, IdAt(i)) \in Seq(Ids)
      BY <3>1, AppendProperties DEF TypeInv
    <3>3. queue' \in Seq(Ids)
      BY <2>6, <3>2 DEF SeedQueue, TypeInv
    <3> QED BY <2>0, <2>6, <3>3 DEF SeedQueue, TypeInv, Count
  <2>7. CASE PopFront
    <3>1. Head(queue) \in Ids /\ Tail(queue) \in Seq(Ids)
      BY <2>7, HeadTailProperties DEF PopFront, TypeInv
    <3>2. Append(ordered, Head(queue)) \in Seq(Ids) /\ Append(ordered, Head(queue)) # <<>>
      <4> DEFINE longer == Append(ordered, Head(queue))
      <4>1. ordered \in Seq(Ids)
        BY DEF TypeInv
      <4>2. longer \in Seq(Ids) /\ Len(longer) = Len(ordered) + 1 /\ Len(ordered) \in Nat
        BY <3>1, <4>1, RangeOfAppend, LenProperties
      <4> HIDE DEF longer
      <4>3. longer # <<>>
        BY <4>2, EmptySeq
      <4> QED BY <4>2, <4>3 DEF longer
    <3>3. ordered' \in Seq(Ids) /\ ordered' # <<>> /\ queue' \in Seq(Ids)
      BY <2>7, <3>1, <3>2 DEF PopFront
    <3>4. UNCHANGED <<steps, i, seen, inDegree, adjacency>> /\ phase' = "children" /\ j' = 1
      BY <2>7 DEF PopFront
    <3> QED BY <3>3, <3>4 DEF TypeInv, Count
  <2>8. CASE ReleaseChild
    <3> DEFINE child == adjacency[Current][j]
    <3>1. Current \in Ids
      <4>1. Len(ordered) \in 1 .. Len(ordered)
        BY <2>8, EmptySeq DEF ReleaseChild, TypeInv
      <4> QED BY <4>1, ElementOfSeq DEF Current, TypeInv
    <3>2. child \in Ids
      <4>1. adjacency[Current] \in Seq(Ids)
        BY <3>1 DEF TypeInv
      <4>2. j \in 1 .. Len(adjacency[Current])
        BY <2>8, <4>1, LenProperties DEF ReleaseChild, TypeInv
      <4> QED BY <4>1, <4>2, ElementOfSeq
    <3>3. Append(queue, child) \in Seq(Ids)
      BY <3>2, AppendProperties DEF TypeInv
    <3>4. queue' \in Seq(Ids)
      BY <2>8, <3>3 DEF ReleaseChild, TypeInv
    <3>5. inDegree' \in [Ids -> Int]
      <4>1. inDegree \in [Ids -> Int] /\ inDegree' = [inDegree EXCEPT ![child] = @ - 1]
        BY <2>8 DEF ReleaseChild, TypeInv
      <4> HIDE DEF child
      <4> QED BY <3>2, <4>1
    <3>6. /\ UNCHANGED <<steps, phase, i, seen, adjacency, ordered>>
          /\ j' = j + 1 /\ phase = "children"
      BY <2>8 DEF ReleaseChild
    <3> QED BY <3>4, <3>5, <3>6 DEF TypeInv, Count
  <2>9. CASE UNCHANGED vars
    BY <2>9 DEF vars, TypeInv, Count
  <2> QED BY <2>1, <2>2, <2>3, <2>4, <2>5, <2>6, <2>7, <2>8, <2>9 DEF Next
<1> QED BY <1>1, <1>2, PTL DEF Spec

-----------------------------------------------------------------------------
(* The edges, and what a step waits for *)

\* Before a step is ordered, each step waits for all it was found to depend on.
LEMMA NobodyReleased ==
    ASSUME ordered = <<>>, NEW x
    PROVE  Range(ordered) = {} /\ Waits(x) = In(x)
<1>1. DOMAIN ordered = {}
  BY EmptySeq, LenProperties
<1>2. Range(ordered) = {}
  BY <1>1 DEF Range
<1> QED BY <1>2 DEF Waits, Released

\* d was found to be a dependency of x: x stands among the dependents of d.
LEMMA EdgePlaces ==
    ASSUME TypeInv, NEW d \in Ids, NEW x \in Ids
    PROVE  /\ DOMAIN adjacency[d] = 1 .. Len(adjacency[d]) /\ Len(adjacency[d]) \in Nat
           /\ d \in In(x) <=> \E p \in 1 .. Len(adjacency[d]) : adjacency[d][p] = x
<1>1. adjacency[d] \in Seq(Ids)
  BY DEF TypeInv
<1>2. /\ DOMAIN adjacency[d] = 1 .. Len(adjacency[d]) /\ Len(adjacency[d]) \in Nat
      /\ \A p \in 1 .. Len(adjacency[d]) : adjacency[d][p] \in Range(adjacency[d])
      /\ \A y \in Range(adjacency[d]) : \E p \in 1 .. Len(adjacency[d]) : adjacency[d][p] = y
  BY <1>1, ElementsOf
<1>3. d \in In(x) <=> x \in Range(adjacency[d])
  BY DEF In
<1> QED BY <1>2, <1>3

\* No identifier was seen twice.
LEMMA LookupStep ==
    ASSUME TypeInv, LookupInv, [Next]_vars
    PROVE  LookupInv'
<1>0. Count \in Nat /\ i \in Nat /\ i <= Count + 1
  BY DeclarationTypes DEF TypeInv
<1>1. CASE IndexStep
  <2>1. UNCHANGED steps /\ phase = "index"
    BY <1>1 DEF IndexStep
  <2>2. DistinctUpTo(i - 1) /\ (\A k \in 1 .. Count + 1 : IdAt(k)' = IdAt(k))
    BY <2>1 DEF LookupInv, IdAt
  <2>3. CASE phase' = "index"
    <3>1. i' = i + 1 /\ ~ \E k \in 1 .. (i - 1) : IdAt(k) = IdAt(i)
      BY <1>1, <2>3 DEF IndexStep
    <3>2. DistinctUpTo(i)
      BY <1>0, <2>2, <3>1 DEF DistinctUpTo
    <3> QED BY <1>0, <2>1, <2>3, <3>1, <3>2 DEF LookupInv, DistinctUpTo, IdAt, Indexed
  <2>4. CASE phase' = "duplicate"
    BY <2>4 DEF LookupInv, Indexed
  <2> QED BY <1>1, <2>3, <2>4 DEF IndexStep
<1>2. CASE EndIndex
  <2>1. DistinctUpTo(Count) /\ phase' = "edges" /\ UNCHANGED steps
    BY <1>0, <1>2 DEF EndIndex, LookupInv, DistinctUpTo
  <2> QED BY <2>1 DEF LookupInv, DistinctUpTo, IdAt, Count
<1>3. CASE UNCHANGED steps /\ Indexed /\ phase' # "index"
  BY <1>3 DEF LookupInv, DistinctUpTo, IdAt, Count
<1>4. CASE UNCHANGED vars
  BY <1>4 DEF vars, LookupInv, DistinctUpTo, IdAt, Count, Indexed
<1> QED BY <1>1, <1>2, <1>3, <1>4
        DEF Next, AddEdge, EndEdgesOfStep, EndEdges, SeedQueue, EndSeed, PopFront, ReleaseChild,
            EndChildren, Return, Indexed

\* A new edge makes d a dependency of the step at hand, and of no other.
LEMMA EdgeAdded ==
    ASSUME TypeInv, EdgeInv, phase = "edges", i \in 1 .. Count, NEW d \in Ids, d \notin seen, NewEdge(d)
    PROVE  /\ IdAt(i) \in Ids /\ d \notin In(IdAt(i))
           /\ \A y \in Ids : In(y)' = IF y = IdAt(i) THEN In(y) \cup {d} ELSE In(y)
<1> DEFINE x == IdAt(i)
<1>1. Count \in Nat /\ x \in Ids
  BY DeclarationTypes DEF TypeInv
<1>2. seen = Found(i) /\ In(x) = Found(i)
  BY <1>1 DEF EdgeInv, Indexed
<1>3. /\ adjacency'[d] = Append(adjacency[d], x)
      /\ \A e \in Ids : e # d => adjacency'[e] = adjacency[e]
  BY <1>1 DEF NewEdge, TypeInv
<1>4. adjacency[d] \in Seq(Ids)
  BY DEF TypeInv
<1>5. Range(adjacency'[d]) = Range(adjacency[d]) \cup {x}
  BY <1>1, <1>3, <1>4, RangeOfAppend
<1>6. \A y \in Ids : In(y)' = IF y = x THEN In(y) \cup {d} ELSE In(y)
  BY <1>1, <1>3, <1>5 DEF In
<1> QED BY <1>1, <1>2, <1>6

\* The edges are those of the dependencies looked at, one for each.
LEMMA EdgeStep ==
    ASSUME TypeInv, LookupInv, EdgeInv, [Next]_vars, TypeInv'
    PROVE  EdgeInv'
<1>0. Count \in Nat /\ i \in 1 .. Count + 1 /\ j \in Nat \ {0} /\ 1 .. Count \subseteq Nat
  BY DeclarationTypes DEF TypeInv
<1>1. CASE UNCHANGED <<steps, adjacency>>
  <2>0. /\ \A x : In(x)' = In(x)
        /\ Declared' = Declared /\ Count' = Count
        /\ \A k \in 1 .. Count : IdAt(k)' = IdAt(k) /\ DepsAt(k)' = DepsAt(k)
    BY <1>1 DEF In, Declared, Count, IdAt, DepsAt
  <2>1. /\ \A d \in Ids : \A p, q \in DOMAIN adjacency'[d] : adjacency'[d][p] = adjacency'[d][q] => p = q
        /\ \A x \in Ids \ Declared' : In(x)' = {}
        /\ \A x \in Ids : In(x)' \subseteq Declared'
    BY <1>1, <2>0 DEF EdgeInv
  <2>2. CASE phase' = "index"
    <3>1. phase = "index"
      BY <2>2 DEF Next, vars, IndexStep, EndIndex, AddEdge, EndEdgesOfStep, EndEdges, SeedQueue, EndSeed,
                  PopFront, ReleaseChild, EndChildren, Return, NextDependency
    <3> QED BY <2>0, <2>1, <2>2, <3>1 DEF EdgeInv, Indexed
  <2>3. CASE phase' # "index" /\ ~ Indexed'
    BY <2>1, <2>3 DEF EdgeInv, Indexed
  <2>4. CASE Indexed' /\ phase' # "edges"
    <3>1. Indexed /\ \A k \in 1 .. Count : Found(k) = DepsAt(k)
      BY <1>0, <2>4 DEF Next, vars, IndexStep, EndIndex, AddEdge, EndEdgesOfStep, EndEdges, SeedQueue, EndSeed,
                  PopFront, ReleaseChild, EndChildren, Return, NextDependency, Indexed, Found
    <3>2. \A k \in 1 .. Count : Found(k)' = DepsAt(k)'
      BY <2>4 DEF Found
    <3>3. \A k \in 1 .. Count : In(IdAt(k)) = DepsAt(k)
      BY <3>1 DEF EdgeInv
    <3>4. \A k \in 1 .. Count' : In(IdAt(k))' = Found(k)'
      BY <2>0, <3>2, <3>3
    <3> QED BY <2>1, <2>4, <3>4 DEF EdgeInv, Indexed
  <2>5. CASE phase' = "edges"
    <3> SUFFICES /\ \A k \in 1 .. Count : In(IdAt(k)) = Found(k)'
                 /\ \A k \in 1 .. Count : k = i' => seen' = Found(k)'
      <4>1. (i <= Count)' => i' \in 1 .. Count
        BY <1>0, <2>0 DEF TypeInv
      <4>2. (\A k \in 1 .. Count : In(IdAt(k)) = Found(k))'
        BY <2>0
      <4>3. (i <= Count => seen = Found(i))'
        BY <1>0, <2>0, <4>1
      <4> QED BY <2>1, <2>5, <4>2, <4>3 DEF EdgeInv, Indexed
    <3>1. CASE EndIndex
      <4>1. /\ i' = 1 /\ j' = 1 /\ seen' = {} /\ phase = "index" /\ UNCHANGED steps
        BY <3>1 DEF EndIndex
      <4>2. \A k \in 1 .. Count : Found(k)' = {}
        <5> SUFFICES ASSUME NEW k \in 1 .. Count PROVE Found(k)' = {}
          OBVIOUS
        <5>1. CASE k > 1
          BY <1>0, <2>5, <4>1, <5>1 DEF Found
        <5>2. CASE k = 1
          <6>1. 1 .. (j' - 1) = {}
            BY <4>1
          <6>2. Found(k)' = {steps'[k].deps[p] : p \in 1 .. (j' - 1)}
            BY <2>5, <4>1, <5>2 DEF Found
          <6> QED BY <6>1, <6>2
        <5> QED BY <1>0, <5>1, <5>2
      <4>3. \A k \in 1 .. Count : In(IdAt(k)) = {}
        BY <4>1, DeclarationTypes DEF EdgeInv, TypeInv
      <4> QED BY <1>0, <4>1, <4>2, <4>3
    <3>2. CASE EndEdgesOfStep
      <4>1. /\ phase = "edges" /\ i \in 1 .. Count /\ j > Len(steps[i].deps) /\ j <= Len(steps[i].deps) + 1
            /\ i' = i + 1 /\ j' = 1 /\ seen' = {} /\ Len(steps[i].deps) \in Nat
        BY <1>0, <3>2, DeclarationTypes DEF EndEdgesOfStep, TypeInv
      <4>2. Found(i) = DepsAt(i)
        <5>1. j - 1 = Len(steps[i].deps)
          BY <1>0, <4>1
        <5>2. Found(i) = {steps[i].deps[p] : p \in 1 .. (j - 1)}
          BY <1>0, <4>1 DEF Found
        <5>3. DepsAt(i) = {steps[i].deps[p] : p \in 1 .. Len(steps[i].deps)}
          BY <4>1, DeclarationTypes DEF TypeInv
        <5> QED BY <5>1, <5>2, <5>3
      <4>3. \A k \in 1 .. Count : Found(k)' = Found(k)
        <5> SUFFICES ASSUME NEW k \in 1 .. Count PROVE Found(k)' = Found(k)
          OBVIOUS
        <5>1. CASE k < i
          <6>1. Found(k)' = DepsAt(k)' /\ Found(k) = DepsAt(k)
            BY <1>0, <4>1, <5>1 DEF Found
          <6> QED BY <2>0, <6>1
        <5>2. CASE k = i
          <6>1. Found(k)' = DepsAt(k)'
            BY <1>0, <4>1, <5>2 DEF Found
          <6> QED BY <2>0, <4>2, <5>2, <6>1
        <5>3. CASE k = i + 1
          <6>1. 1 .. (j' - 1) = {}
            BY <4>1
          <6>2. Found(k)' = {steps'[k].deps[p] : p \in 1 .. (j' - 1)}
            BY <2>5, <4>1, <5>3 DEF Found
          <6>3. Found(k) = {}
            BY <1>0, <4>1, <5>3 DEF Found
          <6> QED BY <6>1, <6>2, <6>3
        <5>4. CASE k > i + 1
          BY <1>0, <2>5, <4>1, <5>4 DEF Found
        <5> QED BY <1>0, <5>1, <5>2, <5>3, <5>4
      <4>4. \A k \in 1 .. Count : In(IdAt(k)) = Found(k)
        BY <4>1 DEF EdgeInv, Indexed
      <4>5. \A k \in 1 .. Count : k = i' => Found(k)' = {}
        <5>1. \A k \in 1 .. Count : k = i + 1 => Found(k) = {}
          BY <1>0, <4>1 DEF Found
        <5> QED BY <4>1, <4>3, <5>1
      <4> QED BY <4>1, <4>3, <4>4, <4>5
    <3>3. CASE AddEdge
      <4> DEFINE d == steps[i].deps[j]
      <4>2. /\ phase = "edges" /\ i \in 1 .. Count /\ j \in 1 .. Len(steps[i].deps)
            /\ d \in seen /\ j' = j + 1 /\ UNCHANGED <<seen, i>>
        <5>1. i \in 1 .. Count
          BY <1>0, <3>3 DEF AddEdge
        <5>2. Len(steps[i].deps) \in Nat
          BY <5>1, DeclarationTypes DEF TypeInv
        <5>3. j \in 1 .. Len(steps[i].deps)
          BY <1>0, <3>3, <5>2 DEF AddEdge
        <5>4. \/ phase' \in {"unknown", "self"}
              \/ d \in seen /\ j' = j + 1 /\ UNCHANGED seen
              \/ d \notin seen /\ NewEdge(d)
          BY <3>3 DEF AddEdge, NextDependency
        <5>5. ~ NewEdge(d)
          <6>1. d \in Ids /\ IdAt(i) \in Ids
            BY <5>1, <5>3, DeclarationTypes DEF TypeInv
          <6>2. adjacency[d] \in Seq(Ids)
            BY <6>1 DEF TypeInv
          <6>3. Len(Append(adjacency[d], IdAt(i))) = Len(adjacency[d]) + 1 /\ Len(adjacency[d]) \in Nat
            BY <6>1, <6>2, RangeOfAppend, LenProperties
          <6>4. NewEdge(d) => adjacency'[d] = Append(adjacency[d], IdAt(i))
            BY <6>1 DEF NewEdge, TypeInv
          <6> QED BY <1>1, <6>3, <6>4
        <5> QED BY <2>5, <3>3, <5>1, <5>3, <5>4, <5>5 DEF AddEdge
      <4>3. Found(i)' = Found(i) \cup {d}
        <5>1. 1 .. (j' - 1) = 1 .. (j - 1) \cup {j}
          BY <1>0, <4>2
        <5>2. Found(i)' = {steps[i].deps[p] : p \in 1 .. (j' - 1)}
          BY <1>0, <1>1, <2>5, <4>2 DEF Found
        <5>3. Found(i) = {steps[i].deps[p] : p \in 1 .. (j - 1)}
          BY <1>0, <4>2 DEF Found
        <5> QED BY <5>1, <5>2, <5>3
      <4>4. seen = Found(i) /\ \A k \in 1 .. Count : In(IdAt(k)) = Found(k)
        BY <1>0, <4>2 DEF EdgeInv, Indexed
      <4>5. \A k \in 1 .. Count : k # i => Found(k)' = Found(k)
        BY <1>1, <2>0, <2>5, <4>2 DEF Found
      <4> QED BY <4>2, <4>3, <4>4, <4>5
    <3>4. CASE UNCHANGED vars
      <4>1. \A k : Found(k)' = Found(k)
        BY <3>4 DEF vars, Found, DepsAt
      <4> QED BY <2>5, <3>4, <4>1 DEF vars, EdgeInv, Indexed, Count
    <3> QED BY <2>5, <3>1, <3>2, <3>3, <3>4
            DEF Next, IndexStep, EndEdges, SeedQueue, EndSeed, PopFront, ReleaseChild, EndChildren, Return
  <2> QED BY <2>2, <2>3, <2>4, <2>5
<1>2. CASE /\ AddEdge /\ steps[i].deps[j] \in Declared \ (seen \cup {IdAt(i)})
           /\ seen' = seen \cup {steps[i].deps[j]} /\ NewEdge(steps[i].deps[j])
           /\ NextDependency /\ UNCHANGED phase
  <2> DEFINE d == steps[i].deps[j]
             x == IdAt(i)
  <2>1. i \in 1 .. Count /\ phase = "edges" /\ UNCHANGED <<steps, i, phase>> /\ j' = j + 1
    BY <1>0, <1>2 DEF AddEdge, NextDependency
  <2>2. Len(steps[i].deps) \in Nat /\ x \in Ids /\ x \in Declared
    BY <2>1, DeclarationTypes DEF TypeInv
  <2>3. j \in 1 .. Len(steps[i].deps)
    BY <1>0, <1>2, <2>2 DEF AddEdge
  <2>4. d \in Ids /\ d \in Declared /\ d \notin seen
    BY <1>2, <2>1, <2>3, DeclarationTypes DEF TypeInv
  <2>5. /\ adjacency'[d] = Append(adjacency[d], x)
        /\ \A e \in Ids : e # d => adjacency'[e] = adjacency[e]
    BY <1>2, <2>4 DEF NewEdge, TypeInv
  <2>6. /\ seen = Found(i) /\ \A k \in 1 .. Count : In(IdAt(k)) = Found(k)
    BY <1>0, <2>1 DEF EdgeInv, Indexed
  <2>7. d \notin In(x) /\ \A y \in Ids : In(y)' = IF y = x THEN In(y) \cup {d} ELSE In(y)
    BY <1>2, <2>1, <2>4, EdgeAdded
  <2>9. \A p, q \in DOMAIN adjacency'[d] : adjacency'[d][p] = adjacency'[d][q] => p = q
    <3>1. adjacency[d] \in Seq(Ids)
      BY <2>4 DEF TypeInv
    <3>2. \A p \in 1 .. Len(adjacency[d]) : adjacency[d][p] # x
      BY <2>2, <2>4, <2>7, EdgePlaces
    <3> DEFINE old == adjacency[d]
               new == adjacency'[d]
    <3>3. /\ Len(old) \in Nat /\ DOMAIN old = 1 .. Len(old)
          /\ \A p, q \in DOMAIN old : old[p] = old[q] => p = q
      BY <2>4, <3>1, ElementsOf DEF EdgeInv
    <3>4. /\ new \in Seq(Ids) /\ Len(new) = Len(old) + 1 /\ new[Len(old) + 1] = x
          /\ \A p \in 1 .. Len(old) : new[p] = old[p]
      BY <2>2, <2>5, <3>1, RangeOfAppend
    <3>5. DOMAIN new = 1 .. Len(new)
      BY <3>4, ElementsOf
    <3>6. \A p \in 1 .. Len(old) : old[p] # x
      BY <3>2
    <3> HIDE DEF old, new
    <3>7. DOMAIN new = DOMAIN old \cup {Len(old) + 1}
      BY <3>3, <3>4, <3>5
    <3>8. \A p, q \in DOMAIN new : new[p] = new[q] => p = q
      BY <3>3, <3>4, <3>6, <3>7
    <3> QED BY <3>8 DEF new
  <2>10. /\ Declared' = Declared /\ Count' = Count
         /\ \A k \in 1 .. Count : IdAt(k)' = IdAt(k) /\ DepsAt(k)' = DepsAt(k)
    BY <2>1 DEF Declared, Count, IdAt, DepsAt
  <2>11. \A k \in 1 .. Count : Found(k)' = IF k = i THEN Found(k) \cup {d} ELSE Found(k)
    <3> SUFFICES ASSUME NEW k \in 1 .. Count
                 PROVE  Found(k)' = IF k = i THEN Found(k) \cup {d} ELSE Found(k)
      OBVIOUS
    <3>1. CASE k = i
      <4>1. 1 .. (j' - 1) = 1 .. (j - 1) \cup {j}
        BY <1>0, <2>1
      <4>2. Found(k)' = {steps[k].deps[p] : p \in 1 .. (j' - 1)}
        BY <1>0, <2>1, <3>1 DEF Found
      <4>3. Found(k) = {steps[k].deps[p] : p \in 1 .. (j - 1)}
        BY <1>0, <2>1, <3>1 DEF Found
      <4> QED BY <3>1, <4>1, <4>2, <4>3
    <3>2. CASE k # i
      BY <2>1, <2>10, <3>2 DEF Found
    <3> QED BY <3>1, <3>2
  <2>12. \A k \in 1 .. Count : In(IdAt(k))' = Found(k)'
    <3> SUFFICES ASSUME NEW k \in 1 .. Count PROVE In(IdAt(k))' = Found(k)'
      OBVIOUS
    <3>1. IdAt(k) = x <=> k = i
      BY <2>1 DEF LookupInv, Indexed, DistinctUpTo
    <3>2. IdAt(k) \in Ids /\ IdAt(k)' = IdAt(k)
      BY <2>10, DeclarationTypes DEF TypeInv
    <3>3. In(IdAt(k))' = IF k = i THEN In(IdAt(k)) \cup {d} ELSE In(IdAt(k))
      BY <2>1, <2>7, <3>1, <3>2 DEF In
    <3> QED BY <2>6, <2>11, <3>3
  <2>13. (\A e \in Ids : \A p, q \in DOMAIN adjacency[e] : adjacency[e][p] = adjacency[e][q] => p = q)'
    BY <2>5, <2>9 DEF EdgeInv
  <2>14. (\A y \in Ids \ Declared : In(y) = {})' /\ (\A y \in Ids : In(y) \subseteq Declared)'
    BY <2>2, <2>4, <2>7, <2>10 DEF EdgeInv
  <2>15. seen' = Found(i)'
    BY <1>2, <2>1, <2>6, <2>11
  <2> QED BY <2>1, <2>10, <2>12, <2>13, <2>14, <2>15 DEF EdgeInv, Indexed
<1> QED BY <1>1, <1>2
        DEF Next, IndexStep, EndIndex, AddEdge, EndEdgesOfStep, EndEdges, SeedQueue, EndSeed, PopFront,
            ReleaseChild, EndChildren, Return, vars

\* The step being attended to is the last that was ordered.
LEMMA CurrentProperties ==
    ASSUME TypeInv, ordered # <<>>
    PROVE  Current \in Ids /\ Current \in Range(ordered) /\ Len(ordered) \in Nat \ {0}
<1>1. ordered \in Seq(Ids)
  BY DEF TypeInv
<1>2. Len(ordered) \in 1 .. Len(ordered) /\ Len(ordered) \in Nat \ {0}
  BY <1>1, EmptySeq
<1>3. ordered[Len(ordered)] \in Ids /\ ordered[Len(ordered)] \in Range(ordered)
  BY <1>1, <1>2, ElementsOf
<1> QED BY <1>2, <1>3 DEF Current

\* One place in line holds no two steps, and a popped step was not ordered.
LEMMA PoppedIsNew ==
    ASSUME TypeInv, LineInv, queue # <<>>
    PROVE  Head(queue) \in Ids /\ Head(queue) \notin Range(ordered)
<1>1. ordered \in Seq(Ids) /\ queue \in Seq(Ids)
  BY DEF TypeInv
<1>2. Head(queue) \in Ids
  BY <1>1, HeadTailProperties
<1>3. /\ Len(ordered) \in Nat /\ Len(queue) \in Nat \ {0} /\ Head(queue) = queue[1]
      /\ \A x \in Range(ordered) : \E p \in 1 .. Len(ordered) : ordered[p] = x
  BY <1>1, ElementsOf, EmptySeq
<1>4. /\ Line \in Seq(Ids) /\ Len(Line) = Len(ordered) + Len(queue)
      /\ \A p \in 1 .. Len(ordered) + Len(queue) :
             Line[p] = IF p <= Len(ordered) THEN ordered[p] ELSE queue[p - Len(ordered)]
  BY <1>1, ConcatProperties DEF Line
<1>5. DOMAIN Line = 1 .. Len(ordered) + Len(queue)
  BY <1>4, ElementsOf
<1>6. Line[Len(ordered) + 1] = queue[1] /\ Len(ordered) + 1 \in DOMAIN Line
  <2>1. (Len(ordered) + 1) - Len(ordered) = 1
    BY <1>3
  <2> QED BY <1>3, <1>4, <1>5, <2>1
<1>7. \A p \in 1 .. Len(ordered) : p \in DOMAIN Line /\ Line[p] = ordered[p]
  BY <1>3, <1>4, <1>5
<1>8. \A p \in 1 .. Len(ordered) : ordered[p] # queue[1]
  BY <1>3, <1>6, <1>7 DEF LineInv
<1> QED BY <1>2, <1>3, <1>8

\* What x waits for, after each step of the planner.
LEMMA WaitsStep ==
    ASSUME TypeInv, LookupInv, EdgeInv, LineInv, QueueInv, [Next]_vars,
           ~ (ReleaseChild \/ AddEdge)
    PROVE  UNCHANGED inDegree /\ \A x \in Ids : Waits(x)' = Waits(x)
<1>0. UNCHANGED <<inDegree, adjacency>> /\ \A x : In(x)' = In(x)
  BY DEF Next, vars, IndexStep, EndIndex, EndEdgesOfStep, EndEdges, SeedQueue, EndSeed, PopFront,
         EndChildren, Return, In
<1> SUFFICES ASSUME NEW x \in Ids
             PROVE  Waits(x)' = Waits(x)
  BY <1>0
<1>1. CASE UNCHANGED ordered /\ phase # "children" /\ phase' # "children"
  BY <1>0, <1>1 DEF Waits, Released
<1>2. CASE PopFront
  <2>1. /\ Head(queue) \in Ids /\ Head(queue) \notin Range(ordered)
        /\ ordered \in Seq(Ids) /\ ordered' = Append(ordered, Head(queue))
        /\ j' = 1 /\ phase = "pop" /\ phase' = "children"
    BY <1>2, PoppedIsNew DEF PopFront, TypeInv
  <2>2. /\ Range(ordered') = Range(ordered) \cup {Head(queue)}
        /\ ordered'[Len(ordered')] = Head(queue)
    BY <2>1, RangeOfAppend
  <2>3. Current' = Head(queue)
    BY <2>2 DEF Current
  <2>4. 1 .. (j' - 1) = {}
    BY <2>1
  <2>5. \A d : Released(d, x)' <=> Released(d, x)
    BY <2>1, <2>2, <2>3, <2>4 DEF Released
  <2> QED BY <1>0, <2>5 DEF Waits
<1>3. CASE EndChildren
  <2>1. /\ UNCHANGED <<ordered, adjacency, j>> /\ phase = "children" /\ phase' = "pop"
        /\ j > Len(adjacency[Current]) /\ Current \in Ids /\ Current \in Range(ordered) /\ j \in Nat
    BY <1>3, CurrentProperties DEF EndChildren, TypeInv
  <2>2. \A d \in In(x) : Released(d, x)' <=> Released(d, x)
    <3> SUFFICES ASSUME NEW d \in In(x), d \in Range(ordered)
                 PROVE  Released(d, x)' /\ Released(d, x)
      BY <2>1 DEF Released
    <3>1. Released(d, x)'
      BY <2>1 DEF Released
    <3>2. CASE d = Current
      <4>1. \E p \in 1 .. Len(adjacency[d]) : adjacency[d][p] = x
        BY <3>2, <2>1, EdgePlaces
      <4>2. \E p \in 1 .. (j - 1) : adjacency[d][p] = x
        BY <2>1, <3>2, <4>1, EdgePlaces
      <4> QED BY <3>1, <4>2 DEF Released
    <3>3. CASE d # Current
      BY <3>1, <3>3 DEF Released
    <3> QED BY <3>2, <3>3
  <2> QED BY <1>0, <2>2 DEF Waits
<1>4. CASE UNCHANGED vars
  BY <1>4 DEF vars, Waits, In, Released, Current
<1> QED BY <1>1, <1>2, <1>3, <1>4
        DEF Next, IndexStep, EndIndex, EndEdgesOfStep, EndEdges, SeedQueue, EndSeed, Return

\* x waits for one step more or less, and its in-degree says so.
LEMMA CountChanges ==
    ASSUME TypeInv, CountInv, NEW x \in Ids, NEW d
    PROVE  /\ d \notin Waits(x) => /\ IsFiniteSet(Waits(x) \cup {d})
                                   /\ Cardinality(Waits(x) \cup {d}) = inDegree[x] + 1
           /\ d \in Waits(x) => /\ IsFiniteSet(Waits(x) \ {d})
                                /\ Cardinality(Waits(x) \ {d}) = inDegree[x] - 1
<1>1. IsFiniteSet(Waits(x)) /\ inDegree[x] = Cardinality(Waits(x))
  BY DEF CountInv
<1> DEFINE W == Waits(x)
<1> HIDE DEF W
<1>2. IsFiniteSet(W) => /\ IsFiniteSet(W \cup {d})
                        /\ Cardinality(W \cup {d}) = IF d \in W THEN Cardinality(W) ELSE Cardinality(W) + 1
  BY FS_AddElement
<1>3. IsFiniteSet(W) => /\ IsFiniteSet(W \ {d})
                        /\ Cardinality(W \ {d}) = IF d \in W THEN Cardinality(W) - 1 ELSE Cardinality(W)
  BY FS_RemoveElement
<1> QED BY <1>1, <1>2, <1>3 DEF W

\* A new edge is counted by the in-degree of the step at hand (NewEdge).
LEMMA CountOfEdge ==
    ASSUME TypeInv, EdgeInv, CountInv, QueueInv, AddEdge
    PROVE  CountInv'
<1>1. ordered = <<>> /\ ordered' = <<>> /\ phase = "edges" /\ Range(ordered) = {} /\ Range(ordered') = {}
  BY NobodyReleased DEF AddEdge, QueueInv, Sorting
<1>2. \A x : Waits(x) = In(x) /\ Waits(x)' = In(x)'
  BY <1>1 DEF Waits, Released
<1> DEFINE d == steps[i].deps[j]
<1>3. CASE UNCHANGED <<adjacency, inDegree>>
  <2>1. \A x : In(x)' = In(x)
    BY <1>3 DEF In
  <2> QED BY <1>2, <1>3, <2>1 DEF CountInv
<1>4. CASE d \notin seen /\ NewEdge(d)
  <2>1. i \in 1 .. Count /\ d \in Ids
    <3>1. i \in 1 .. Count
      BY DeclarationTypes DEF AddEdge, TypeInv
    <3>2. Len(steps[i].deps) \in Nat
      BY <3>1, DeclarationTypes DEF TypeInv
    <3>3. j \in 1 .. Len(steps[i].deps)
      BY <3>2 DEF AddEdge, TypeInv
    <3> QED BY <3>1, <3>3, DeclarationTypes DEF TypeInv
  <2> DEFINE x == IdAt(i)
  <2>2. /\ x \in Ids /\ d \notin In(x)
        /\ \A y \in Ids : In(y)' = IF y = x THEN In(y) \cup {d} ELSE In(y)
    BY <1>1, <1>4, <2>1, EdgeAdded
  <2>3. \A y \in Ids : inDegree'[y] = IF y = x THEN inDegree[y] + 1 ELSE inDegree[y]
    BY <1>4, <2>2 DEF NewEdge, TypeInv
  <2>4. IsFiniteSet(Waits(x) \cup {d}) /\ Cardinality(Waits(x) \cup {d}) = inDegree[x] + 1
    BY <1>2, <2>2, CountChanges
  <2>5. \A y \in Ids : Waits(y)' = IF y = x THEN Waits(y) \cup {d} ELSE Waits(y)
    BY <1>2, <2>2
  <2> HIDE DEF d, x
  <2> QED BY <2>2, <2>3, <2>4, <2>5 DEF CountInv
<1> QED BY <1>3, <1>4 DEF AddEdge

\* The child that is released is a step.
LEMMA ChildInIds ==
    ASSUME TypeInv, ReleaseChild
    PROVE  /\ adjacency[Current][j] \in Ids /\ j \in 1 .. Len(adjacency[Current])
           /\ Len(adjacency[Current]) \in Nat /\ DOMAIN adjacency[Current] = 1 .. Len(adjacency[Current])
<1>1. j \in Nat \ {0} /\ j <= Len(adjacency[Current]) /\ Current \in Ids
  BY CurrentProperties DEF ReleaseChild, TypeInv
<1>2. adjacency[Current] \in Seq(Ids)
  BY <1>1 DEF TypeInv
<1> QED BY <1>1, <1>2, ElementsOf

\* Releasing a child takes the step that was just ordered from what it waits for.
LEMMA ChildReleased ==
    ASSUME TypeInv, EdgeInv, ReleaseChild, NEW child, child = adjacency[Current][j]
    PROVE  /\ child \in Ids /\ Current \in Waits(child) /\ Current \in Range(ordered)
           /\ Waits(child)' = Waits(child) \ {Current}
           /\ \A x \in Ids : x # child => Waits(x)' = Waits(x)
<1>1. /\ UNCHANGED <<ordered, adjacency, phase>> /\ phase = "children" /\ j' = j + 1 /\ j \in Nat \ {0}
      /\ Current \in Ids /\ Current \in Range(ordered)
  BY CurrentProperties DEF ReleaseChild, TypeInv
<1>3. /\ Len(adjacency[Current]) \in Nat /\ DOMAIN adjacency[Current] = 1 .. Len(adjacency[Current])
      /\ j \in 1 .. Len(adjacency[Current]) /\ child \in Ids
  BY ChildInIds
<1>4. Current \in In(child)
  BY <1>1, <1>3, EdgePlaces
<1>5. \A p \in 1 .. (j - 1) : adjacency[Current][p] # child
  <2> SUFFICES ASSUME NEW p \in 1 .. (j - 1), adjacency[Current][p] = adjacency[Current][j] PROVE FALSE
    OBVIOUS
  <2>1. p \in DOMAIN adjacency[Current] /\ j \in DOMAIN adjacency[Current] /\ p # j
    BY <1>1, <1>3
  <2> QED BY <1>1, <2>1 DEF EdgeInv
<1>6. Current \in Waits(child)
  BY <1>1, <1>4, <1>5 DEF Waits, Released
<1>7. 1 .. (j' - 1) = 1 .. (j - 1) \cup {j}
  BY <1>1
<1>8. Current' = Current /\ \A x : In(x)' = In(x)
  BY <1>1 DEF Current, In
<1>9. \A d, x \in Ids : Released(d, x)' <=> Released(d, x) \/ (d = Current /\ x = child)
  BY <1>1, <1>7, <1>8 DEF Released
<1>10. \A x \in Ids : Waits(x) \subseteq Ids /\ Waits(x)' \subseteq Ids
  BY DEF Waits, In
<1>11. \A x, d \in Ids : d \in Waits(x)' <=> d \in Waits(x) /\ ~ (d = Current /\ x = child)
  BY <1>8, <1>9 DEF Waits
<1>12. \A x \in Ids : Waits(x)' = IF x = child THEN Waits(x) \ {Current} ELSE Waits(x)
  BY <1>10, <1>11
<1> QED BY <1>1, <1>3, <1>6, <1>12

\* Releasing a child is counted by its in-degree (ReleaseChild).
LEMMA CountOfRelease ==
    ASSUME TypeInv, EdgeInv, CountInv, ReleaseChild
    PROVE  CountInv'
<1>1. PICK child \in Ids : child = adjacency[Current][j]
  BY ChildInIds
<1>2. /\ Current \in Waits(child) /\ Waits(child)' = Waits(child) \ {Current}
      /\ \A x \in Ids : x # child => Waits(x)' = Waits(x)
  BY <1>1, ChildReleased
<1>3. IsFiniteSet(Waits(child) \ {Current}) /\ Cardinality(Waits(child) \ {Current}) = inDegree[child] - 1
  BY <1>2, CountChanges
<1>4. inDegree' = [inDegree EXCEPT ![child] = @ - 1]
  BY <1>1 DEF ReleaseChild
<1>5. \A y \in Ids : inDegree'[y] = IF y = child THEN inDegree[y] - 1 ELSE inDegree[y]
  BY <1>4 DEF TypeInv
<1> QED BY <1>2, <1>3, <1>5 DEF CountInv

\* The in-degree of a step is the number of the steps it waits for.
LEMMA CountStep ==
    ASSUME TypeInv, LookupInv, EdgeInv, CountInv, LineInv, QueueInv, [Next]_vars
    PROVE  CountInv'
<1>1. CASE ~ (ReleaseChild \/ AddEdge)
  BY <1>1, WaitsStep DEF CountInv
<1> QED BY <1>1, CountOfEdge, CountOfRelease

\* Nobody waits for nothing while its in-degree is not zero.
LEMMA ZeroMeansReady ==
    ASSUME CountInv, NEW x \in Ids
    PROVE  inDegree[x] = 0 <=> Waits(x) = {}
BY FS_EmptySet DEF CountInv

-----------------------------------------------------------------------------
(* The line of the ordered and the queued *)

\* Whoever joins the line for the first time, behind all it depends on.
LEMMA LineGrows ==
    ASSUME TypeInv, LineInv, NEW x \in Ids, x \notin Range(Line), In(x) \subseteq Range(Line),
           UNCHANGED <<ordered, adjacency>>, queue' = Append(queue, x)
    PROVE  LineInv' /\ Range(Line)' = Range(Line) \cup {x}
<1>1. queue \in Seq(Ids) /\ ordered \in Seq(Ids)
  BY DEF TypeInv
<1>2. Line' = Append(Line, x) /\ Line \in Seq(Ids)
  BY <1>1, JoinExtendsLine, LineProperties DEF Line
<1> DEFINE L == Line
           M == Append(L, x)
<1>3. /\ M \in Seq(Ids) /\ Len(M) = Len(L) + 1 /\ M[Len(L) + 1] = x
      /\ \A p \in 1 .. Len(L) : M[p] = L[p]
      /\ Range(M) = Range(L) \cup {x}
  BY <1>2, RangeOfAppend
<1>4. /\ DOMAIN L = 1 .. Len(L) /\ Len(L) \in Nat
      /\ \A p \in 1 .. Len(L) : L[p] \in Range(L)
      /\ \A y \in Range(L) : \E p \in 1 .. Len(L) : L[p] = y
  BY <1>2, ElementsOf
<1>5. DOMAIN M = 1 .. Len(L) + 1
  BY <1>3, ElementsOf
<1>6. /\ \A p, q \in DOMAIN L : L[p] = L[q] => p = q
      /\ \A p \in DOMAIN L : \A d \in In(L[p]) : \E q \in 1 .. (p - 1) : L[q] = d
      /\ x \notin Range(L) /\ In(x) \subseteq Range(L)
  BY DEF LineInv
<1>7. \A y : In(y)' = In(y)
  BY DEF In
<1> HIDE DEF L, M
<1>8. DOMAIN M = DOMAIN L \cup {Len(L) + 1}
  BY <1>4, <1>5
<1>9. \A p, q \in DOMAIN M : M[p] = M[q] => p = q
  BY <1>3, <1>4, <1>6, <1>8
<1>10. \A p \in DOMAIN M : \A d \in In(M[p]) : \E q \in 1 .. (p - 1) : M[q] = d
  <2> SUFFICES ASSUME NEW p \in DOMAIN M, NEW d \in In(M[p])
               PROVE  \E q \in 1 .. (p - 1) : M[q] = d
    OBVIOUS
  <2>1. CASE p \in DOMAIN L
    <3>1. PICK q \in 1 .. (p - 1) : L[q] = d
      BY <1>3, <1>4, <1>6, <2>1
    <3> QED BY <1>3, <1>4, <2>1, <3>1
  <2>2. CASE p = Len(L) + 1
    <3>1. PICK q \in 1 .. Len(L) : L[q] = d
      BY <1>3, <1>4, <1>6, <2>2
    <3> QED BY <1>3, <1>4, <2>2, <3>1
  <2> QED BY <1>8, <2>1, <2>2
<1>11. Line' = M
  BY <1>2 DEF L, M
<1>12. LineInv'
  <2>1. \A p, q \in DOMAIN Line' : Line'[p] = Line'[q] => p = q
    BY <1>9, <1>11
  <2>2. \A p \in DOMAIN Line' : \A d \in {e \in Ids : Line'[p] \in Range(adjacency[e])} :
            \E q \in 1 .. (p - 1) : Line'[q] = d
    BY <1>10, <1>11 DEF In
  <2> QED BY <2>1, <2>2 DEF LineInv, In
<1> QED BY <1>3, <1>11, <1>12 DEF L

\* The line keeps as it is, and so do the edges.
LEMMA LineStays ==
    ASSUME LineInv, UNCHANGED <<Line, adjacency>>
    PROVE  LineInv'
<1>1. \A p \in DOMAIN Line : \A d \in {e \in Ids : Line[p] \in Range(adjacency[e])} :
          \E q \in 1 .. (p - 1) : Line[q] = d
  BY DEF LineInv, In
<1> QED BY <1>1 DEF LineInv, In

\* The step about to be seeded is not in line, and waits for whatever it depends on.
LEMMA SeedIsNew ==
    ASSUME TypeInv, LookupInv, QueueInv, SeedQueue
    PROVE  /\ i \in 1 .. Count /\ IdAt(i) \in Ids /\ IdAt(i) \in Declared
           /\ IdAt(i) \notin Range(Line)
           /\ \A k \in 1 .. (i - 1) : k \in 1 .. Count /\ IdAt(k) # IdAt(i)
<1>1. i \in 1 .. Count /\ Count \in Nat /\ phase = "seed"
  BY DeclarationTypes DEF SeedQueue, TypeInv
<1>2. \A k \in 1 .. (i - 1) : k \in 1 .. Count /\ IdAt(k) # IdAt(i)
  BY <1>1 DEF LookupInv, Indexed, DistinctUpTo
<1>3. IdAt(i) \notin Range(Line)
  BY <1>1, <1>2 DEF QueueInv
<1> QED BY <1>1, <1>2, <1>3, DeclarationTypes DEF TypeInv

\* A child is released when the step just ordered was the last it waited for.
LEMMA ReleasedIsReady ==
    ASSUME TypeInv, EdgeInv, CountInv, QueueInv, ReleaseChild, NEW child, child = adjacency[Current][j]
    PROVE  /\ child \in Declared /\ child \notin Range(Line)
           /\ IsReleased(child) <=> Waits(child) \ {Current} = {}
           /\ IsReleased(child) => In(child) \subseteq Range(Line)
<1>1. /\ child \in Ids /\ Current \in Waits(child) /\ Current \in Range(ordered) /\ phase = "children"
  BY ChildReleased DEF ReleaseChild
<1>2. Current \in In(child)
  BY <1>1 DEF Waits
<1>3. child \in Declared
  BY <1>1, <1>2 DEF EdgeInv
<1>4. child \notin Range(Line)
  BY <1>1, <1>3 DEF QueueInv, Sorting
<1>5. IsFiniteSet(Waits(child) \ {Current}) /\ Cardinality(Waits(child) \ {Current}) = inDegree[child] - 1
  BY <1>1, CountChanges
<1>6. Cardinality(Waits(child) \ {Current}) = 0 <=> Waits(child) \ {Current} = {}
  BY <1>5, FS_EmptySet
<1>7. IsReleased(child) <=> Waits(child) \ {Current} = {}
  <2>1. inDegree[child] \in Int
    BY <1>1 DEF TypeInv
  <2>2. inDegree[child] = 1 <=> inDegree[child] - 1 = 0
    BY <2>1
  <2> QED BY <1>5, <1>6, <2>2 DEF IsReleased
<1>8. Waits(child) \ {Current} = {} => In(child) \subseteq Range(ordered)
  BY <1>1 DEF Waits, Released
<1>9. Range(ordered) \subseteq Range(Line)
  BY LineProperties DEF TypeInv
<1> QED BY <1>3, <1>4, <1>7, <1>8, <1>9

\* Nobody stands in line twice, and everybody behind what it depends on.
LEMMA LineStep ==
    ASSUME TypeInv, LookupInv, EdgeInv, CountInv, LineInv, QueueInv, [Next]_vars
    PROVE  LineInv'
<1>1. CASE UNCHANGED <<ordered, queue, adjacency>>
  <2>1. Line' = Line
    BY <1>1 DEF Line
  <2> QED BY <1>1, <2>1, LineStays
<1>2. CASE AddEdge
  <2>1. ordered' = <<>> /\ queue' = <<>>
    BY <1>2 DEF AddEdge, QueueInv, Sorting
  <2>2. Line' = <<>>
    BY <2>1, EmptySeq, ConcatEmptySeq DEF Line
  <2>3. DOMAIN Line' = {}
    BY <2>2, EmptySeq, LenProperties
  <2> QED BY <2>3 DEF LineInv
<1>3. CASE SeedQueue /\ ~ UNCHANGED queue
  <2>1. PICK x \in Ids : x = IdAt(i)
    BY <1>3, SeedIsNew
  <2>2. x \notin Range(Line) /\ queue' = Append(queue, x) /\ UNCHANGED <<ordered, adjacency>>
    BY <1>3, <2>1, SeedIsNew DEF SeedQueue
  <2>3. In(x) = {}
    BY <1>3, <2>1, ZeroMeansReady, NobodyReleased DEF SeedQueue, QueueInv, Sorting
  <2> QED BY <2>2, <2>3, LineGrows
<1>4. CASE PopFront
  <2>1. Line' = Line
    BY <1>4, PopKeepsLine DEF PopFront, Line, TypeInv
  <2> QED BY <1>4, <2>1, LineStays DEF PopFront
<1>5. CASE ReleaseChild /\ ~ UNCHANGED queue
  <2>1. PICK child \in Ids : child = adjacency[Current][j]
    BY <1>5, ChildInIds
  <2>2. queue' = Append(queue, child) /\ IsReleased(child) /\ UNCHANGED <<ordered, adjacency>>
    BY <1>5, <2>1 DEF ReleaseChild
  <2>3. child \notin Range(Line) /\ In(child) \subseteq Range(Line)
    BY <1>5, <2>1, <2>2, ReleasedIsReady
  <2> QED BY <2>2, <2>3, LineGrows
<1> QED BY <1>1, <1>2, <1>3, <1>4, <1>5
        DEF Next, IndexStep, EndIndex, EndEdgesOfStep, EndEdges, SeedQueue, EndSeed, ReleaseChild, EndChildren,
            Return, vars

\* In line stand exactly those that wait for nothing.
LEMMA QueueStep ==
    ASSUME TypeInv, LookupInv, EdgeInv, CountInv, LineInv, QueueInv, [Next]_vars
    PROVE  QueueInv'
<1>0. Count \in Nat /\ i \in 1 .. Count + 1
  BY DeclarationTypes DEF TypeInv
<1>1. CASE IndexStep \/ EndIndex \/ AddEdge \/ EndEdgesOfStep
  <2>1. ~ Sorting /\ phase # "seed" /\ ~ Sorting' /\ phase' # "seed" /\ UNCHANGED <<queue, ordered>>
    BY <1>1 DEF IndexStep, EndIndex, AddEdge, EndEdgesOfStep, Sorting
  <2> QED BY <2>1 DEF QueueInv, Sorting
<1>2. CASE EndEdges
  <2>1. queue' = <<>> /\ ordered' = <<>> /\ phase' = "seed" /\ i' = 1 /\ UNCHANGED steps
    BY <1>2 DEF EndEdges, QueueInv, Sorting
  <2>2. Line' = <<>>
    BY <2>1, EmptySeq, ConcatEmptySeq DEF Line
  <2>3. DOMAIN Line' = {}
    BY <2>2, EmptySeq, LenProperties
  <2>4. Range(Line)' = {} /\ 1 .. (i' - 1) = {}
    BY <2>1, <2>3 DEF Range
  <2> QED BY <2>1, <2>4 DEF QueueInv, Sorting
<1>3. CASE SeedQueue
  <2>1. /\ phase = "seed" /\ UNCHANGED <<steps, phase, ordered, adjacency>> /\ i' = i + 1
        /\ ordered = <<>> /\ i \in Nat
    BY <1>0, <1>3 DEF SeedQueue, QueueInv, Sorting
  <2>2. PICK x \in Ids : x = IdAt(i) /\ x \notin Range(Line)
    BY <1>3, SeedIsNew
  <2>3. \A k \in 1 .. (i - 1) : k \in 1 .. Count /\ IdAt(k) # x
    BY <1>3, <2>2, SeedIsNew
  <2>4. inDegree[x] = 0 <=> Waits(x) = {}
    BY ZeroMeansReady
  <2>5. Range(Line)' = IF Waits(x) = {} THEN Range(Line) \cup {x} ELSE Range(Line)
    <3>1. CASE Waits(x) = {}
      <4>1. queue' = Append(queue, x)
        BY <1>3, <2>2, <2>4, <3>1 DEF SeedQueue
      <4>2. In(x) = {}
        BY <2>1, <3>1, NobodyReleased
      <4> QED BY <2>1, <2>2, <3>1, <4>1, <4>2, LineGrows
    <3>2. CASE Waits(x) # {}
      BY <1>3, <2>1, <2>2, <2>4, <3>2 DEF SeedQueue, Line
    <3> QED BY <3>1, <3>2
  <2>6. \A k \in 1 .. i : IdAt(k) \in Ids /\ IdAt(k)' = IdAt(k) /\ Waits(IdAt(k))' = Waits(IdAt(k))
    <3> SUFFICES ASSUME NEW k \in 1 .. i
                 PROVE  IdAt(k) \in Ids /\ IdAt(k)' = IdAt(k) /\ Waits(IdAt(k))' = Waits(IdAt(k))
      OBVIOUS
    <3>1. k \in 1 .. Count /\ IdAt(k)' = IdAt(k)
      BY <1>3, <2>1, SeedIsNew DEF IdAt
    <3>2. PICK y \in Ids : y = IdAt(k)
      BY <3>1, DeclarationTypes DEF TypeInv
    <3>3. Waits(y)' = Waits(y)
      BY <1>3, <2>1, WaitsStep DEF ReleaseChild, AddEdge
    <3> QED BY <2>1, <3>1, <3>2, <3>3 DEF Waits, In, Released
  <2>7. 1 .. (i' - 1) = 1 .. (i - 1) \cup {i}
    BY <1>0, <2>1
  <2>8. /\ \A y \in Range(Line) : \E k \in 1 .. (i - 1) : y = IdAt(k)
        /\ \A k \in 1 .. (i - 1) : IdAt(k) \in Range(Line) <=> Waits(IdAt(k)) = {}
    BY <2>1 DEF QueueInv
  <2>9. \A y \in Range(Line)' : \E k \in 1 .. (i' - 1) : y = IdAt(k)'
    BY <2>1, <2>2, <2>5, <2>6, <2>7, <2>8
  <2>10. \A k \in 1 .. (i' - 1) : IdAt(k)' \in Range(Line)' <=> Waits(IdAt(k))' = {}
    BY <2>1, <2>2, <2>3, <2>5, <2>6, <2>7, <2>8
  <2> QED BY <2>1, <2>9, <2>10 DEF QueueInv, Sorting
<1>4. CASE EndSeed
  <2>1. /\ UNCHANGED <<Line, steps>> /\ phase = "seed" /\ phase' = "pop" /\ i = Count + 1
        /\ Declared' = Declared
    BY <1>0, <1>4 DEF EndSeed, Line, Declared, Count, IdAt
  <2>2. \A x \in Ids : Waits(x)' = Waits(x)
    BY <1>4, <2>1, WaitsStep DEF ReleaseChild, AddEdge
  <2>3. 1 .. (i - 1) = 1 .. Count /\ \A k \in 1 .. Count : IdAt(k) \in Ids
    <3>1. i - 1 = Count
      BY <1>0, <2>1
    <3>2. \A k \in 1 .. Count : IdAt(k) \in Ids
      BY DeclarationTypes DEF TypeInv
    <3> QED BY <3>1, <3>2
  <2>4. \A x \in Declared : \E k \in 1 .. Count : x = IdAt(k)
    BY DEF Declared
  <2>5. \A x \in Declared : x \in Ids /\ (x \in Range(Line) <=> Waits(x) = {})
    BY <2>1, <2>3, <2>4 DEF QueueInv
  <2>6. Range(Line) \subseteq Declared
    BY <2>1, <2>3 DEF QueueInv, Declared
  <2> QED BY <2>1, <2>2, <2>5, <2>6 DEF QueueInv, Sorting
<1>5. CASE PopFront \/ EndChildren \/ Return
  <2>1. /\ Sorting /\ Sorting' /\ phase' # "seed" /\ UNCHANGED steps
        /\ Declared' = Declared /\ Count' = Count
    BY <1>5 DEF PopFront, EndChildren, Return, Sorting, Declared, Count, IdAt
  <2>2. \A x \in Ids : Waits(x)' = Waits(x)
    BY <1>5, WaitsStep DEF PopFront, EndChildren, Return, ReleaseChild, AddEdge
  <2>3. Line' = Line
    BY <1>5, PopKeepsLine DEF PopFront, EndChildren, Return, Line, TypeInv
  <2>4. Declared \subseteq Ids
    BY DeclarationTypes DEF Declared, TypeInv
  <2>5. phase' \in {"ok", "cycle"} => queue' = <<>> /\ (phase' = "ok" <=> Len(ordered') = Count')
    BY <1>5, <2>1 DEF PopFront, EndChildren, Return
  <2> QED BY <2>1, <2>2, <2>3, <2>4, <2>5 DEF QueueInv
<1>6. CASE ReleaseChild
  <2>1. PICK child \in Ids : child = adjacency[Current][j]
    BY <1>6, ChildInIds
  <2>2. /\ Waits(child)' = Waits(child) \ {Current} /\ Current \in Waits(child)
        /\ \A x \in Ids : x # child => Waits(x)' = Waits(x)
    BY <1>6, <2>1, ChildReleased
  <2>3. /\ child \in Declared /\ child \notin Range(Line)
        /\ IsReleased(child) <=> Waits(child)' = {}
        /\ IsReleased(child) => In(child) \subseteq Range(Line)
    BY <1>6, <2>1, <2>2, ReleasedIsReady
  <2>4. Range(Line)' = IF IsReleased(child) THEN Range(Line) \cup {child} ELSE Range(Line)
    <3>1. CASE IsReleased(child)
      <4>1. queue' = Append(queue, child) /\ UNCHANGED <<ordered, adjacency>>
        BY <1>6, <2>1, <3>1 DEF ReleaseChild
      <4> QED BY <2>3, <3>1, <4>1, LineGrows
    <3>2. CASE ~ IsReleased(child)
      BY <1>6, <2>1, <3>2 DEF ReleaseChild, Line
    <3> QED BY <3>1, <3>2
  <2>5. /\ Sorting /\ Sorting' /\ phase' # "seed" /\ phase' = "children" /\ Declared' = Declared
    BY <1>6 DEF ReleaseChild, Sorting, Declared, Count, IdAt
  <2>6. Declared \subseteq Ids
    BY DeclarationTypes DEF Declared, TypeInv
  <2>7. Range(Line) \subseteq Declared /\ \A x \in Declared : x \in Range(Line) <=> Waits(x) = {}
    BY <2>5 DEF QueueInv
  <2>8. \A x \in Declared' : x \in Range(Line)' <=> Waits(x)' = {}
    BY <2>2, <2>3, <2>4, <2>5, <2>6, <2>7
  <2> QED BY <2>3, <2>4, <2>5, <2>7, <2>8 DEF QueueInv, Sorting
<1>7. CASE UNCHANGED vars
  <2>1. \A x \in Ids : Waits(x)' = Waits(x)
    BY <1>7 DEF vars, Waits, In, Released, Current
  <2> QED BY <1>7 DEF vars, QueueInv, Sorting, Line, Declared, Count, IdAt, Waits, In, Released, Current
<1> QED BY <1>1, <1>2, <1>3, <1>4, <1>5, <1>6, <1>7 DEF Next

\* What is refused while reading is at fault, and stays so.
LEMMA RefusalStep ==
    ASSUME TypeInv, RefusalInv, [Next]_vars
    PROVE  RefusalInv'
<1>0. Count \in Nat /\ i \in 1 .. Count + 1
  BY DeclarationTypes DEF TypeInv
<1>1. CASE IndexStep /\ phase' = "duplicate"
  <2>1. i \in 1 .. Count /\ UNCHANGED steps /\ \E k \in 1 .. (i - 1) : IdAt(k) = IdAt(i)
    BY <1>0, <1>1 DEF IndexStep
  <2>2. \E k, l \in 1 .. Count : k # l /\ IdAt(k) = IdAt(l)
    BY <1>0, <2>1
  <2> QED BY <1>1, <2>1, <2>2 DEF RefusalInv, IdAt, Count
<1>2. CASE AddEdge /\ phase' \in {"unknown", "self"}
  <2>1. i \in 1 .. Count /\ UNCHANGED steps /\ Declared' = Declared
    BY <1>0, <1>2 DEF AddEdge, Declared, Count, IdAt
  <2>2. Len(steps[i].deps) \in Nat
    BY <2>1, DeclarationTypes DEF TypeInv
  <2>3. j \in 1 .. Len(steps[i].deps)
    BY <1>2, <2>2 DEF AddEdge, TypeInv
  <2>4. steps[i].deps[j] \in DepsAt(i)
    BY <2>1, <2>3, DeclarationTypes DEF TypeInv
  <2>5. \/ phase' = "unknown" /\ steps[i].deps[j] \notin Declared
        \/ phase' = "self" /\ steps[i].deps[j] = IdAt(i)
    BY <1>2 DEF AddEdge
  <2>6. /\ phase' = "unknown" => \E k \in 1 .. Count : ~ (DepsAt(k) \subseteq Declared)
        /\ phase' = "self" => \E k \in 1 .. Count : IdAt(k) \in DepsAt(k)
    BY <2>1, <2>4, <2>5
  <2> QED BY <1>2, <2>1, <2>6 DEF RefusalInv, IdAt, DepsAt, Count
<1>3. CASE UNCHANGED steps /\ (phase' = phase \/ phase' \notin {"duplicate", "unknown", "self"})
  <2>1. /\ Declared' = Declared /\ Count' = Count
        /\ \A k : IdAt(k)' = IdAt(k) /\ DepsAt(k)' = DepsAt(k)
    BY <1>3 DEF IdAt, DepsAt, Count, Declared
  <2> QED BY <1>3, <2>1 DEF RefusalInv
<1> QED BY <1>1, <1>2, <1>3
        DEF Next, IndexStep, EndIndex, AddEdge, EndEdgesOfStep, EndEdges, SeedQueue, EndSeed, PopFront,
            ReleaseChild, EndChildren, Return, NextDependency, vars

-----------------------------------------------------------------------------
(* The theorem *)

\* Before anything is read, the invariant holds.
LEMMA PlanInit == Init => PlanInv
<1> SUFFICES ASSUME Init PROVE PlanInv
  OBVIOUS
<1>1. TypeInv
  <2>1. steps \in Seq(Declaration)
    BY PlanningAssumption DEF Init
  <2>2. Count \in Nat
    BY <2>1, DeclarationTypes
  <2> QED BY <2>1, <2>2, EmptySeq DEF Init, TypeInv
<1>2. ordered = <<>> /\ queue = <<>> /\ phase = "index" /\ i = 1 /\ adjacency = [s \in Ids |-> <<>>]
      /\ inDegree = [s \in Ids |-> 0]
  BY DEF Init
<1>3. DOMAIN <<>> = {}
  BY EmptySeq, LenProperties
<1>4. Range(<<>>) = {}
  BY <1>3 DEF Range
<1>5. \A x : In(x) = {}
  BY <1>2, <1>4 DEF In
<1>6. LookupInv
  BY <1>2 DEF LookupInv, DistinctUpTo, Indexed
<1>7. EdgeInv
  BY <1>2, <1>3, <1>5 DEF EdgeInv, Indexed
<1>8. CountInv
  <2>1. \A x : Waits(x) = {}
    BY <1>5 DEF Waits
  <2> QED BY <1>2, <2>1, FS_EmptySet DEF CountInv
<1>9. Line = <<>>
  BY <1>2, EmptySeq, ConcatEmptySeq DEF Line
<1>10. LineInv
  BY <1>3, <1>9 DEF LineInv
<1>11. QueueInv
  BY <1>2 DEF QueueInv, Sorting
<1>12. RefusalInv
  BY <1>2 DEF RefusalInv
<1> QED BY <1>1, <1>6, <1>7, <1>8, <1>10, <1>11, <1>12 DEF PlanInv

\* A declaration without a repeated identifier declares as many steps as it has.
LEMMA AsManyAsDeclared ==
    ASSUME TypeInv, DistinctUpTo(Count)
    PROVE  IsFiniteSet(Declared) /\ Cardinality(Declared) = Count
<1> DEFINE f == [k \in 1 .. Count |-> IdAt(k)]
<1>1. Count \in Nat
  BY DeclarationTypes DEF TypeInv
<1>2. IsFiniteSet(1 .. Count) /\ Cardinality(1 .. Count) = Count
  BY <1>1, FS_Interval
<1>3. f \in Bijection(1 .. Count, Declared)
  BY DEF Bijection, Injection, Surjection, IsInjective, Declared, DistinctUpTo
<1>4. ExistsBijection(1 .. Count, Declared)
  BY <1>3 DEF ExistsBijection
<1> QED BY <1>2, <1>4, FS_Bijection

\* A line without repetition is as long as the set of those who stand in it.
LEMMA AsLongAsItsElements ==
    ASSUME NEW S, NEW s \in Seq(S), \A p, q \in DOMAIN s : s[p] = s[q] => p = q
    PROVE  IsFiniteSet(Range(s)) /\ Cardinality(Range(s)) = Len(s)
<1>1. /\ DOMAIN s = 1 .. Len(s) /\ Len(s) \in Nat
      /\ \A p \in 1 .. Len(s) : s[p] \in Range(s)
      /\ \A x \in Range(s) : \E p \in 1 .. Len(s) : s[p] = x
  BY ElementsOf
<1> DEFINE f == [k \in 1 .. Len(s) |-> s[k]]
<1>2. IsFiniteSet(1 .. Len(s)) /\ Cardinality(1 .. Len(s)) = Len(s)
  <2>1. Len(s) \in Nat
    BY LenProperties
  <2> QED BY <2>1, FS_Interval
<1>3. f \in [1 .. Len(s) -> Range(s)] /\ DOMAIN f = 1 .. Len(s) /\ \A k \in 1 .. Len(s) : f[k] = s[k]
  BY <1>1
<1> HIDE DEF f
<1>4. \A a, b \in DOMAIN f : f[a] = f[b] => a = b
  BY <1>1, <1>3
<1>5. \A x \in Range(s) : \E p \in 1 .. Len(s) : f[p] = x
  BY <1>1, <1>3
<1>6. f \in Bijection(1 .. Len(s), Range(s))
  BY <1>3, <1>4, <1>5 DEF Bijection, Injection, Surjection, IsInjective
<1>7. ExistsBijection(1 .. Len(s), Range(s))
  BY <1>6 DEF ExistsBijection
<1> QED BY <1>2, <1>7, FS_Bijection

\* What planning has returned, once it has.
LEMMA VerdictIsSound ==
    ASSUME PlanInv
    PROVE  ReturnIsSound
<1> USE DEF PlanInv
<1>0. Count \in Nat /\ \A k \in 1 .. Count : IdAt(k) \in Ids /\ IdAt(k) \in Declared
  BY DeclarationTypes DEF TypeInv
<1>1. ASSUME phase \in {"ok", "cycle"}
      PROVE  /\ Line = ordered /\ Range(ordered) \subseteq Declared
             /\ \A p, q \in DOMAIN ordered : ordered[p] = ordered[q] => p = q
             /\ phase = "ok" <=> Range(ordered) = Declared
             /\ \A k \in 1 .. Count : In(IdAt(k)) = DepsAt(k)
             /\ \A k \in 1 .. Count : IdAt(k) \in Range(ordered) <=> Waits(IdAt(k)) = {}
             /\ \A d, x : Released(d, x) <=> d \in Range(ordered)
  <2>1. Line = ordered /\ ordered \in Seq(Ids)
    BY <1>1, LineProperties DEF QueueInv, TypeInv
  <2>2. Range(ordered) \subseteq Declared /\ (phase = "ok" <=> Len(ordered) = Count)
    BY <1>1, <2>1 DEF QueueInv, Sorting
  <2>3. \A p, q \in DOMAIN ordered : ordered[p] = ordered[q] => p = q
    BY <2>1 DEF LineInv
  <2>4. IsFiniteSet(Range(ordered)) /\ Cardinality(Range(ordered)) = Len(ordered)
    BY <2>1, <2>3, AsLongAsItsElements
  <2>5. IsFiniteSet(Declared) /\ Cardinality(Declared) = Count
    BY <1>1, AsManyAsDeclared DEF LookupInv, Indexed
  <2>6. phase = "ok" <=> Range(ordered) = Declared
    BY <2>2, <2>4, <2>5, FS_Subset
  <2>7. \A k \in 1 .. Count : In(IdAt(k)) = DepsAt(k)
    BY <1>1 DEF EdgeInv, Indexed, Found
  <2>8. \A k \in 1 .. Count : IdAt(k) \in Range(ordered) <=> Waits(IdAt(k)) = {}
    BY <1>0, <1>1, <2>1 DEF QueueInv, Sorting
  <2>9. \A d, x : Released(d, x) <=> d \in Range(ordered)
    BY <1>1 DEF Released
  <2> QED BY <2>1, <2>2, <2>3, <2>6, <2>7, <2>8, <2>9
<1>2. OrderIsSound
  <2> SUFFICES ASSUME phase = "ok"
               PROVE  /\ \A k, l \in 1 .. Count : IdAt(k) = IdAt(l) => k = l
                      /\ Range(ordered) = Declared
                      /\ \A p, q \in DOMAIN ordered : ordered[p] = ordered[q] => p = q
                      /\ \A p \in DOMAIN ordered, k \in 1 .. Count :
                             ordered[p] = IdAt(k) =>
                                 \A d \in DepsAt(k) : \E q \in 1 .. (p - 1) : ordered[q] = d
    BY DEF OrderIsSound
  <2>1. \A p \in DOMAIN ordered : \A d \in In(ordered[p]) : \E q \in 1 .. (p - 1) : ordered[q] = d
    BY <1>1 DEF LineInv
  <2>2. \A p \in DOMAIN ordered, k \in 1 .. Count :
            ordered[p] = IdAt(k) => In(ordered[p]) = DepsAt(k)
    BY <1>1
  <2>3. \A k, l \in 1 .. Count : IdAt(k) = IdAt(l) => k = l
    BY DEF LookupInv, Indexed, DistinctUpTo
  <2> QED BY <1>1, <2>1, <2>2, <2>3
<1>3. RefusalIsJustified
  <2>1. ASSUME phase = "cycle"
        PROVE  \E C \in SUBSET Declared :
                   C # {} /\ \A k \in 1 .. Count : IdAt(k) \in C => DepsAt(k) \cap C # {}
    <3> DEFINE C == Declared \ Range(ordered)
    <3>1. C # {}
      BY <1>1, <2>1
    <3>2. ASSUME NEW k \in 1 .. Count, IdAt(k) \in C
          PROVE  DepsAt(k) \cap C # {}
      <4>1. Waits(IdAt(k)) # {}
        BY <1>1, <2>1, <3>2
      <4>2. PICK d \in In(IdAt(k)) : ~ Released(d, IdAt(k))
        BY <4>1 DEF Waits
      <4>3. d \in DepsAt(k) /\ d \notin Range(ordered)
        BY <1>1, <2>1, <4>2
      <4>4. d \in Declared
        BY <1>0, <4>2 DEF EdgeInv
      <4> QED BY <4>3, <4>4
    <3> QED BY <3>1, <3>2
  <2> QED BY <2>1 DEF RefusalIsJustified, RefusalInv
<1> QED BY <1>2, <1>3 DEF ReturnIsSound

\* The invariant holds throughout.
LEMMA PlanHolds == Spec => []PlanInv
<1>1. Init => PlanInv
  BY PlanInit
<1>2. PlanInv /\ TypeInv' /\ [Next]_vars => PlanInv'
  BY LookupStep, EdgeStep, CountStep, LineStep, QueueStep, RefusalStep DEF PlanInv
<1> QED BY <1>1, <1>2, PlanTyping, PTL DEF Spec

\* For every declaration, planning returns a complete and topological order, or
\* a reason that holds (order_steps_for_execution).
THEOREM PlanningIsSound == Spec => []ReturnIsSound
BY PlanHolds, VerdictIsSound, PTL

-----------------------------------------------------------------------------
(* Loops *)

\* Every set of numbers that is not empty has a least one.
LEMMA LeastNumber ==
    ASSUME NEW T, T \subseteq Nat, T # {}
    PROVE  \E x \in T : \A y \in T : x <= y
<1> DEFINE R == {r \in Nat \X Nat : r[1] < r[2]}
<1>1. IsWellFoundedOn(R, Nat)
  BY NatLessThanWellFounded DEF OpToRel
<1> HIDE DEF R
<1>2. PICK x \in T : \A y \in T : ~ (<<y, x>> \in R)
  BY <1>1, WFMin
<1>3. \A y \in T : x <= y
  <2> TAKE y \in T
  <2>1. x \in Nat /\ y \in Nat /\ <<y, x>> \notin R
    BY <1>2
  <2>2. ~(y < x)
    BY <2>1 DEF R
  <2> QED BY <2>1, <2>2
<1> QED BY <1>3

\* What each turn of a loop keeps holds after every turn.
LEMMA LoopKeeps ==
    ASSUME NEW n \in Nat, NEW S, NEW h, h[0] \in S[0],
           \A k \in 1 .. n : h[k - 1] \in S[k - 1] => h[k] \in S[k]
    PROVE  \A k \in 0 .. n : h[k] \in S[k]
<1> DEFINE T == {k \in 0 .. n : h[k] \notin S[k]}
<1>1. SUFFICES ASSUME T # {} PROVE FALSE
  OBVIOUS
<1>2. T \subseteq Nat
  OBVIOUS
<1>3. PICK x \in T : \A y \in T : x <= y
  BY <1>1, <1>2, LeastNumber
<1>4. x \in 0 .. n /\ h[x] \notin S[x] /\ x # 0
  BY <1>3
<1>5. x - 1 \in 0 .. n /\ x - 1 \notin T
  BY <1>3, <1>4
<1>6. x \in 1 .. n /\ h[x - 1] \in S[x - 1]
  BY <1>4, <1>5
<1> QED BY <1>4, <1>6

\* A loop of n turns starts at b, and its turn k takes x to g[k][x].
Loop(h, n, b, g) == h = [k \in 0 .. n |-> IF k = 0 THEN b ELSE g[k][h[k - 1]]]

\* There is such a function.
LEMMA LoopRuns ==
    ASSUME NEW n \in Nat, NEW b, NEW g
    PROVE  \E h : Loop(h, n, b, g)
<1> USE DEF Loop
<1> DEFINE Runs(m) == \E h : Loop(h, m, b, g)
           T == {m \in Nat : ~Runs(m)}
<1>1. SUFFICES ASSUME T # {} PROVE FALSE
  OBVIOUS
<1>2. T \subseteq Nat
  OBVIOUS
<1>3. PICK m \in T : \A y \in T : m <= y
  BY <1>1, <1>2, LeastNumber
<1>4. m \in Nat /\ ~Runs(m)
  BY <1>3
<1>5. m # 0
  <2>1. [k \in 0 .. 0 |-> b] = [k \in 0 .. 0 |-> IF k = 0 THEN b ELSE g[k][[l \in 0 .. 0 |-> b][k - 1]]]
    OBVIOUS
  <2> QED BY <1>4, <2>1
<1>6. m - 1 \in Nat /\ m - 1 \notin T
  BY <1>3, <1>4, <1>5
<1>7. PICK h : h = [k \in 0 .. m - 1 |-> IF k = 0 THEN b ELSE g[k][h[k - 1]]]
  BY <1>6
<1> DEFINE f == [k \in 0 .. m |-> IF k = m THEN g[m][h[m - 1]] ELSE h[k]]
<1>8. \A k \in 0 .. m : f[k] = IF k = 0 THEN b ELSE g[k][f[k - 1]]
  <2> SUFFICES ASSUME NEW k \in 0 .. m PROVE f[k] = IF k = 0 THEN b ELSE g[k][f[k - 1]]
    OBVIOUS
  <2>1. CASE k = m
    <3>1. m - 1 \in 0 .. m /\ m - 1 # m /\ f[m - 1] = h[m - 1]
      BY <1>4, <1>5
    <3> QED BY <1>5, <2>1, <3>1
  <2>2. CASE k # m
    <3>1. k \in 0 .. m - 1 /\ f[k] = h[k]
      BY <1>4, <2>2
    <3>2. h[k] = IF k = 0 THEN b ELSE g[k][h[k - 1]]
      BY <1>7, <3>1
    <3>3. k # 0 => k - 1 \in 0 .. m /\ k - 1 # m /\ f[k - 1] = h[k - 1]
      BY <1>4, <3>1
    <3> QED BY <3>1, <3>2, <3>3
  <2> QED BY <2>1, <2>2
<1>9. f = [k \in 0 .. m |-> IF k = 0 THEN b ELSE g[k][f[k - 1]]]
  <2>1. DOMAIN f = 0 .. m /\ f = [k \in DOMAIN f |-> f[k]]
    OBVIOUS
  <2> HIDE DEF f
  <2> QED BY <1>8, <2>1
<1> HIDE DEF f
<1> QED BY <1>4, <1>9

-----------------------------------------------------------------------------
(* Sequences in the order of a rank *)

Ranked(q, rank) == \A a, b \in DOMAIN q : a < b => rank[q[a]] < rank[q[b]]

\* One with a higher rank joins at the end.
LEMMA RankedAppend ==
    ASSUME NEW S, NEW rank \in [S -> Nat], NEW q \in Seq(S), NEW e \in S, Ranked(q, rank),
           \A x \in Range(q) : rank[x] < rank[e]
    PROVE  Append(q, e) \in Seq(S) /\ Ranked(Append(q, e), rank)
<1> DEFINE r == Append(q, e)
<1>1. /\ r \in Seq(S) /\ Len(r) = Len(q) + 1 /\ r[Len(q) + 1] = e
      /\ \A p \in 1 .. Len(q) : r[p] = q[p]
  BY RangeOfAppend
<1>2. /\ Len(q) \in Nat /\ DOMAIN q = 1 .. Len(q) /\ \A p \in 1 .. Len(q) : q[p] \in Range(q)
  BY ElementsOf
<1>3. DOMAIN r = 1 .. Len(r)
  BY <1>1, ElementsOf
<1> HIDE DEF r
<1>4. DOMAIN r = DOMAIN q \cup {Len(q) + 1}
  BY <1>1, <1>2, <1>3
<1>5. ASSUME NEW a \in DOMAIN r, NEW b \in DOMAIN r, a < b
      PROVE  rank[r[a]] < rank[r[b]]
  <2>1. a \in 1 .. Len(q) /\ r[a] = q[a]
    BY <1>1, <1>2, <1>4, <1>5
  <2>2. CASE b = Len(q) + 1
    BY <1>1, <1>2, <2>1, <2>2
  <2>3. CASE b # Len(q) + 1
    <3>1. b \in 1 .. Len(q) /\ r[b] = q[b]
      BY <1>1, <1>2, <1>4, <2>3
    <3> QED BY <1>2, <1>5, <2>1, <3>1 DEF Ranked
  <2> QED BY <2>2, <2>3
<1>6. Ranked(r, rank)
  BY <1>5 DEF Ranked
<1> QED BY <1>1, <1>6 DEF r

\* Where q and r agree before x, what r has at x ranks no higher.
LEMMA RankedAgree ==
    ASSUME NEW S, NEW rank \in [S -> Nat], NEW q \in Seq(S), NEW r \in Seq(S),
           Ranked(q, rank), Ranked(r, rank), Range(q) \subseteq Range(r),
           NEW x \in 1 .. Len(q), \A p \in 1 .. (x - 1) : p \in 1 .. Len(r) /\ q[p] = r[p]
    PROVE  x \in 1 .. Len(r) /\ (q[x] = r[x] \/ rank[r[x]] < rank[q[x]])
<1>1. /\ Len(q) \in Nat /\ DOMAIN q = 1 .. Len(q) /\ \A p \in 1 .. Len(q) : q[p] \in S /\ q[p] \in Range(q)
      /\ Len(r) \in Nat /\ DOMAIN r = 1 .. Len(r) /\ \A p \in 1 .. Len(r) : r[p] \in S
      /\ \A y \in Range(r) : \E p \in 1 .. Len(r) : r[p] = y
  BY ElementsOf
<1>2. PICK a \in 1 .. Len(r) : r[a] = q[x]
  BY <1>1
<1>3. a >= x
  <2> SUFFICES ASSUME a < x PROVE FALSE
    BY <1>1
  <2>1. a \in 1 .. (x - 1) /\ a \in 1 .. Len(q) /\ q[a] = r[a]
    BY <1>1
  <2>2. rank[q[a]] < rank[q[x]] /\ rank[q[x]] \in Nat
    BY <1>1, <2>1 DEF Ranked
  <2> QED BY <1>2, <2>1, <2>2
<1>4. x \in 1 .. Len(r)
  BY <1>1, <1>3
<1>5. a > x => rank[r[x]] < rank[r[a]]
  BY <1>1, <1>4 DEF Ranked
<1>6. a = x \/ a > x
  BY <1>1, <1>3
<1> QED BY <1>2, <1>4, <1>5, <1>6

\* A rank leaves one order for given elements.
LEMMA RankedIsUnique ==
    ASSUME NEW S, NEW rank \in [S -> Nat], NEW q \in Seq(S), NEW r \in Seq(S),
           Ranked(q, rank), Ranked(r, rank), Range(q) = Range(r)
    PROVE  q = r
<1> DEFINE Same(p) == p \in 1 .. Len(q) /\ p \in 1 .. Len(r) /\ q[p] = r[p]
           T == {p \in 1 .. Len(q) \cup 1 .. Len(r) : ~ Same(p)}
<1>1. /\ Len(q) \in Nat /\ \A p \in 1 .. Len(q) : q[p] \in S
      /\ Len(r) \in Nat /\ \A p \in 1 .. Len(r) : r[p] \in S
  BY ElementsOf
<1>2. T = {}
  <2> SUFFICES ASSUME T # {} PROVE FALSE
    OBVIOUS
  <2>1. T \subseteq Nat
    BY <1>1
  <2>2. PICK x \in T : \A p \in T : x <= p
    BY <2>1, LeastNumber
  <2>3. \A p \in 1 .. (x - 1) : Same(p)
    BY <1>1, <2>1, <2>2
  <2>4. x \in 1 .. Len(q) => x \in 1 .. Len(r) /\ (q[x] = r[x] \/ rank[r[x]] < rank[q[x]])
    BY <2>3, RankedAgree
  <2>5. x \in 1 .. Len(r) => x \in 1 .. Len(q) /\ (r[x] = q[x] \/ rank[q[x]] < rank[r[x]])
    BY <2>3, RankedAgree
  <2>6. /\ x \in 1 .. Len(q) /\ x \in 1 .. Len(r) /\ q[x] # r[x]
        /\ rank[r[x]] < rank[q[x]] /\ rank[q[x]] < rank[r[x]]
    BY <2>2, <2>4, <2>5
  <2>7. rank[q[x]] \in Nat /\ rank[r[x]] \in Nat
    BY <1>1, <2>6
  <2> QED BY <2>6, <2>7
<1>3. Len(q) = Len(r)
  <2>1. \A p \in 1 .. Len(q) \cup 1 .. Len(r) : p \in 1 .. Len(q) /\ p \in 1 .. Len(r)
    BY <1>2
  <2>2. (Len(q) # 0 => Len(q) <= Len(r)) /\ (Len(r) # 0 => Len(r) <= Len(q))
    BY <1>1, <2>1
  <2> QED BY <1>1, <2>2
<1>4. \A p \in 1 .. Len(q) : q[p] = r[p]
  BY <1>2
<1> QED BY <1>3, <1>4, SeqEqual

\* What the turns of Among collect: the elements in T of those passed, ranked.
Collected(S, s, T, rank, n) ==
    {q \in Seq(S) : Ranked(q, rank) /\ Range(q) = {s[p] : p \in 1 .. n} \cap T}
AmongLoop(h, s, T) ==
    h = [n \in 0 .. Len(s) |->
             IF n = 0 THEN <<>> ELSE IF s[n] \in T THEN Append(h[n - 1], s[n]) ELSE h[n - 1]]

\* An element more is collected if it is in T.
LEMMA Collects ==
    ASSUME NEW S, NEW rank \in [S -> Nat], NEW s \in Seq(S), Ranked(s, rank), NEW T,
           NEW n \in 1 .. Len(s), NEW q \in Collected(S, s, T, rank, n - 1)
    PROVE  (IF s[n] \in T THEN Append(q, s[n]) ELSE q) \in Collected(S, s, T, rank, n)
<1>1. /\ Len(s) \in Nat /\ DOMAIN s = 1 .. Len(s) /\ \A p \in 1 .. Len(s) : s[p] \in S
  BY ElementsOf
<1>2. 1 .. n = 1 .. (n - 1) \cup {n} /\ 1 .. (n - 1) \subseteq 1 .. Len(s)
  BY <1>1
<1>3. {s[p] : p \in 1 .. n} = {s[p] : p \in 1 .. (n - 1)} \cup {s[n]}
  BY <1>2
<1>4. q \in Seq(S) /\ Ranked(q, rank) /\ Range(q) = {s[p] : p \in 1 .. (n - 1)} \cap T
  BY DEF Collected
<1>5. CASE s[n] \in T
  <2>1. \A p \in 1 .. (n - 1) : rank[s[p]] < rank[s[n]]
    <3> TAKE p \in 1 .. (n - 1)
    <3>1. p \in DOMAIN s /\ n \in DOMAIN s /\ p < n
      BY <1>1, <1>2
    <3> QED BY <3>1 DEF Ranked
  <2>2. \A x \in Range(q) : rank[x] < rank[s[n]]
    BY <1>4, <2>1
  <2>3. Append(q, s[n]) \in Seq(S) /\ Ranked(Append(q, s[n]), rank)
    BY <1>1, <1>4, <2>2, RankedAppend
  <2>4. Range(Append(q, s[n])) = Range(q) \cup {s[n]}
    BY <1>1, <1>4, RangeOfAppend
  <2> QED BY <1>3, <1>4, <1>5, <2>3, <2>4 DEF Collected
<1>6. CASE s[n] \notin T
  BY <1>3, <1>4, <1>6 DEF Collected
<1> QED BY <1>5, <1>6

\* The recursive definition of Among has a value.
LEMMA AmongRuns ==
    ASSUME NEW S, NEW s \in Seq(S), NEW T
    PROVE  \E h : AmongLoop(h, s, T)
<1> DEFINE g == [n \in 1 .. Len(s) |-> [q \in Seq(S) |-> IF s[n] \in T THEN Append(q, s[n]) ELSE q]]
           K == [n \in 0 .. Len(s) |-> Seq(S)]
<1>1. Len(s) \in Nat /\ \A n \in 1 .. Len(s) : s[n] \in S
  BY ElementsOf
<1>2. PICK h : Loop(h, Len(s), <<>>, g)
  <2> HIDE DEF g
  <2> QED BY <1>1, LoopRuns
<1>3. h[0] \in K[0]
  BY <1>1, <1>2, EmptySeq DEF Loop
<1>4. ASSUME NEW n \in 1 .. Len(s), h[n - 1] \in Seq(S)
      PROVE  /\ h[n] = IF s[n] \in T THEN Append(h[n - 1], s[n]) ELSE h[n - 1]
             /\ h[n] \in Seq(S)
  <2>1. n \in 0 .. Len(s) /\ n # 0
    BY <1>1
  <2>2. h[n] = g[n][h[n - 1]]
    BY <1>2, <2>1 DEF Loop
  <2>3. h[n] = IF s[n] \in T THEN Append(h[n - 1], s[n]) ELSE h[n - 1]
    BY <1>4, <2>2
  <2>4. s[n] \in S /\ Append(h[n - 1], s[n]) \in Seq(S)
    BY <1>1, <1>4, AppendProperties
  <2> QED BY <1>4, <2>3, <2>4
<1>5. \A n \in 1 .. Len(s) : n - 1 \in 0 .. Len(s) /\ n \in 0 .. Len(s) /\ n # 0
  BY <1>1
<1>6. \A n \in 0 .. Len(s) : h[n] \in K[n]
  <2>1. \A n \in 1 .. Len(s) : h[n - 1] \in K[n - 1] => h[n] \in K[n]
    BY <1>4, <1>5
  <2> HIDE DEF K
  <2> QED BY <1>1, <1>3, <2>1, LoopKeeps
<1>7. \A n \in 0 .. Len(s) :
          h[n] = IF n = 0 THEN <<>> ELSE IF s[n] \in T THEN Append(h[n - 1], s[n]) ELSE h[n - 1]
  <2> SUFFICES ASSUME NEW n \in 0 .. Len(s)
               PROVE  h[n] = IF n = 0 THEN <<>> ELSE IF s[n] \in T THEN Append(h[n - 1], s[n]) ELSE h[n - 1]
    OBVIOUS
  <2>1. CASE n = 0
    BY <1>2, <2>1 DEF Loop
  <2>2. CASE n # 0
    <3>1. n \in 1 .. Len(s)
      BY <1>1, <2>2
    <3>2. h[n - 1] \in Seq(S)
      BY <1>5, <1>6, <3>1
    <3> QED BY <1>4, <2>2, <3>1, <3>2
  <2> QED BY <2>1, <2>2
<1>8. h = [n \in 0 .. Len(s) |-> h[n]]
  BY <1>2 DEF Loop
<1>9. h = [n \in 0 .. Len(s) |->
               IF n = 0 THEN <<>> ELSE IF s[n] \in T THEN Append(h[n - 1], s[n]) ELSE h[n - 1]]
  BY <1>7, <1>8
<1> QED BY <1>9 DEF AmongLoop

\* Among(s, T) holds what s and T share, in the order of s.
LEMMA AmongIs ==
    ASSUME NEW S, NEW rank \in [S -> Nat], NEW s \in Seq(S), Ranked(s, rank), NEW T
    PROVE  /\ Among(s, T) \in Seq(S) /\ Ranked(Among(s, T), rank)
           /\ Range(Among(s, T)) = Range(s) \cap T
<1> DEFINE h == CHOOSE h : AmongLoop(h, s, T)
           K == [n \in 0 .. Len(s) |-> Collected(S, s, T, rank, n)]
<1>1. Len(s) \in Nat /\ DOMAIN s = 1 .. Len(s)
  BY ElementsOf
<1>2. AmongLoop(h, s, T)
  BY AmongRuns
<1>3. Among(s, T) = h[Len(s)]
  BY DEF Among, AmongLoop
<1> HIDE DEF h
<1>4. /\ h[0] = <<>>
      /\ \A n \in 1 .. Len(s) : h[n] = IF s[n] \in T THEN Append(h[n - 1], s[n]) ELSE h[n - 1]
  <2>1. 0 \in 0 .. Len(s) /\ \A n \in 1 .. Len(s) : n \in 0 .. Len(s) /\ n # 0
    BY <1>1
  <2>2. \A n \in 0 .. Len(s) :
            h[n] = IF n = 0 THEN <<>> ELSE IF s[n] \in T THEN Append(h[n - 1], s[n]) ELSE h[n - 1]
    BY <1>2 DEF AmongLoop
  <2> QED BY <2>1, <2>2
<1>5. h[0] \in Collected(S, s, T, rank, 0)
  <2>1. <<>> \in Seq(S) /\ DOMAIN <<>> = {}
    BY EmptySeq, LenProperties
  <2>2. Range(<<>>) = {} /\ Ranked(<<>>, rank)
    BY <2>1 DEF Range, Ranked
  <2>3. {s[p] : p \in 1 .. 0} = {}
    OBVIOUS
  <2> QED BY <1>4, <2>1, <2>2, <2>3 DEF Collected
<1>6. \A n \in 1 .. Len(s) : h[n - 1] \in Collected(S, s, T, rank, n - 1) => h[n] \in Collected(S, s, T, rank, n)
  <2> SUFFICES ASSUME NEW n \in 1 .. Len(s), h[n - 1] \in Collected(S, s, T, rank, n - 1)
               PROVE  h[n] \in Collected(S, s, T, rank, n)
    OBVIOUS
  <2>1. PICK q \in Collected(S, s, T, rank, n - 1) : q = h[n - 1]
    OBVIOUS
  <2>2. (IF s[n] \in T THEN Append(q, s[n]) ELSE q) \in Collected(S, s, T, rank, n)
    BY Collects
  <2> QED BY <1>4, <2>1, <2>2
<1>7. \A n \in 0 .. Len(s) : K[n] = Collected(S, s, T, rank, n)
  OBVIOUS
<1>8. \A n \in 1 .. Len(s) : n \in 0 .. Len(s) /\ n - 1 \in 0 .. Len(s)
  BY <1>1
<1> HIDE DEF K
<1>9. \A n \in 0 .. Len(s) : h[n] \in K[n]
  <2>1. h[0] \in K[0]
    BY <1>1, <1>5, <1>7
  <2>2. \A n \in 1 .. Len(s) : h[n - 1] \in K[n - 1] => h[n] \in K[n]
    BY <1>6, <1>7, <1>8
  <2> QED BY <1>1, <2>1, <2>2, LoopKeeps
<1>10. h[Len(s)] \in Collected(S, s, T, rank, Len(s))
  BY <1>1, <1>7, <1>9
<1>11. Range(s) = {s[p] : p \in 1 .. Len(s)}
  BY <1>1 DEF Range
<1> QED BY <1>3, <1>10, <1>11 DEF Collected

-----------------------------------------------------------------------------
(* The order a declaration has (PlanOrder) *)

TurnState(S) == [ordered : Seq(S), queue : Seq(S)]
TurnLoop(h, declared, deps) ==
    h = [k \in 0 .. Len(declared) |->
             IF k = 0
             THEN [ordered |-> <<>>, queue |-> Among(declared, {s \in Range(declared) : deps[s] = {}})]
             ELSE Turned(h[k - 1], declared, deps)]

\* A turn keeps to the steps declared.
LEMMA TurnedKeeps ==
    ASSUME NEW S, NEW rank \in [S -> Nat], NEW declared \in Seq(S), Ranked(declared, rank), NEW deps,
           NEW last \in TurnState(S)
    PROVE  Turned(last, declared, deps) \in TurnState(S)
<1> DEFINE popped  == Head(last.queue)
           longer  == Append(last.ordered, popped)
           freed   == {s \in Range(declared) : popped \in deps[s] /\ deps[s] \subseteq Range(longer)}
           waiting == Tail(last.queue) \o Among(declared, freed)
<1>1. last.ordered \in Seq(S) /\ last.queue \in Seq(S)
  BY DEF TurnState
<1>2. CASE last.queue # <<>>
  <2>1. popped \in S /\ Tail(last.queue) \in Seq(S)
    BY <1>1, <1>2, HeadTailProperties
  <2>2. longer \in Seq(S)
    BY <1>1, <2>1, AppendProperties
  <2>3. Among(declared, freed) \in Seq(S)
    BY AmongIs
  <2> HIDE DEF freed
  <2>4. waiting \in Seq(S)
    BY <2>1, <2>3, ConcatProperties
  <2>5. Turned(last, declared, deps) = [ordered |-> longer, queue |-> waiting]
    BY <1>2 DEF Turned, freed
  <2> HIDE DEF longer, waiting
  <2> QED BY <2>2, <2>4, <2>5 DEF TurnState
<1>3. CASE last.queue = <<>>
  BY <1>3 DEF Turned
<1> QED BY <1>2, <1>3

\* The recursive definition of Turns has a value.
LEMMA TurnsRun ==
    ASSUME NEW S, NEW rank \in [S -> Nat], NEW declared \in Seq(S), Ranked(declared, rank), NEW deps
    PROVE  \E h : TurnLoop(h, declared, deps)
<1> DEFINE n == Len(declared)
           b == [ordered |-> <<>>, queue |-> Among(declared, {s \in Range(declared) : deps[s] = {}})]
           g == [k \in 1 .. n |-> [last \in TurnState(S) |-> Turned(last, declared, deps)]]
           K == [k \in 0 .. n |-> TurnState(S)]
<1>1. n \in Nat
  BY LenProperties
<1>2. b \in TurnState(S)
  <2>1. Among(declared, {s \in Range(declared) : deps[s] = {}}) \in Seq(S)
    BY AmongIs
  <2>2. <<>> \in Seq(S)
    BY EmptySeq
  <2> QED BY <2>1, <2>2 DEF TurnState
<1> HIDE DEF n, b
<1>3. PICK h : Loop(h, n, b, g)
  <2> HIDE DEF g
  <2> QED BY <1>1, LoopRuns
<1>4. h[0] = b
  BY <1>1, <1>3 DEF Loop
<1>5. ASSUME NEW k \in 1 .. n, h[k - 1] \in TurnState(S)
      PROVE  h[k] = Turned(h[k - 1], declared, deps) /\ h[k] \in TurnState(S)
  <2>1. k \in 0 .. n /\ k # 0
    BY <1>1
  <2>2. h[k] = g[k][h[k - 1]]
    BY <1>3, <2>1 DEF Loop
  <2>3. h[k] = Turned(h[k - 1], declared, deps)
    BY <1>5, <2>2
  <2>4. PICK last \in TurnState(S) : last = h[k - 1]
    BY <1>5
  <2>5. Turned(last, declared, deps) \in TurnState(S)
    BY TurnedKeeps
  <2> QED BY <2>3, <2>4, <2>5
<1> HIDE DEF g
<1>6. \A k \in 1 .. n : k - 1 \in 0 .. n /\ k \in 0 .. n
  BY <1>1
<1>7. \A k \in 0 .. n : h[k] \in K[k]
  <2>1. h[0] \in K[0]
    BY <1>1, <1>2, <1>4
  <2>2. \A k \in 1 .. n : h[k - 1] \in K[k - 1] => h[k] \in K[k]
    BY <1>5, <1>6
  <2> HIDE DEF K
  <2> QED BY <1>1, <2>1, <2>2, LoopKeeps
<1>8. \A k \in 0 .. n : h[k] = IF k = 0 THEN b ELSE Turned(h[k - 1], declared, deps)
  <2> SUFFICES ASSUME NEW k \in 0 .. n
               PROVE  h[k] = IF k = 0 THEN b ELSE Turned(h[k - 1], declared, deps)
    OBVIOUS
  <2>1. CASE k = 0
    BY <1>4, <2>1
  <2>2. CASE k # 0
    <3>1. k \in 1 .. n
      BY <1>1, <2>2
    <3>2. h[k - 1] \in TurnState(S)
      BY <1>6, <1>7, <3>1
    <3> QED BY <1>5, <2>2, <3>1, <3>2
  <2> QED BY <2>1, <2>2
<1>9. h = [k \in 0 .. n |-> h[k]]
  BY <1>3 DEF Loop
<1>10. h = [k \in 0 .. n |-> IF k = 0 THEN b ELSE Turned(h[k - 1], declared, deps)]
  BY <1>8, <1>9
<1> QED BY <1>10 DEF TurnLoop, n, b

\* Turns starts with the steps free of dependencies, and goes on turn by turn.
LEMMA TurnsAre ==
    ASSUME NEW S, NEW rank \in [S -> Nat], NEW declared \in Seq(S), Ranked(declared, rank), NEW deps
    PROVE  /\ Turns(declared, deps)[0] =
                  [ordered |-> <<>>, queue |-> Among(declared, {s \in Range(declared) : deps[s] = {}})]
           /\ \A k \in 1 .. Len(declared) :
                  Turns(declared, deps)[k] = Turned(Turns(declared, deps)[k - 1], declared, deps)
<1> DEFINE n == Len(declared)
           b == [ordered |-> <<>>, queue |-> Among(declared, {s \in Range(declared) : deps[s] = {}})]
           h == CHOOSE h : TurnLoop(h, declared, deps)
<1>1. n \in Nat
  BY LenProperties
<1>2. TurnLoop(h, declared, deps)
  BY TurnsRun
<1>3. Turns(declared, deps) = h
  BY DEF Turns, TurnLoop
<1> HIDE DEF h
<1>4. h = [k \in 0 .. n |-> IF k = 0 THEN b ELSE Turned(h[k - 1], declared, deps)]
  BY <1>2 DEF TurnLoop
<1> HIDE DEF n, b
<1>5. \A k \in 1 .. n : k \in 0 .. n /\ k # 0
  BY <1>1
<1>6. h[0] = b
  BY <1>1, <1>4
<1>7. \A k \in 1 .. n : h[k] = Turned(h[k - 1], declared, deps)
  <2>1. \A k \in 0 .. n : h[k] = IF k = 0 THEN b ELSE Turned(h[k - 1], declared, deps)
    BY <1>4
  <2> QED BY <1>5, <2>1
<1> QED BY <1>3, <1>6, <1>7 DEF n, b

\* The declaration as AgreesWithPlanOrder gives it, and the place of a step in it.
Decl == [k \in 1 .. Count |-> IdAt(k)]
Deps == [x \in Declared |-> DepsAt(CHOOSE k \in 1 .. Count : IdAt(k) = x)]
Rank == [x \in Ids |-> IF x \in Declared THEN CHOOSE k \in 1 .. Count : IdAt(k) = x ELSE 0]

Turn(k) == Turns(Decl, Deps)[k]

\* In the middle of a turn: fresh has joined, of the dependents looked at those
\* that wait for nothing any more.
InTurn(last, fresh) ==
    /\ last.queue \in Seq(Ids) /\ last.queue # <<>> /\ last.ordered \in Seq(Ids)
    /\ ordered = Append(last.ordered, Head(last.queue))
    /\ fresh \in Seq(Ids) /\ Ranked(fresh, Rank)
    /\ queue = Tail(last.queue) \o fresh
    /\ j <= Len(adjacency[Current]) + 1
    /\ Range(fresh) = {x \in Ids : Waits(x) = {} /\ \E p \in 1 .. (j - 1) : adjacency[Current][p] = x}

\* Dependents stand as declared, and after k turns the planner is where Turns is.
OrderInv ==
    /\ Indexed => \A d \in Ids : Ranked(adjacency[d], Rank)
    /\ phase = "seed" => Ranked(queue, Rank)
    /\ phase = "children" => \E fresh : InTurn(Turn(Len(ordered) - 1), fresh)
    /\ phase \in {"pop", "ok"} => Turn(Len(ordered)) = [ordered |-> ordered, queue |-> queue]

\* A step ranks where it is declared.
LEMMA DeclIs ==
    ASSUME TypeInv, LookupInv, Indexed
    PROVE  /\ Decl \in Seq(Ids) /\ Len(Decl) = Count /\ Range(Decl) = Declared
           /\ Rank \in [Ids -> Nat] /\ Ranked(Decl, Rank)
           /\ \A k \in 1 .. Count : Rank[IdAt(k)] = k
<1>1. Count \in Nat /\ \A k \in 1 .. Count : IdAt(k) \in Ids /\ IdAt(k) \in Declared
  BY DeclarationTypes DEF TypeInv
<1>2. DistinctUpTo(Count)
  BY DEF LookupInv
<1>3. Decl \in Seq(Ids) /\ Len(Decl) = Count /\ DOMAIN Decl = 1 .. Count
  <2>1. Decl \in [1 .. Count -> Ids]
    BY <1>1 DEF Decl
  <2>2. Decl \in Seq(Ids)
    BY <1>1, <2>1, SeqDef
  <2> QED BY <1>1, <2>1, <2>2, LenProperties
<1>4. Range(Decl) = Declared
  BY <1>3 DEF Range, Decl, Declared
<1>5. \A k \in 1 .. Count : Rank[IdAt(k)] = k
  <2> SUFFICES ASSUME NEW k \in 1 .. Count PROVE Rank[IdAt(k)] = k
    OBVIOUS
  <2>1. Rank[IdAt(k)] = CHOOSE l \in 1 .. Count : IdAt(l) = IdAt(k)
    BY <1>1 DEF Rank
  <2>2. \A l \in 1 .. Count : IdAt(l) = IdAt(k) => l = k
    BY <1>2 DEF DistinctUpTo
  <2> QED BY <2>1, <2>2
<1>6. Rank \in [Ids -> Nat]
  <2> SUFFICES ASSUME NEW x \in Ids PROVE Rank[x] \in Nat
    BY DEF Rank
  <2>1. CASE x \in Declared
    <3>1. PICK k \in 1 .. Count : x = IdAt(k)
      BY <2>1 DEF Declared
    <3> QED BY <1>1, <1>5, <3>1
  <2>2. CASE x \notin Declared
    BY <2>2 DEF Rank
  <2> QED BY <2>1, <2>2
<1>7. Ranked(Decl, Rank)
  BY <1>3, <1>5 DEF Ranked, Decl
<1> QED BY <1>3, <1>4, <1>5, <1>6, <1>7

\* What a step is declared to depend on is what it was found to depend on.
LEMMA DepsIs ==
    ASSUME TypeInv, LookupInv, EdgeInv, Indexed, phase # "edges"
    PROVE  \A x \in Declared : x \in Ids /\ Deps[x] = In(x)
<1> SUFFICES ASSUME NEW x \in Declared PROVE x \in Ids /\ Deps[x] = In(x)
  OBVIOUS
<1>1. PICK k \in 1 .. Count : x = IdAt(k)
  BY DEF Declared
<1>2. \A l \in 1 .. Count : IdAt(l) = x => l = k
  BY <1>1 DEF LookupInv, DistinctUpTo
<1>3. Deps[x] = DepsAt(k)
  BY <1>1, <1>2 DEF Deps
<1>4. In(x) = DepsAt(k)
  BY <1>1 DEF EdgeInv, Found
<1> QED BY <1>1, <1>3, <1>4, DeclarationTypes DEF TypeInv

\* Planning does not touch the declaration.
LEMMA SameDeclaration ==
    ASSUME [Next]_vars
    PROVE  /\ UNCHANGED <<steps, Count, Declared, Decl, Deps, Rank>>
           /\ \A k : Turn(k)' = Turn(k)
<1>1. UNCHANGED steps
  BY DEF Next, vars, IndexStep, EndIndex, AddEdge, EndEdgesOfStep, EndEdges, SeedQueue, EndSeed,
         PopFront, ReleaseChild, EndChildren, Return, NextDependency
<1>2. UNCHANGED <<Count, Declared, Decl, Deps, Rank>>
  BY <1>1 DEF Count, Declared, IdAt, DepsAt, Decl, Deps, Rank
<1> QED BY <1>1, <1>2 DEF Turn

\* No more steps are ordered than are declared.
LEMMA OrderedFits ==
    ASSUME PlanInv, Sorting
    PROVE  Len(ordered) \in Nat /\ Len(ordered) <= Count /\ Range(ordered) \subseteq Declared
<1> USE DEF PlanInv
<1>1. ordered \in Seq(Ids) /\ queue \in Seq(Ids) /\ Len(ordered) \in Nat
  BY LenProperties DEF TypeInv
<1>2. /\ Line \in Seq(Ids) /\ Len(Line) = Len(ordered) + Len(queue)
      /\ \A p \in 1 .. Len(ordered) : Line[p] = ordered[p]
      /\ Range(ordered) \subseteq Range(Line)
  BY <1>1, LineProperties
<1>3. Range(ordered) \subseteq Declared
  BY <1>2 DEF QueueInv
<1>4. DOMAIN ordered = 1 .. Len(ordered) /\ DOMAIN Line = 1 .. Len(Line) /\ Len(queue) \in Nat
  BY <1>1, <1>2, LenProperties
<1>5. \A p \in DOMAIN ordered : p \in DOMAIN Line /\ Line[p] = ordered[p]
  BY <1>1, <1>2, <1>4
<1>6. \A p, q \in DOMAIN ordered : ordered[p] = ordered[q] => p = q
  BY <1>5 DEF LineInv
<1>7. IsFiniteSet(Range(ordered)) /\ Cardinality(Range(ordered)) = Len(ordered)
  BY <1>1, <1>6, AsLongAsItsElements
<1>8. IsFiniteSet(Declared) /\ Cardinality(Declared) = Count
  BY AsManyAsDeclared DEF LookupInv, Indexed, Sorting
<1> QED BY <1>1, <1>3, <1>7, <1>8, FS_Subset

\* Dependents are put down in the order they are declared in (NewEdge).
LEMMA DependentsRanked ==
    ASSUME PlanInv, OrderInv, [Next]_vars, NEW d \in Ids, Indexed'
    PROVE  Ranked(adjacency'[d], Rank)
<1> USE DEF PlanInv
<1>0. Count \in Nat /\ i \in 1 .. Count + 1 /\ 1 .. Count \subseteq Nat
  BY DeclarationTypes DEF TypeInv
<1>1. CASE Indexed /\ UNCHANGED adjacency
  BY <1>1 DEF OrderInv
<1>2. CASE EndIndex
  <2>1. phase = "index" /\ UNCHANGED adjacency
    BY <1>2 DEF EndIndex
  <2>2. adjacency[d] \in Seq(Ids) /\ \A x \in Ids : d \notin In(x)
    BY <2>1 DEF TypeInv, EdgeInv
  <2>3. DOMAIN adjacency[d] = {}
    BY <2>2, ElementsOf DEF In
  <2> QED BY <2>1, <2>3 DEF Ranked
<1>3. CASE AddEdge /\ phase' = "edges" /\ ~ UNCHANGED adjacency
  <2> DEFINE e == steps[i].deps[j]
             x == IdAt(i)
  <2>1. phase = "edges" /\ i \in 1 .. Count /\ Indexed
    BY <1>0, <1>3 DEF AddEdge, Indexed
  <2>2. e \in Ids /\ x \in Ids /\ x \in Declared
    <3>1. Len(steps[i].deps) \in Nat
      BY <2>1, DeclarationTypes DEF TypeInv
    <3>2. j \in 1 .. Len(steps[i].deps)
      BY <1>3, <3>1 DEF AddEdge, TypeInv
    <3> QED BY <2>1, <3>2, DeclarationTypes DEF TypeInv
  <2>3. e \notin seen /\ NewEdge(e)
    BY <1>3 DEF AddEdge
  <2>4. e \notin In(x)
    BY <2>1, <2>2, <2>3, EdgeAdded
  <2>5. adjacency'[d] = IF d = e THEN Append(adjacency[d], x) ELSE adjacency[d]
    BY <2>2, <2>3 DEF NewEdge, TypeInv
  <2>6. /\ adjacency[d] \in Seq(Ids) /\ Ranked(adjacency[d], Rank)
        /\ Rank \in [Ids -> Nat] /\ \A k \in 1 .. Count : Rank[IdAt(k)] = k
    BY <2>1, DeclIs DEF OrderInv, TypeInv
  <2>7. ASSUME d = e, NEW y \in Range(adjacency[d])
        PROVE  Rank[y] < Rank[x]
    <3>1. y \in Ids
      BY <2>6, ElementsOf
    <3>2. d \in In(y)
      BY <2>7 DEF In
    <3>3. y \in Declared
      BY <3>1, <3>2 DEF EdgeInv
    <3>4. PICK k \in 1 .. Count : y = IdAt(k)
      BY <3>3 DEF Declared
    <3>5. k # i
      BY <2>4, <2>7, <3>2, <3>4
    <3>6. Found(k) # {}
      BY <2>1, <3>2, <3>4 DEF EdgeInv
    <3>7. k < i
      BY <1>0, <2>1, <3>5, <3>6 DEF Found
    <3> QED BY <2>1, <2>6, <3>4, <3>7
  <2> HIDE DEF e, x
  <2>8. d = e => Ranked(Append(adjacency[d], x), Rank)
    BY <2>2, <2>6, <2>7, RankedAppend
  <2> QED BY <2>5, <2>6, <2>8
<1>4. CASE UNCHANGED vars
  BY <1>4 DEF vars, OrderInv, Indexed
<1> QED BY <1>1, <1>2, <1>3, <1>4
        DEF Next, IndexStep, AddEdge, EndEdgesOfStep, EndEdges, SeedQueue, EndSeed, PopFront, ReleaseChild,
            EndChildren, Return, NextDependency, Indexed

\* The queue is seeded in the order of the declaration (SeedQueue).
LEMMA SeedRanked ==
    ASSUME PlanInv, OrderInv, SeedQueue
    PROVE  Ranked(queue', Rank)
<1> USE DEF PlanInv
<1>1. phase = "seed" /\ Indexed /\ i \in Nat
  BY DEF SeedQueue, Indexed, TypeInv
<1>2. /\ i \in 1 .. Count /\ IdAt(i) \in Ids
      /\ \A k \in 1 .. (i - 1) : k \in 1 .. Count
  BY SeedIsNew
<1>3. /\ queue \in Seq(Ids) /\ ordered \in Seq(Ids) /\ Ranked(queue, Rank)
      /\ Rank \in [Ids -> Nat] /\ \A k \in 1 .. Count : Rank[IdAt(k)] = k
  BY <1>1, DeclIs DEF OrderInv, TypeInv
<1>4. \A x \in Range(queue) : \E k \in 1 .. (i - 1) : x = IdAt(k)
  BY <1>1, <1>3, LineProperties DEF QueueInv
<1>5. \A x \in Range(queue) : Rank[x] < Rank[IdAt(i)]
  <2> SUFFICES ASSUME NEW x \in Range(queue) PROVE Rank[x] < Rank[IdAt(i)]
    OBVIOUS
  <2>1. PICK k \in 1 .. (i - 1) : x = IdAt(k)
    BY <1>4
  <2>2. Rank[x] = k /\ Rank[IdAt(i)] = i
    BY <1>2, <1>3, <2>1
  <2> QED BY <1>1, <2>1, <2>2
<1>6. Ranked(Append(queue, IdAt(i)), Rank)
  BY <1>2, <1>3, <1>5, RankedAppend
<1> QED BY <1>3, <1>6 DEF SeedQueue

\* The seeded queue is the one Turns starts with (EndSeed).
LEMMA SeedIsFirst ==
    ASSUME PlanInv, OrderInv, EndSeed
    PROVE  ordered = <<>> /\ Len(ordered) = 0 /\ Turn(0) = [ordered |-> <<>>, queue |-> queue]
<1> USE DEF PlanInv
<1>1. /\ phase = "seed" /\ Indexed /\ ordered = <<>> /\ queue \in Seq(Ids)
      /\ Count \in Nat /\ i = Count + 1 /\ Ranked(queue, Rank)
  BY DeclarationTypes DEF EndSeed, Indexed, Sorting, TypeInv, QueueInv, OrderInv
<1>2. /\ Decl \in Seq(Ids) /\ Range(Decl) = Declared
      /\ Rank \in [Ids -> Nat] /\ Ranked(Decl, Rank)
  BY <1>1, DeclIs
<1> DEFINE free == {s \in Range(Decl) : Deps[s] = {}}
<1>3. /\ Among(Decl, free) \in Seq(Ids) /\ Ranked(Among(Decl, free), Rank)
      /\ Range(Among(Decl, free)) = Range(Decl) \cap free
  BY <1>2, AmongIs
<1>4. Line = queue
  BY <1>1, ConcatEmptySeq DEF Line
<1>5. 1 .. (i - 1) = 1 .. Count
  BY <1>1
<1>6. /\ \A x \in Range(queue) : \E k \in 1 .. Count : x = IdAt(k)
      /\ \A k \in 1 .. Count : IdAt(k) \in Range(queue) <=> Waits(IdAt(k)) = {}
  BY <1>1, <1>4, <1>5 DEF QueueInv
<1>7. \A x : Waits(x) = In(x)
  BY <1>1, NobodyReleased
<1>8. \A x \in Declared : Deps[x] = In(x)
  BY <1>1, DepsIs
<1>9. \A x : x \in Declared <=> \E k \in 1 .. Count : x = IdAt(k)
  BY DEF Declared
<1>10. \A x : x \in Range(queue) <=> x \in free
  BY <1>2, <1>6, <1>7, <1>8, <1>9
<1>11. Range(queue) = Range(Among(Decl, free))
  BY <1>3, <1>10
<1> HIDE DEF free
<1>12. queue = Among(Decl, free)
  BY <1>1, <1>2, <1>3, <1>11, RankedIsUnique
<1>13. Turns(Decl, Deps)[0] = [ordered |-> <<>>, queue |-> Among(Decl, free)]
  BY <1>2, TurnsAre DEF free
<1>14. Len(ordered) = 0
  BY <1>1, EmptySeq
<1> QED BY <1>1, <1>12, <1>13, <1>14 DEF Turn

\* The first of the queue is ordered, and nobody has joined yet (PopFront).
LEMMA PopStartsTurn ==
    ASSUME PlanInv, OrderInv, PopFront
    PROVE  \E fresh : InTurn(Turn(Len(ordered) - 1), fresh)'
<1> USE DEF PlanInv
<1> DEFINE last == Turn(Len(ordered))
           longer == Append(ordered, Head(queue))
<1>1. /\ phase = "pop" /\ queue # <<>> /\ queue \in Seq(Ids) /\ ordered \in Seq(Ids)
      /\ ordered' = longer /\ queue' = Tail(queue) /\ j' = 1 /\ UNCHANGED adjacency
  BY DEF PopFront, TypeInv
<1>2. last = [ordered |-> ordered, queue |-> queue]
  BY <1>1 DEF OrderInv
<1>3. Head(queue) \in Ids /\ Tail(queue) \in Seq(Ids)
  BY <1>1, HeadTailProperties
<1>4. Len(longer) = Len(ordered) + 1 /\ Len(ordered) \in Nat
  BY <1>1, <1>3, RangeOfAppend, LenProperties
<1>5. Turn(Len(ordered) - 1)' = last
  <2>1. Len(longer) - 1 = Len(ordered)
    BY <1>4
  <2>2. Turn(Len(ordered) - 1)' = Turns(Decl', Deps')[Len(longer) - 1]
    BY <1>1 DEF Turn
  <2>3. Decl' = Decl /\ Deps' = Deps
    BY SameDeclaration DEF Next
  <2> QED BY <2>1, <2>2, <2>3 DEF Turn
<1>6. <<>> \in Seq(Ids) /\ DOMAIN <<>> = {}
  BY EmptySeq, LenProperties
<1>7. Range(<<>>) = {} /\ Ranked(<<>>, Rank')
  BY <1>6 DEF Range, Ranked
<1>8. {x \in Ids : Waits(x)' = {} /\ \E p \in 1 .. (j' - 1) : adjacency'[Current'][p] = x} = {}
  <2>1. 1 .. (j' - 1) = {}
    BY <1>1
  <2> QED BY <2>1
<1>9. Tail(queue) \o <<>> = Tail(queue)
  BY <1>3, ConcatEmptySeq
<1> DEFINE before == Turn(Len(ordered) - 1)'
<1>10. /\ before.queue = queue /\ before.ordered = ordered
  BY <1>2, <1>5
<1> HIDE DEF last, longer, before
<1>11. /\ before.queue \in Seq(Ids) /\ before.queue # <<>> /\ before.ordered \in Seq(Ids)
       /\ ordered' = Append(before.ordered, Head(before.queue))
       /\ queue' = Tail(before.queue) \o <<>>
  BY <1>1, <1>9, <1>10 DEF longer
<1>12. j' <= Len(adjacency'[Current']) + 1
  <2>1. Current' \in Ids
    <3>1. longer[Len(longer)] = Head(queue)
      BY <1>1, <1>3, <1>4, RangeOfAppend DEF longer
    <3> QED BY <1>1, <1>3, <3>1 DEF Current
  <2>2. Len(adjacency[Current']) \in Nat
    BY <2>1, LenProperties DEF TypeInv
  <2> QED BY <1>1, <2>2
<1>13. InTurn(Turn(Len(ordered) - 1), <<>>)'
  BY <1>6, <1>7, <1>8, <1>11, <1>12 DEF InTurn, before
<1> QED BY <1>13

\* A child that is released joins behind those the turn has freed (ReleaseChild).
LEMMA ReleaseGoesOn ==
    ASSUME PlanInv, OrderInv, ReleaseChild
    PROVE  \E fresh : InTurn(Turn(Len(ordered) - 1), fresh)'
<1> USE DEF PlanInv
<1>1. /\ phase = "children" /\ Indexed /\ UNCHANGED <<adjacency, ordered>> /\ j' = j + 1 /\ j \in Nat \ {0}
      /\ queue \in Seq(Ids) /\ Current \in Ids /\ Current' = Current
  BY CurrentProperties DEF ReleaseChild, Indexed, TypeInv, Current
<1>2. PICK child \in Ids : child = adjacency[Current][j]
  BY ChildInIds
<1>3. /\ j \in 1 .. Len(adjacency[Current]) /\ Len(adjacency[Current]) \in Nat
      /\ DOMAIN adjacency[Current] = 1 .. Len(adjacency[Current])
  BY ChildInIds
<1>4. /\ Waits(child)' = Waits(child) \ {Current}
      /\ \A x \in Ids : x # child => Waits(x)' = Waits(x)
      /\ IsReleased(child) <=> Waits(child)' = {}
  BY <1>2, ChildReleased, ReleasedIsReady
<1>5. queue' = IF IsReleased(child) THEN Append(queue, child) ELSE queue
  BY <1>2 DEF ReleaseChild
<1>6. /\ Rank \in [Ids -> Nat] /\ Rank' = Rank /\ Ranked(adjacency[Current], Rank)
      /\ adjacency[Current] \in Seq(Ids)
  BY <1>1, DeclIs, SameDeclaration DEF Next, OrderInv, TypeInv
<1> DEFINE last == Turn(Len(ordered) - 1)
<1>7. PICK fresh : InTurn(last, fresh)
  BY <1>1 DEF OrderInv
<1>8. last' = last
  <2>1. last' = Turns(Decl', Deps')[Len(ordered) - 1]
    BY <1>1 DEF Turn
  <2>2. Decl' = Decl /\ Deps' = Deps
    BY SameDeclaration DEF Next
  <2> QED BY <2>1, <2>2 DEF Turn
<1> HIDE DEF last
<1>9. /\ last.queue \in Seq(Ids) /\ last.queue # <<>> /\ last.ordered \in Seq(Ids)
      /\ ordered = Append(last.ordered, Head(last.queue))
      /\ fresh \in Seq(Ids) /\ Ranked(fresh, Rank)
      /\ queue = Tail(last.queue) \o fresh
      /\ j <= Len(adjacency[Current]) + 1
      /\ Range(fresh) = {x \in Ids : Waits(x) = {} /\ \E p \in 1 .. (j - 1) : adjacency[Current][p] = x}
  BY <1>7 DEF InTurn
<1>10. \A p \in 1 .. (j - 1) : adjacency[Current][p] # child /\ Rank[adjacency[Current][p]] < Rank[child]
  <2> SUFFICES ASSUME NEW p \in 1 .. (j - 1)
               PROVE  adjacency[Current][p] # child /\ Rank[adjacency[Current][p]] < Rank[child]
    OBVIOUS
  <2>1. p \in DOMAIN adjacency[Current] /\ j \in DOMAIN adjacency[Current] /\ p < j
    BY <1>1, <1>3
  <2>2. Rank[adjacency[Current][p]] < Rank[child] /\ Rank[child] \in Nat
    BY <1>2, <1>6, <2>1 DEF Ranked
  <2> QED BY <2>2
<1>11. 1 .. (j' - 1) = 1 .. (j - 1) \cup {j}
  BY <1>1
<1> DEFINE Then(x) == x \in Range(fresh) \/ (x = child /\ IsReleased(child))
<1>12. \A x \in Ids : (Waits(x)' = {} /\ \E p \in 1 .. (j' - 1) : adjacency[Current][p] = x) <=> Then(x)
  <2> SUFFICES ASSUME NEW x \in Ids
               PROVE  (Waits(x)' = {} /\ \E p \in 1 .. (j' - 1) : adjacency[Current][p] = x) <=> Then(x)
    OBVIOUS
  <2>1. CASE x = child
    <3>1. \E p \in 1 .. (j' - 1) : adjacency[Current][p] = x
      BY <1>2, <1>11, <2>1
    <3>2. x \notin Range(fresh)
      BY <1>9, <1>10, <2>1
    <3> QED BY <1>4, <2>1, <3>1, <3>2
  <2>2. CASE x # child
    <3>1. Waits(x)' = Waits(x)
      BY <1>4, <2>2
    <3>2. (\E p \in 1 .. (j' - 1) : adjacency[Current][p] = x) <=> (\E p \in 1 .. (j - 1) : adjacency[Current][p] = x)
      BY <1>2, <1>11, <2>2
    <3> QED BY <1>9, <2>2, <3>1, <3>2
  <2> QED BY <2>1, <2>2
<1>13. j' <= Len(adjacency[Current]) + 1
  BY <1>1, <1>3
<1>14. CASE IsReleased(child)
  <2> DEFINE more == Append(fresh, child)
  <2>1. \A x \in Range(fresh) : Rank[x] < Rank[child]
    BY <1>9, <1>10
  <2>2. more \in Seq(Ids) /\ Ranked(more, Rank)
    BY <1>2, <1>6, <1>9, <2>1, RankedAppend
  <2>3. Range(more) = Range(fresh) \cup {child}
    <3>1. fresh \in Seq(Ids)
      BY <1>9
    <3> QED BY <3>1, RangeOfAppend
  <2>4. queue' = Tail(last.queue) \o more
    <3>1. Tail(last.queue) \in Seq(Ids) /\ <<child>> \in Seq(Ids)
      BY <1>2, <1>9, HeadTailProperties
    <3>2. Append(queue, child) = queue \o <<child>> /\ more = fresh \o <<child>>
      BY <1>1, <1>2, <1>9, AppendIsConcat
    <3>3. (Tail(last.queue) \o fresh) \o <<child>> = Tail(last.queue) \o (fresh \o <<child>>)
      <4>1. fresh \in Seq(Ids)
        BY <1>9
      <4>2. \A s, t, u \in Seq(Ids) : (s \o t) \o u = s \o (t \o u)
        BY ConcatAssociative
      <4> QED BY <3>1, <4>1, <4>2, Zenon
    <3> QED BY <1>5, <1>9, <1>14, <3>2, <3>3
  <2> HIDE DEF more
  <2>5. Range(more) = {x \in Ids : Waits(x)' = {} /\ \E p \in 1 .. (j' - 1) : adjacency[Current][p] = x}
    <3>1. \A x : x \in Range(more) <=> x \in Ids /\ Then(x)
      <4>1. Range(fresh) \subseteq Ids
        BY <1>9
      <4> QED BY <1>14, <2>3, <4>1
    <3> HIDE DEF Then
    <3> QED BY <1>12, <3>1
  <2>6. InTurn(Turn(Len(ordered) - 1), more)'
    BY <1>1, <1>6, <1>8, <1>9, <1>13, <2>2, <2>4, <2>5 DEF InTurn, last
  <2> QED BY <2>6
<1>15. CASE ~ IsReleased(child)
  <2>1. queue' = queue
    BY <1>5, <1>15
  <2>2. Range(fresh) = {x \in Ids : Waits(x)' = {} /\ \E p \in 1 .. (j' - 1) : adjacency[Current][p] = x}
    <3>1. \A x : x \in Range(fresh) <=> x \in Ids /\ Then(x)
      <4>1. Range(fresh) \subseteq Ids
        BY <1>9
      <4> QED BY <1>15, <4>1
    <3> HIDE DEF Then
    <3> QED BY <1>12, <3>1
  <2>3. InTurn(Turn(Len(ordered) - 1), fresh)'
    BY <1>1, <1>6, <1>8, <1>9, <1>13, <2>1, <2>2 DEF InTurn, last
  <2> QED BY <2>3
<1> QED BY <1>14, <1>15

\* When the dependents are all looked at, the turn is what Turned makes of the
\* one before (EndChildren).
LEMMA TurnIsDone ==
    ASSUME PlanInv, OrderInv, EndChildren
    PROVE  Turn(Len(ordered)) = [ordered |-> ordered, queue |-> queue]
<1> USE DEF PlanInv
<1>1. /\ phase = "children" /\ Indexed /\ Sorting /\ ordered # <<>>
      /\ j \in Nat \ {0} /\ j > Len(adjacency[Current])
      /\ Current \in Ids /\ Current \in Range(ordered) /\ Len(ordered) \in Nat \ {0}
  BY CurrentProperties DEF EndChildren, Indexed, Sorting, TypeInv
<1> DEFINE last == Turn(Len(ordered) - 1)
<1>2. PICK fresh : InTurn(last, fresh)
  BY <1>1 DEF OrderInv
<1>3. /\ Decl \in Seq(Ids) /\ Range(Decl) = Declared /\ Len(Decl) = Count
      /\ Rank \in [Ids -> Nat] /\ Ranked(Decl, Rank)
  BY <1>1, DeclIs
<1>4. Len(ordered) \in 1 .. Len(Decl)
  <2>1. Len(ordered) <= Count
    BY <1>1, OrderedFits
  <2>2. Count \in Nat
    BY DeclarationTypes DEF TypeInv
  <2>3. Len(ordered) \in Nat \ {0} /\ Len(Decl) = Count
    BY <1>1, <1>3
  <2> QED BY <2>1, <2>2, <2>3
<1>5. Turn(Len(ordered)) = Turned(last, Decl, Deps)
  BY <1>3, <1>4, TurnsAre DEF Turn
<1> HIDE DEF last
<1>6. /\ last.queue \in Seq(Ids) /\ last.queue # <<>> /\ last.ordered \in Seq(Ids)
      /\ ordered = Append(last.ordered, Head(last.queue))
      /\ fresh \in Seq(Ids) /\ Ranked(fresh, Rank)
      /\ queue = Tail(last.queue) \o fresh
      /\ j <= Len(adjacency[Current]) + 1
      /\ Range(fresh) = {x \in Ids : Waits(x) = {} /\ \E p \in 1 .. (j - 1) : adjacency[Current][p] = x}
  BY <1>2 DEF InTurn
<1>7. Current = Head(last.queue)
  <2>1. Head(last.queue) \in Ids
    BY <1>6, HeadTailProperties
  <2>2. /\ ordered[Len(last.ordered) + 1] = Head(last.queue)
        /\ Len(ordered) = Len(last.ordered) + 1
    BY <1>6, <2>1, RangeOfAppend
  <2> QED BY <2>2 DEF Current
<1> DEFINE freed == {s \in Range(Decl) : Current \in Deps[s] /\ Deps[s] \subseteq Range(ordered)}
<1>8. /\ Among(Decl, freed) \in Seq(Ids) /\ Ranked(Among(Decl, freed), Rank)
      /\ Range(Among(Decl, freed)) = Range(Decl) \cap freed
  BY <1>3, AmongIs
<1>9. \A x \in Ids : (\E p \in 1 .. (j - 1) : adjacency[Current][p] = x) <=> Current \in In(x)
  <2> SUFFICES ASSUME NEW x \in Ids
               PROVE  (\E p \in 1 .. (j - 1) : adjacency[Current][p] = x) <=> Current \in In(x)
    OBVIOUS
  <2>1. /\ Len(adjacency[Current]) \in Nat
        /\ Current \in In(x) <=> \E p \in 1 .. Len(adjacency[Current]) : adjacency[Current][p] = x
    BY <1>1, EdgePlaces
  <2>2. j - 1 = Len(adjacency[Current])
    <3>1. j \in Nat /\ j > Len(adjacency[Current])
      BY <1>1
    <3>2. j <= Len(adjacency[Current]) + 1 /\ Len(adjacency[Current]) \in Nat
      BY <1>6, <2>1
    <3> QED BY <3>1, <3>2
  <2> QED BY <2>1, <2>2
<1>10. \A x \in Ids : Current \in In(x) => (Waits(x) = {} <=> In(x) \subseteq Range(ordered))
  <2> SUFFICES ASSUME NEW x \in Ids, Current \in In(x)
               PROVE  Waits(x) = {} <=> In(x) \subseteq Range(ordered)
    OBVIOUS
  <2>1. Released(Current, x)
    BY <1>1, <1>9 DEF Released
  <2>2. \A d \in In(x) : Released(d, x) <=> d \in Range(ordered)
    BY <1>1, <2>1 DEF Released
  <2> QED BY <2>2 DEF Waits
<1>11. \A x \in Declared : x \in Ids /\ Deps[x] = In(x)
  BY <1>1, DepsIs
<1>12. \A x \in Ids : Current \in In(x) => x \in Declared
  BY DEF EdgeInv
<1>13. \A x : x \in Range(fresh) <=> x \in freed
  <2> TAKE x
  <2>1. x \in Range(fresh) <=> x \in Ids /\ Waits(x) = {} /\ Current \in In(x)
    BY <1>6, <1>9
  <2>2. x \in freed <=> x \in Declared /\ Current \in In(x) /\ In(x) \subseteq Range(ordered)
    BY <1>3, <1>11
  <2> QED BY <1>10, <1>11, <1>12, <2>1, <2>2
<1>14. Range(fresh) = Range(Among(Decl, freed))
  BY <1>8, <1>13
<1> HIDE DEF freed
<1>15. fresh = Among(Decl, freed)
  BY <1>3, <1>6, <1>8, <1>14, RankedIsUnique
<1>16. Turned(last, Decl, Deps) = [ordered |-> ordered, queue |-> Tail(last.queue) \o Among(Decl, freed)]
  BY <1>6, <1>7 DEF Turned, freed
<1> QED BY <1>5, <1>6, <1>15, <1>16

\* After every turn of its loop the planner is where Turns says it is.
LEMMA OrderStep ==
    ASSUME PlanInv, OrderInv, [Next]_vars
    PROVE  OrderInv'
<1>1. /\ Rank' = Rank /\ Decl' = Decl /\ Deps' = Deps
  BY SameDeclaration
<1>2. (Indexed => \A d \in Ids : Ranked(adjacency[d], Rank))'
  BY <1>1, DependentsRanked
<1>3. (phase = "seed" => Ranked(queue, Rank))'
  <2>1. CASE EndEdges
    <3>1. queue' = <<>> /\ DOMAIN <<>> = {}
      BY <2>1, EmptySeq, LenProperties DEF EndEdges, PlanInv, QueueInv, Sorting
    <3> QED BY <3>1 DEF Ranked
  <2>2. CASE SeedQueue
    BY <1>1, <2>2, SeedRanked
  <2>3. CASE UNCHANGED vars
    BY <1>1, <2>3 DEF vars, OrderInv
  <2> QED BY <2>1, <2>2, <2>3
          DEF Next, IndexStep, EndIndex, AddEdge, EndEdgesOfStep, EndSeed, PopFront, ReleaseChild, EndChildren,
              Return, NextDependency
<1>4. (phase = "children" => \E fresh : InTurn(Turn(Len(ordered) - 1), fresh))'
  <2>1. CASE PopFront
    BY <2>1, PopStartsTurn
  <2>2. CASE ReleaseChild
    BY <2>2, ReleaseGoesOn
  <2>3. CASE UNCHANGED vars /\ phase = "children"
    <3> DEFINE last == Turn(Len(ordered) - 1)
    <3>1. PICK fresh : InTurn(last, fresh)
      BY <2>3 DEF OrderInv
    <3>2. last' = last /\ Current' = Current
      BY <1>1, <2>3 DEF vars, Turn, Current
    <3>3. \A x : Waits(x)' = Waits(x)
      BY <2>3 DEF vars, Waits, In, Released, Current
    <3> HIDE DEF last
    <3>4. {x \in Ids : Waits(x) = {} /\ \E p \in 1 .. (j - 1) : adjacency[Current][p] = x}' =
              {x \in Ids : Waits(x) = {} /\ \E p \in 1 .. (j - 1) : adjacency[Current][p] = x}
      BY <2>3, <3>2, <3>3 DEF vars
    <3>5. InTurn(last, fresh)'
      BY <1>1, <2>3, <3>1, <3>2, <3>4 DEF vars, InTurn
    <3> QED BY <3>5 DEF last
  <2> QED BY <2>1, <2>2, <2>3
          DEF Next, IndexStep, EndIndex, AddEdge, EndEdgesOfStep, EndEdges, SeedQueue, EndSeed, EndChildren,
              Return, NextDependency, vars
<1>5. (phase \in {"pop", "ok"} => Turn(Len(ordered)) = [ordered |-> ordered, queue |-> queue])'
  <2>1. CASE EndSeed
    <3>1. ordered = <<>> /\ Len(ordered) = 0 /\ Turn(0) = [ordered |-> <<>>, queue |-> queue]
      BY <2>1, SeedIsFirst
    <3>2. UNCHANGED <<ordered, queue>>
      BY <2>1 DEF EndSeed
    <3> QED BY <1>1, <3>1, <3>2 DEF Turn
  <2>2. CASE EndChildren
    <3>1. Turn(Len(ordered)) = [ordered |-> ordered, queue |-> queue]
      BY <2>2, TurnIsDone
    <3>2. UNCHANGED <<ordered, queue>>
      BY <2>2 DEF EndChildren
    <3> QED BY <1>1, <3>1, <3>2 DEF Turn
  <2>3. CASE Return \/ UNCHANGED vars
    <3>1. UNCHANGED <<ordered, queue>> /\ (phase' \in {"pop", "ok"} => phase \in {"pop", "ok"})
      BY <2>3 DEF Return, vars
    <3> QED BY <1>1, <3>1 DEF OrderInv, Turn
  <2> QED BY <2>1, <2>2, <2>3
          DEF Next, IndexStep, EndIndex, AddEdge, EndEdgesOfStep, EndEdges, SeedQueue, PopFront, ReleaseChild,
              NextDependency
<1> QED BY <1>2, <1>3, <1>4, <1>5 DEF OrderInv

\* The order planning returns is a function of the declaration, PlanOrder: each
\* turn queues the steps it frees in the order they are declared in
\* (order_steps_for_execution, planning.rs:50-63).
THEOREM OrderOfDeclaration == Spec => []AgreesWithPlanOrder
<1>1. Init => OrderInv
  BY DEF Init, OrderInv, Indexed
<1>2. PlanInv /\ OrderInv /\ [Next]_vars => OrderInv'
  BY OrderStep
<1>3. PlanInv /\ OrderInv => AgreesWithPlanOrder
  <2> SUFFICES ASSUME PlanInv, OrderInv, phase = "ok" PROVE ordered = PlanOrder(Decl, Deps)
    BY DEF AgreesWithPlanOrder, Decl, Deps
  <2>1. Len(ordered) = Count /\ Len(Decl) = Count
    BY DeclIs DEF PlanInv, QueueInv, Indexed
  <2>2. Turns(Decl, Deps)[Len(ordered)] = [ordered |-> ordered, queue |-> queue]
    BY DEF OrderInv, Turn
  <2> QED BY <2>1, <2>2 DEF PlanOrder
<1> QED BY <1>1, <1>2, <1>3, PlanHolds, PTL DEF Spec
=============================================================================

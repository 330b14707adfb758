---------------------------- MODULE StepPlanning ----------------------------
(***************************************************************************)
(* order_steps_for_execution: the declared steps of a workflow, put in the *)
(* order they run in, or refused.  One action per turn of one of its loops.*)
(* Source: src/crates/engine/src/executor/planning.rs.                     *)
(***************************************************************************)
EXTENDS Naturals, Sequences, FiniteSets, Functions, PlanOrder

CONSTANTS
    Ids,       \* step identifiers, declared or not
    Inputs     \* the declarations to plan: sequences of [id, deps]

Declaration == [id : Ids, deps : Seq(Ids)]

ASSUME PlanningAssumption == Inputs \subseteq Seq(Declaration)

VARIABLES
    steps,      \* the declaration being planned
    phase,      \* the loop it is in, or the verdict
    i, j,       \* cursors: declared step (from 1), dependency or child of it
    seen,       \* seen_dependencies
    inDegree,   \* in_degrees
    adjacency,  \* adjacency: the steps that depend on a step
    queue, ordered

vars == <<steps, phase, i, j, seen, inDegree, adjacency, queue, ordered>>

Count      == Len(steps)
IdAt(k)    == steps[k].id
Declared   == {IdAt(k) : k \in 1 .. Count}
DepsAt(k)  == Range(steps[k].deps)

Init ==
    /\ steps \in Inputs
    /\ phase = "index"
    /\ i = 1 /\ j = 1
    /\ seen = {}
    /\ inDegree = [s \in Ids |-> 0]
    /\ adjacency = [s \in Ids |-> <<>>]
    /\ queue = <<>> /\ ordered = <<>>

\* lookup.insert, refusing an identifier it already holds.
IndexStep ==
    /\ phase = "index"
    /\ i <= Count
    /\ \/ /\ \E k \in 1 .. (i - 1) : IdAt(k) = IdAt(i)
          /\ phase' = "duplicate" /\ UNCHANGED i
       \/ /\ ~ \E k \in 1 .. (i - 1) : IdAt(k) = IdAt(i)
          /\ i' = i + 1 /\ UNCHANGED phase
    /\ UNCHANGED <<steps, j, seen, inDegree, adjacency, queue, ordered>>

EndIndex ==
    /\ phase = "index"
    /\ i > Count
    /\ phase' = "edges" /\ i' = 1 /\ j' = 1 /\ seen' = {}
    /\ UNCHANGED <<steps, inDegree, adjacency, queue, ordered>>

NextDependency == j' = j + 1

\* One more dependency for the step at hand to wait for.
NewEdgeUncounted(d) ==                                            \* mutant
    adjacency' = [adjacency EXCEPT ![d] = Append(@, IdAt(i))] /\ UNCHANGED inDegree
NewEdge(d) ==
    /\ inDegree' = [inDegree EXCEPT ![IdAt(i)] = @ + 1]
    /\ adjacency' = [adjacency EXCEPT ![d] = Append(@, IdAt(i))]

\* One dependency of one step: refused, repeated, or a new edge.
AddEdge ==
    LET d == steps[i].deps[j] IN
    /\ phase = "edges"
    /\ i <= Count /\ j <= Len(steps[i].deps)
    /\ \/ /\ d \notin Declared
          /\ phase' = "unknown" /\ UNCHANGED <<j, seen, inDegree, adjacency>>
       \/ /\ d \in Declared /\ d = IdAt(i)
          /\ phase' = "self" /\ UNCHANGED <<j, seen, inDegree, adjacency>>
       \/ /\ d \in Declared /\ d # IdAt(i) /\ d \in seen
          /\ NextDependency /\ UNCHANGED <<phase, seen, inDegree, adjacency>>
       \/ /\ d \in Declared /\ d # IdAt(i) /\ d \notin seen
          /\ seen' = seen \cup {d}
          /\ NewEdge(d)
          /\ NextDependency /\ UNCHANGED phase
    /\ UNCHANGED <<steps, i, queue, ordered>>

EndEdgesOfStep ==
    /\ phase = "edges"
    /\ i <= Count /\ j > Len(steps[i].deps)
    /\ i' = i + 1 /\ j' = 1 /\ seen' = {}
    /\ UNCHANGED <<steps, phase, inDegree, adjacency, queue, ordered>>

EndEdges ==
    /\ phase = "edges"
    /\ i > Count
    /\ phase' = "seed" /\ i' = 1
    /\ UNCHANGED <<steps, j, seen, inDegree, adjacency, queue, ordered>>

\* The queue starts with the steps that depend on nothing, as declared.
SeedQueue ==
    /\ phase = "seed"
    /\ i <= Count
    /\ queue' = IF inDegree[IdAt(i)] = 0 THEN Append(queue, IdAt(i)) ELSE queue
    /\ i' = i + 1
    /\ UNCHANGED <<steps, phase, j, seen, inDegree, adjacency, ordered>>

EndSeed ==
    /\ phase = "seed"
    /\ i > Count
    /\ phase' = "pop"
    /\ UNCHANGED <<steps, i, j, seen, inDegree, adjacency, queue, ordered>>

PopBack ==                                                        \* mutant
    /\ phase = "pop"
    /\ queue # <<>>
    /\ ordered' = Append(ordered, queue[Len(queue)])
    /\ queue' = SubSeq(queue, 1, Len(queue) - 1)
    /\ phase' = "children" /\ j' = 1
    /\ UNCHANGED <<steps, i, seen, inDegree, adjacency>>

PopFront ==
    /\ phase = "pop"
    /\ queue # <<>>
    /\ ordered' = Append(ordered, Head(queue))
    /\ queue' = Tail(queue)
    /\ phase' = "children" /\ j' = 1
    /\ UNCHANGED <<steps, i, seen, inDegree, adjacency>>

Current == ordered[Len(ordered)]

\* The dependency just ordered was the last one the child waited for.
IsReleased(child) == inDegree[child] = 1

\* One dependent of the step just ordered has one dependency less to wait for.
ReleaseChild ==
    LET child == adjacency[Current][j] IN
    /\ phase = "children"
    /\ j <= Len(adjacency[Current])
    /\ inDegree' = [inDegree EXCEPT ![child] = @ - 1]
    /\ queue' = IF IsReleased(child) THEN Append(queue, child) ELSE queue
    /\ j' = j + 1
    /\ UNCHANGED <<steps, phase, i, seen, adjacency, ordered>>

EndChildren ==
    /\ phase = "children"
    /\ j > Len(adjacency[Current])
    /\ phase' = "pop"
    /\ UNCHANGED <<steps, i, j, seen, inDegree, adjacency, queue, ordered>>

Return ==
    /\ phase = "pop"
    /\ queue = <<>>
    /\ phase' = IF Len(ordered) = Count THEN "ok" ELSE "cycle"
    /\ UNCHANGED <<steps, i, j, seen, inDegree, adjacency, queue, ordered>>

Next ==
    \/ IndexStep \/ EndIndex
    \/ AddEdge \/ EndEdgesOfStep \/ EndEdges
    \/ SeedQueue \/ EndSeed
    \/ PopFront \/ ReleaseChild \/ EndChildren
    \/ Return

\* The function is sequential code: it runs on.
Spec == Init /\ [][Next]_vars /\ WF_vars(Next)

-----------------------------------------------------------------------------
(* What planning promises *)

\* The steps of an accepted declaration have identifiers of their own, and the
\* order holds every declared step once, each after all of its dependencies
\* (planning.rs: "Build a topologically ordered step list").
OrderIsSound ==
    phase = "ok" =>
        /\ \A k, l \in 1 .. Count : IdAt(k) = IdAt(l) => k = l
        /\ Range(ordered) = Declared
        /\ \A p, q \in DOMAIN ordered : ordered[p] = ordered[q] => p = q
        /\ \A p \in DOMAIN ordered, k \in 1 .. Count :
               ordered[p] = IdAt(k) => \A d \in DepsAt(k) : \E q \in 1 .. (p - 1) : ordered[q] = d

\* A workflow is refused only for the reason given; "cycle" names steps that
\* wait for one another and for nothing else that could still run.
RefusalIsJustified ==
    /\ phase = "duplicate" => \E k, l \in 1 .. Count : k # l /\ IdAt(k) = IdAt(l)
    /\ phase = "unknown" => \E k \in 1 .. Count : ~ (DepsAt(k) \subseteq Declared)
    /\ phase = "self" => \E k \in 1 .. Count : IdAt(k) \in DepsAt(k)
    /\ phase = "cycle" =>
           \E C \in SUBSET Declared :
               /\ C # {}
               /\ \A k \in 1 .. Count : IdAt(k) \in C => DepsAt(k) \cap C # {}

\* What planning returns is sound, an order or a refusal.
ReturnIsSound == OrderIsSound /\ RefusalIsJustified

\* The order returned depends on the declaration only, and is the one PlanOrder
\* states without the bookkeeping: each turn queues the steps it frees in the
\* order they are declared in (planning.rs:50-63).
AgreesWithPlanOrder ==
    LET declared == [k \in 1 .. Count |-> IdAt(k)]
        deps     == [x \in Declared |-> DepsAt(CHOOSE k \in 1 .. Count : IdAt(k) = x)]
    IN  phase = "ok" => ordered = PlanOrder(declared, deps)
=============================================================================

----------------------------- MODULE PlanOrder -----------------------------
(***************************************************************************)
(* The order order_steps_for_execution gives an accepted workflow, as a    *)
(* function of its declaration, for the modules that need the order and    *)
(* not its computation (StepPlanning).                                     *)
(*                                                                         *)
(* declared: the step identifiers as declared; deps: what each depends on. *)
(***************************************************************************)
EXTENDS Naturals, Sequences, Functions

\* The elements of s that are in T, in their order.
Among(s, T) ==
    LET Upto[n \in 0 .. Len(s)] ==
            IF n = 0 THEN <<>>
            ELSE IF s[n] \in T THEN Append(Upto[n - 1], s[n]) ELSE Upto[n - 1]
    IN Upto[Len(s)]

\* A turn of the loop: the first of the queue is ordered, and the steps it was
\* the last dependency of join the queue, as declared.
Turned(last, declared, deps) ==
    LET popped  == Head(last.queue)
        ordered == Append(last.ordered, popped)
        freed   == {s \in Range(declared) : popped \in deps[s] /\ deps[s] \subseteq Range(ordered)}
    IN  IF last.queue = <<>> THEN last
        ELSE [ordered |-> ordered, queue |-> Tail(last.queue) \o Among(declared, freed)]

\* What is ordered and what is queued after each number of turns.
Turns(declared, deps) ==
    LET Turn[k \in 0 .. Len(declared)] ==
            IF k = 0
            THEN [ordered |-> <<>>, queue |-> Among(declared, {s \in Range(declared) : deps[s] = {}})]
            ELSE Turned(Turn[k - 1], declared, deps)
    IN Turn

PlanOrder(declared, deps) == Turns(declared, deps)[Len(declared)].ordered
=============================================================================

-------------------------- MODULE MCWorkflowRerun --------------------------
(* Every dependency graph over three steps that can be declared top to      *)
(* bottom, declared so and in two other ways, `sc` being conditional; and a *)
(* workflow with a template, and one with a step that is repeated.          *)
EXTENDS WorkflowRerun, TLC

CONSTANTS sa, sb, sc

None == [s \in Steps |-> {}]
Graphs == {d \in [Steps -> SUBSET Steps] : d[sa] = {} /\ d[sb] \subseteq {sa} /\ d[sc] \subseteq {sa, sb}}
Define(declared, d) ==
    [planned |-> TRUE, order |-> <<>>, declared |-> declared, deps |-> d, wholes |-> None,
     fields |-> None, conditional |-> {sc}, repeats |-> {}, limit |-> [s \in Steps |-> 0],
     seeds |-> [s \in Steps |-> "absent"]]
Declared == {Define(o, d) : o \in {<<sa, sb, sc>>, <<sc, sb, sa>>, <<sb, sa, sc>>}, d \in Graphs}
Templated == {[Define(<<sa, sb, sc>>, [None EXCEPT ![sc] = {sb}]) EXCEPT !.fields = [None EXCEPT ![sc] = {sa}]]}
Repeated == {[Define(<<sa, sb, sc>>, [None EXCEPT ![sc] = {sb}]) EXCEPT
                    !.conditional = {sb}, !.repeats = {sb}, !.limit = [s \in Steps |-> 2]]}
AllDefinitions == Declared \cup Templated \cup Repeated

\* What is run, what a rerun makes of it, and what a rerun makes of that; a third
\* rerun of three steps has the scope of one before it.
FirstRuns == {Requested(d) : d \in AllDefinitions}
AllRuns   == FirstRuns \cup RerunsOf(FirstRuns) \cup RerunsOf(RerunsOf(FirstRuns))
=============================================================================

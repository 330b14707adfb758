--------------------------- MODULE MCWorkflowRun ---------------------------
(* Small workflows for TLC. *)
EXTENDS WorkflowRunRefinement, TLC

CONSTANTS sa, sb, sc

None == [s \in Steps |-> {}]
Plain ==
    [planned |-> TRUE, declared |-> <<sa, sb, sc>>, order |-> <<sa, sb, sc>>, deps |-> None,
     wholes |-> None, fields |-> None, conditional |-> {}, repeats |-> {}, limit |-> [s \in Steps |-> 0],
     seeds |-> [s \in Steps |-> "absent"]]
Only(s, ds) == [None EXCEPT ![s] = ds]

\* Two steps under control: a chain whose head may be skipped and whose tail is repeated.
Pair == [Plain EXCEPT !.declared = <<sa, sb>>, !.order = <<sa, sb>>, !.deps = Only(sb, {sa}),
                      !.conditional = {sa, sb}, !.repeats = {sb}, !.limit = [s \in Steps |-> 2]]
Refused == [Plain EXCEPT !.planned = FALSE]
ControlWorkflows ==
    {Pair, Refused} \cup {[Plain EXCEPT !.declared = q, !.order = q] : q \in {<<sa, sb>>, <<>>}}

\* Dependency graphs over three steps whose templates mention an earlier step's
\* output with and without depending on it, and a workflow that runs against the
\* order of its declaration over a seeded output.
Graphs ==
    {d \in [Steps -> SUBSET Steps] :
        /\ d[sa] = {} /\ d[sb] \subseteq {sa} /\ d[sc] \subseteq {sa, sb}
        /\ d[sb] = {} => d[sc] \in {{}, {sa, sb}}}
Shapes ==
    {[Plain EXCEPT !.deps = d, !.conditional = {sa}, !.fields = Only(sb, {sa}),
                   !.wholes = Only(sc, {sb})] : d \in Graphs} \cup
    {[Plain EXCEPT !.declared = <<sa, sb>>, !.order = <<sb, sa>>, !.deps = Only(sa, {sb}),
                   !.fields = Only(sb, {sc}), !.seeds = [s \in Steps |-> IF s = sc THEN o ELSE "absent"],
                   !.repeats = {sa}, !.limit = [s \in Steps |-> 5]] : o \in {"null", "value"}}

RunWorkflows == ControlWorkflows \cup Shapes
=============================================================================

--------------------------- MODULE MCStepPlanning ---------------------------
(* Declarations for TLC: every two-step one, repeated and unknown names     *)
(* included; every dependency graph over three steps; one dependency each   *)
(* over four.                                                               *)
EXTENDS StepPlanning, SequencesExt

CONSTANTS sa, sb, sc, sd

UpToTwo == {<<>>} \cup {<<x>> : x \in Ids} \cup {<<x, y>> : x, y \in Ids}
Pairs == {<<[id |-> x, deps |-> p], [id |-> y, deps |-> q]>> : x, y \in {sa, sb}, p, q \in UpToTwo}
Triples ==
    {<<[id |-> sa, deps |-> SetToSeq(p)], [id |-> sb, deps |-> SetToSeq(q)], [id |-> sc, deps |-> SetToSeq(r)]>> :
        p, q, r \in SUBSET {sa, sb, sc}}
Single == {<<>>} \cup {<<x>> : x \in Ids}
Quads ==
    {<<[id |-> sa, deps |-> p], [id |-> sb, deps |-> q], [id |-> sc, deps |-> r], [id |-> sd, deps |-> t]>> :
        p, q, r, t \in Single}
Declarations == {<<>>} \cup Pairs \cup Triples \cup Quads
=============================================================================

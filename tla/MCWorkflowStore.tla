--------------------------- MODULE MCWorkflowStore ---------------------------
(* Instances of WorkflowStore.  A directory may hold a JSON and a YAML file  *)
(* of each name; JSON comes first.                                           *)
EXTENDS WorkflowStore, TLC

CONSTANTS a, b, m1, m2, tui, old, new

PathRank ==
    [p \in Paths |-> (IF p[1] = a THEN 0 ELSE 2)
                       + (IF p[2] = "json" THEN 0 ELSE 1)]

Get1(id) ==
    [op |-> "get", id |-> id, to |-> id, body |-> old, format |-> "json",
     overwrite |-> FALSE, guarded |-> FALSE]
Saves(op, ids, bodies, formats) ==
    {[Get1(id) EXCEPT !.op = op, !.body = body, !.format = format,
                      !.overwrite = overwrite, !.guarded = guarded] :
        id \in ids, body \in bodies, format \in formats,
        overwrite \in BOOLEAN, guarded \in BOOLEAN}
Renames(id, to) ==
    {[Get1(id) EXCEPT !.op = "rename", !.to = to, !.overwrite = overwrite] :
        overwrite \in BOOLEAN}
Simple(op, id) == [Get1(id) EXCEPT !.op = op]

(* Directories whose files are named after their workflows, b in JSON only.  *)
Old(id, p) == [id |-> id, body |-> old, format |-> p[2]]
WellNamed ==
    {[p \in Paths |-> IF p \in held THEN Old(p[1], p) ELSE None] :
        held \in SUBSET (Paths \ {<<b, "yaml">>})}

(* One agent and every operation of the MCP tools; the other agents rest.    *)
ToolRequests ==
    Saves("save", Ids, Bodies, Formats) \cup Saves("author", {a}, {new}, Formats)
        \cup Renames(a, b) \cup {Get1(a), Simple("delete", a), Simple("delete", b)}
Alone(one) == [x \in Agents |-> IF x = one THEN ToolRequests ELSE {}]

(* Two agents and the TUI, on the files of both workflows.                   *)
AgentRequests ==
    {r \in Saves("save", {a}, {new}, {"json"}) : r.overwrite /\ ~r.guarded}
        \cup {r \in Renames(a, b) : r.overwrite}
TuiRequests ==
    {[Simple("tui_import", a) EXCEPT !.body = new], Simple("tui_remove", b)}
Together == [x \in Agents |-> IF x = tui THEN TuiRequests ELSE AgentRequests]

AllWorkloads == {Alone(m1), Alone(m2), Together}
AgentSymmetry == Permutations({m1, m2})
==============================================================================

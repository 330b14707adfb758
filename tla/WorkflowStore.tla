---------------------------- MODULE WorkflowStore ----------------------------
(* The workflow files of the runtime directory and the operations on them.   *)
(*   crates/mcp/src/server/workflow/services/storage.rs   find, write, remove *)
(*   crates/mcp/src/server/workflow/services/sync.rs      into the registry  *)
(*   crates/mcp/src/server/workflow/tools/manifest.rs     the MCP tools      *)
(*   crates/mcp/src/server/workflow/tools/orchestration.rs  save, then run   *)
(*   crates/tui/src/cmd.rs                    import and removal in the TUI  *)
(*   crates/registry/src/workflows.rs         the loader                     *)
(*                                                                           *)
(* A tool call is one thread that runs from its request to its answer and    *)
(* takes no lock on the directory, so calls of several agents, and of the    *)
(* TUI in the same process, meet in any order between two file operations.   *)
(* Every lookup lists the directory, reads all files one by one in the order *)
(* of their paths and takes the first that names the workflow; one file that *)
(* does not parse, or is gone by then, fails the lookup.                     *)
(*                                                                           *)
(* A path is <<name, format>>.  The tools name a file after its workflow, a  *)
(* user who puts one there need not.  The text of a manifest is the workflow *)
(* it names, its body and its format, and stands for its version as well:    *)
(* hashes of different texts are taken to differ.  An open handle is known   *)
(* by where its file is linked now: renaming takes it along.  A file that    *)
(* was opened for writing is Empty until it is written, and Mixed when two   *)
(* handles wrote it: neither parses.                                         *)
EXTENDS Naturals, FiniteSets

CONSTANTS
    Agents,        \* callers: MCP sessions, and the TUI
    Ids,           \* workflow identifiers, and names of files
    Bodies,        \* what a manifest says beyond its identifier
    Formats,       \* file formats
    Rank,          \* the order of paths
    Workloads,     \* what the agents ask: a set of requests for each
    InitialFiles,  \* directories to begin with
    None,          \* no file, no manifest, no handle
    Empty,         \* content of a file opened for writing
    Mixed,         \* content of a file written through two handles
    MaxCalls,      \* bound on the calls
    MaxFaults      \* bound on failed file operations and deaths

Paths == Ids \X Formats
Manifests == [id : Ids, body : Bodies, format : Formats]
Broken == {Empty, Mixed}

Changes == {"save", "author", "rename", "delete", "tui_import", "tui_remove"}
RequestTypes ==
    [op : Changes \cup {"get"}, id : Ids, to : Ids, body : Bodies,
     format : Formats, overwrite : BOOLEAN, guarded : BOOLEAN]

ASSUME StoreAssumption ==
    /\ None \notin Manifests \cup Broken \cup RequestTypes
    /\ None \notin Paths \cup ({"file", "temp"} \X Paths)
    /\ Broken \cap Manifests = {}
    /\ Rank \in [Paths -> Nat]
    /\ \A p, q \in Paths : Rank[p] = Rank[q] => p = q
    /\ Workloads \subseteq [Agents -> SUBSET RequestTypes]
    /\ InitialFiles \subseteq [Paths -> Manifests \cup {None}]
    /\ \A dir \in InitialFiles : \A p \in Paths :
           dir[p] # None => dir[p].format = p[2]
    /\ MaxCalls \in Nat /\ MaxFaults \in Nat

(* Only a save carries a version: a rename takes none (types.rs:95).          *)
ASSUME GuardAssumption ==
    \A w \in Workloads : \A a \in Agents : \A r \in w[a] :
        r.guarded => r.op \in {"save", "author"}

(* Files that are named after their workflows, as the tools name them.  A    *)
(* directory a user has put files in need not be so.                         *)
NamedAfterWorkflows ==
    \A dir \in InitialFiles : \A p \in Paths :
        dir[p] # None => dir[p].id = p[1]

VARIABLES
    requests,      \* the requests of each agent, which stay the same
    file,          \* content of the manifest file at each path
    temp,          \* content of the temporary file beside it
    registry,      \* the workflows in memory
    call,          \* the call of each agent
    known,         \* the text an agent last got, and with it its version
    calls,         \* calls so far, a bound of the model
    faults         \* faults so far, a bound of the model

vars == <<requests, file, temp, registry, call, known, calls, faults>>

------------------------------------------------------------------------------
(* Looking up.  A directory, or what a scan has seen of it, is a function    *)
(* from paths.                                                               *)

Earliest(paths) ==
    CHOOSE p \in paths : \A q \in paths : Rank[p] <= Rank[q]
Holding(dir, id) == {p \in Paths : dir[p] \in Manifests /\ dir[p].id = id}
Answer(dir, id) ==
    IF Holding(dir, id) = {} THEN None ELSE dir[Earliest(Holding(dir, id))]
Loaded(dir) == [id \in Ids |-> Answer(dir, id)]
Nothing == [p \in Paths |-> None]

------------------------------------------------------------------------------
(* Calls.                                                                    *)

Home(id, format) == <<id, format>>
OneTemp(p) == Earliest(Paths)                                        \* mutant
TempOf(p) == p
InTui(c) == c.req.op \in {"tui_import", "tui_remove"}
TargetInPlace(c) == <<"file", c.path>>                               \* mutant
Target(c) ==
    IF InTui(c) THEN <<"file", c.path>> ELSE <<"temp", TempOf(c.path)>>

NoCall ==
    [req |-> None, pc |-> "idle", goal |-> "none", todo |-> {},
     seen |-> Nothing, base |-> None, text |-> None, path |-> None,
     source |-> None, handle |-> None, over |-> None, shown |-> None,
     ran |-> None, outcome |-> "none"]

Set(a, c) == call' = [call EXCEPT ![a] = c]
Answered(c, outcome) ==
    [c EXCEPT !.pc = "done", !.goal = "none", !.outcome = outcome,
              !.todo = {}, !.seen = Nothing, !.handle = None]
End(a, outcome) == Set(a, Answered(call[a], outcome))
Scan(c, goal) == [c EXCEPT !.pc = "list", !.goal = goal, !.seen = Nothing]
Scanned(a, goal) ==
    call[a].pc = "read" /\ call[a].todo = {} /\ call[a].goal = goal
Found(c) == Answer(c.seen, c.req.id)
FoundAt(c) == Earliest(Holding(c.seen, c.req.id))
Quiet == UNCHANGED <<requests, calls, faults>>

Init ==
    /\ requests \in Workloads
    /\ file \in InitialFiles
    /\ temp = Nothing
    /\ registry = Loaded(file)
    /\ call = [a \in Agents |-> NoCall]
    /\ known = [a \in Agents |-> None]
    /\ calls = 0
    /\ faults = 0

(* A request comes in.  A save is refused when its manifest does not pass    *)
(* the checks; the TUI looks only whether the file it would write exists.    *)
(* A guarded save carries the version the agent got last.                    *)
Begin(a) ==
    /\ call[a].pc \in {"idle", "done"}
    /\ calls < MaxCalls
    /\ calls' = calls + 1
    /\ \E r \in requests[a] :
        LET c == [NoCall EXCEPT
                    !.req = r,
                    !.base = IF r.guarded THEN known[a] ELSE None,
                    !.path = Home(r.id, r.format),
                    !.text = [id |-> r.id, body |-> r.body,
                              format |-> r.format]]
        IN /\ r.guarded => known[a] # None /\ known[a].id = r.id
           /\ r.op = "rename" => r.id # r.to
           /\ \/ r.op # "tui_import" /\ Set(a, Scan(c, "lookup"))
              \/ /\ r.op = "tui_import" /\ file[c.path] = None
                 /\ Set(a, [c EXCEPT !.pc = "open"])
              \/ /\ \/ r.op \in {"save", "author"}
                    \/ r.op = "tui_import" /\ file[c.path] # None
                 /\ Set(a, Answered(c, "error"))
    /\ UNCHANGED <<requests, file, temp, registry, known, faults>>

(* The directory is listed, then its files are read.  The search of the TUI  *)
(* passes over what it cannot read and ends with the first match.            *)
List(a) ==
    /\ call[a].pc = "list"
    /\ Set(a, [call[a] EXCEPT !.pc = "read",
                              !.todo = {p \in Paths : file[p] # None}])
    /\ UNCHANGED <<file, temp, registry, known>> /\ Quiet

Tolerant(c) == c.req.op = "tui_remove" /\ c.goal = "lookup"

Read(a) ==
    /\ call[a].pc = "read" /\ call[a].todo # {}
    /\ LET c == call[a]
           p == Earliest(c.todo)
       IN \/ /\ file[p] \in Manifests
             /\ Set(a, [c EXCEPT
                    !.seen[p] = file[p],
                    !.todo = IF Tolerant(c) /\ file[p].id = c.req.id
                             THEN {} ELSE c.todo \ {p}])
          \/ /\ file[p] \notin Manifests
             /\ IF Tolerant(c) THEN Set(a, [c EXCEPT !.todo = c.todo \ {p}])
                               ELSE End(a, "error")
    /\ UNCHANGED <<file, temp, registry, known>> /\ Quiet

Get(a) ==
    /\ Scanned(a, "lookup") /\ call[a].req.op = "get"
    /\ \/ Found(call[a]) = None /\ End(a, "error") /\ UNCHANGED known
       \/ /\ Found(call[a]) # None /\ End(a, "ok")
          /\ known' = [known EXCEPT ![a] = Found(call[a])]
    /\ UNCHANGED <<file, temp, registry>> /\ Quiet

(* A save is refused for a workflow that exists, unless it may be            *)
(* overwritten, and then when it is of another version than expected.        *)
ConflictVersionOnly(c) ==                                            \* mutant
    Found(c) # None /\ c.base # None /\ c.base # Found(c)
Conflict(c) ==
    /\ Found(c) # None
    /\ ~c.req.overwrite \/ (c.base # None /\ c.base # Found(c))

Save(a) ==
    /\ Scanned(a, "lookup") /\ call[a].req.op \in {"save", "author"}
    /\ IF Conflict(call[a]) THEN End(a, "error")
       ELSE Set(a, [call[a] EXCEPT !.pc = "open", !.seen = Nothing])
    /\ UNCHANGED <<file, temp, registry, known>> /\ Quiet

Delete(a) ==
    /\ Scanned(a, "lookup") /\ call[a].req.op \in {"delete", "tui_remove"}
    /\ IF Found(call[a]) = None THEN End(a, "error")
       ELSE Set(a, [call[a] EXCEPT !.pc = "remove", !.seen = Nothing,
                                   !.source = FoundAt(call[a])])
    /\ UNCHANGED <<file, temp, registry, known>> /\ Quiet

(* Renaming finds the source, then the target, each with a scan.             *)
RenameSource(a) ==
    /\ Scanned(a, "lookup") /\ call[a].req.op = "rename"
    /\ LET c == call[a]
       IN IF Found(c) = None THEN End(a, "error")
          ELSE Set(a, Scan([c EXCEPT
                    !.source = FoundAt(c),
                    !.text = [Found(c) EXCEPT !.id = c.req.to],
                    !.path = Home(c.req.to, Found(c).format)], "target"))
    /\ UNCHANGED <<file, temp, registry, known>> /\ Quiet

RenameTargetRemovesFirst(a) ==                                       \* mutant
    /\ Scanned(a, "target")
    /\ LET c == call[a]
       IN IF Answer(c.seen, c.req.to) # None /\ ~c.req.overwrite
          THEN End(a, "error") /\ UNCHANGED file
          ELSE /\ Set(a, [c EXCEPT !.pc = "open", !.seen = Nothing])
               /\ file' = [file EXCEPT ![c.source] = None]
    /\ UNCHANGED <<temp, registry, known>> /\ Quiet

RenameTarget(a) ==
    /\ Scanned(a, "target")
    /\ LET c == call[a]
       IN IF Answer(c.seen, c.req.to) # None /\ ~c.req.overwrite
          THEN End(a, "error")
          ELSE Set(a, [c EXCEPT !.pc = "open", !.seen = Nothing])
    /\ UNCHANGED <<file, temp, registry, known>> /\ Quiet

------------------------------------------------------------------------------
(* Writing and removing files.                                               *)

(* Opening truncates the file that is there; whoever holds it still does.    *)
Open(a) ==
    /\ call[a].pc = "open"
    /\ LET h == Target(call[a])
       IN /\ file' = IF h[1] = "file" THEN [file EXCEPT ![h[2]] = Empty]
                                      ELSE file
          /\ temp' = IF h[1] = "temp" THEN [temp EXCEPT ![h[2]] = Empty]
                                      ELSE temp
          /\ Set(a, [call[a] EXCEPT !.pc = "fill", !.handle = h])
    /\ UNCHANGED <<registry, known>> /\ Quiet

(* Each handle writes from the start of the file; where another has written  *)
(* before, what is longer shows through.                                     *)
Written(old, text) == IF old \in {Empty, text} THEN {text} ELSE {text, Mixed}

Fill(a) ==
    /\ call[a].pc = "fill"
    /\ LET c == call[a]
           h == c.handle
       IN /\ \/ h = None /\ UNCHANGED <<file, temp>>
             \/ /\ h # None /\ h[1] = "file"
                /\ \E w \in Written(file[h[2]], c.text) :
                       file' = [file EXCEPT ![h[2]] = w]
                /\ UNCHANGED temp
             \/ /\ h # None /\ h[1] = "temp"
                /\ \E w \in Written(temp[h[2]], c.text) :
                       temp' = [temp EXCEPT ![h[2]] = w]
                /\ UNCHANGED file
          /\ Set(a, IF InTui(c) THEN Scan([c EXCEPT !.handle = None], "sync")
                    ELSE [c EXCEPT !.pc = "commit", !.handle = None])
    /\ UNCHANGED <<registry, known>> /\ Quiet

(* The handles on a file follow it when it is renamed, and lead nowhere when *)
(* it is replaced or removed.                                                *)
Moved(h, from, to) ==
    IF h = from THEN to ELSE IF h = to THEN None ELSE h
WithMoved(cs, from, to) ==
    [b \in Agents |-> [cs[b] EXCEPT !.handle = Moved(cs[b].handle, from, to)]]

AfterCommitKeeps(c) == Scan(c, "sync")                               \* mutant
AfterCommit(c) ==
    IF c.req.op = "rename" /\ c.source # c.path
    THEN [c EXCEPT !.pc = "remove"] ELSE Scan(c, "sync")

(* `over` and `shown` record what the rename replaced: the file, and what    *)
(* was on offer under the identifier.  The code does not look.               *)
Commit(a) ==
    /\ call[a].pc = "commit"
    /\ LET c == call[a]
           t == TempOf(c.path)
       IN \/ temp[t] = None /\ End(a, "error") /\ UNCHANGED <<file, temp>>
          \/ /\ temp[t] # None
             /\ file' = [file EXCEPT ![c.path] = temp[t]]
             /\ temp' = [temp EXCEPT ![t] = None]
             /\ call' = WithMoved(
                   [call EXCEPT ![a] = AfterCommit([c EXCEPT
                        !.over = file[c.path],
                        !.shown = Answer(file, c.text.id)])],
                   <<"temp", t>>, <<"file", c.path>>)
    /\ UNCHANGED <<registry, known>> /\ Quiet

(* A tool checks that the file exists before it removes it, and passes if it *)
(* does not; when the file goes in between, the removal fails, as it does    *)
(* without the check in the TUI.                                             *)
Remove(a) ==
    /\ call[a].pc = "remove"
    /\ LET c == call[a]
       IN \/ /\ file[c.source] # None
             /\ file' = [file EXCEPT ![c.source] = None]
             /\ call' = WithMoved([call EXCEPT ![a] = Scan(c, "sync")],
                                  <<"file", c.source>>, None)
          \/ /\ file[c.source] = None /\ UNCHANGED file
             /\ \/ ~InTui(c) /\ Set(a, Scan(c, "sync"))
                \/ End(a, "error")
    /\ UNCHANGED <<temp, registry, known>> /\ Quiet

------------------------------------------------------------------------------
(* The registry, and running what was saved.                                 *)

(* The TUI gives up when it finds the registry locked.                       *)
Publish(a) ==
    /\ Scanned(a, "sync")
    /\ LET c == call[a]
       IN \/ /\ registry' = Loaded(c.seen)
             /\ IF c.req.op = "author" THEN Set(a, Scan(c, "inputs"))
                                       ELSE End(a, "ok")
          \/ InTui(c) /\ End(a, "error") /\ UNCHANGED registry
    /\ UNCHANGED <<file, temp, known>> /\ Quiet

(* The inputs are resolved for the workflow as it is found by then; the run  *)
(* looks it up again.  Either may find the inputs or the commands not ready. *)
ResolveInputs(a) ==
    /\ Scanned(a, "inputs")
    /\ \/ End(a, "error")
       \/ Found(call[a]) # None /\ Set(a, Scan(call[a], "run"))
    /\ UNCHANGED <<file, temp, registry, known>> /\ Quiet

Run(a) ==
    /\ Scanned(a, "run")
    /\ \/ End(a, "error")
       \/ /\ Found(call[a]) # None
          /\ Set(a, Answered([call[a] EXCEPT !.ran = Found(call[a])], "ok"))
    /\ UNCHANGED <<file, temp, registry, known>> /\ Quiet

------------------------------------------------------------------------------
(* Faults: a file operation fails and the call answers with the error; the   *)
(* process dies, and on restart loads what the directory holds.              *)

Fail(a) ==
    /\ call[a].pc \in {"open", "fill", "commit", "remove"}
    /\ faults < MaxFaults /\ faults' = faults + 1
    /\ End(a, "error")
    /\ UNCHANGED <<requests, file, temp, registry, known, calls>>

Readable(dir) == \A p \in Paths : dir[p] \notin Broken

Restart ==
    /\ faults < MaxFaults /\ faults' = faults + 1
    /\ registry' = IF Readable(file) THEN Loaded(file)
                                     ELSE [id \in Ids |-> None]
    /\ call' = [a \in Agents |-> NoCall]
    /\ known' = [a \in Agents |-> None]
    /\ UNCHANGED <<requests, file, temp, calls>>

Step(a) ==
    \/ Begin(a) \/ List(a) \/ Read(a)
    \/ Get(a) \/ Save(a) \/ Delete(a) \/ RenameSource(a) \/ RenameTarget(a)
    \/ Open(a) \/ Fill(a) \/ Commit(a) \/ Remove(a)
    \/ Publish(a) \/ ResolveInputs(a) \/ Run(a) \/ Fail(a)

Next == Restart \/ \E a \in Agents : Step(a)

Spec == Init /\ [][Next]_vars

------------------------------------------------------------------------------
(* Properties.                                                               *)

Texts == Manifests \cup {None}
Contents == Manifests \cup Broken \cup {None}
Scans == [Paths -> Texts]
Places == Paths \cup {None}
Handles == ({"file", "temp"} \X Paths) \cup {None}
Steps ==
    {"idle", "list", "read", "open", "fill", "commit", "remove", "done"}
Goals == {"none", "lookup", "target", "sync", "inputs", "run"}
Outcomes == {"none", "ok", "error"}
MaybeRequests == RequestTypes \cup {None}

CallTypes ==
    [req : MaybeRequests, pc : Steps, goal : Goals, todo : SUBSET Paths,
     seen : Scans, base : Texts, text : Texts, path : Places,
     source : Places, handle : Handles, over : Contents, shown : Texts,
     ran : Texts, outcome : Outcomes]

(* Every variable keeps to the values the code gives it.                     *)
TypeOK ==
    /\ requests \in [Agents -> SUBSET RequestTypes]
    /\ file \in [Paths -> Contents]
    /\ temp \in [Paths -> Contents]
    /\ registry \in [Ids -> Texts]
    /\ call \in [Agents -> CallTypes]
    /\ known \in [Agents -> Texts]
    /\ calls \in 0..MaxCalls
    /\ faults \in 0..MaxFaults

(* Only one agent asks for anything, and the TUI for nothing.                *)
ToolsOfOne ==
    \E a \in Agents :
        /\ \A b \in Agents \ {a} : requests[b] = {}
        /\ \A r \in requests[a] : r.op \notin {"tui_import", "tui_remove"}

(* write_atomic (storage.rs:350): a manifest file is whole at any moment,    *)
(* whatever write fails and whenever the process dies.  One that is not      *)
(* fails every lookup of every workflow.  For one agent: two calls that      *)
(* write the same file share the temporary file, and the TUI writes in place.*)
ManifestsWhole == ToolsOfOne => Readable(file)

Succeeded(c) == c.pc = "done" /\ c.outcome = "ok"
Stores(c) == c.req.op \in {"save", "author", "rename"}

(* What save_workflow, rename_workflow and delete_workflow report as done:   *)
(* what was stored is what the next lookup finds, unless a file that comes   *)
(* before it names the same workflow; a renamed workflow has left its file;  *)
(* what workflow_author_and_run has run is what is found; and the registry   *)
(* holds what the directory does (sync.rs:14).  For one agent.               *)
SuccessIsTrue ==
    ToolsOfOne =>
        \A a \in Agents : LET c == call[a] IN
            Succeeded(c) /\ c.req.op \in Changes =>
                /\ registry = Loaded(file)
                /\ Stores(c) =>
                      \/ Answer(file, c.text.id) = c.text
                      \/ \E p \in Holding(file, c.text.id) : Rank[p] < Rank[c.path]
                /\ c.req.op = "rename" /\ c.source # c.path =>
                      file[c.source] = None
                /\ c.req.op = "author" => c.ran = Answer(file, c.text.id)

(* A save or rename that was not asked to overwrite has replaced no file     *)
(* (types.rs:82), and one that names a version has replaced that version or  *)
(* nothing (types.rs:84).  For one agent, because the comparison and the     *)
(* write are apart, and files named after their workflows, because the code  *)
(* compares identifiers, not files.                                          *)
ReplacesOnlyWhatItMay ==
    ToolsOfOne =>
        \A a \in Agents : LET c == call[a] IN
            Succeeded(c) /\ Stores(c) =>
                /\ c.req.overwrite \/ c.over = None
                /\ c.base = None \/ c.shown \in {c.base, None}

Held(dir) == {dir[p].body : p \in {q \in Paths : dir[q] \in Manifests}}
Asked(c) ==
    \/ c.pc = "remove" /\ c.req.op \in {"delete", "tui_remove"}
    \/ c.pc = "commit" /\ c.req.overwrite

(* A body is lost from the directory only by a deletion, or by a write that  *)
(* was allowed to overwrite: at no point of a rename, a failed write or a    *)
(* death of the process.  For one agent.                                     *)
BodiesSurvive ==
    [][ToolsOfOne => \/ Held(file) \subseteq Held(file')
                     \/ \E a \in Agents : Asked(call[a])]_vars

(* No step of a call changes what a lookup answers for a workflow the call   *)
(* is not about, whatever other calls are under way.  For files named after  *)
(* their workflows.                                                          *)
OthersUntouched ==
    [][\A id \in Ids : Answer(file', id) # Answer(file, id) =>
        \E a \in Agents : call'[a] # call[a] /\ call[a].req # None
                         /\ id \in {call[a].req.id, call[a].req.to}]_vars
==============================================================================

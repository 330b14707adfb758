-------------------------- MODULE PaletteExecution --------------------------
(***************************************************************************)
(* A command from the palette to its answer: the input and the flag that   *)
(* says it is destructive, the confirmation modal, the effects queued for  *)
(* the next tick, the tasks that send requests, the answers that are told  *)
(* apart by a hash of the input, and the command history.                  *)
(* Source: crates/tui/src/ui/components/palette/state.rs and               *)
(* palette_component.rs, cmd.rs, ui/runtime.rs.                            *)
(*                                                                         *)
(* A text stands for an input line and for its hash (no two inputs of one  *)
(* session collide).  What an input is depends on the command registry,    *)
(* which catalogs and plugins join and leave at any time: `offers` says    *)
(* what it has under the first two words of each input.  Suggestions are   *)
(* here only as a popup that is open.                                      *)
(***************************************************************************)
EXTENDS Naturals, FiniteSets, SequencesExt

CONSTANTS
    Texts,      \* inputs of two words or more: a group, a command and arguments
    MayName,    \* MayName[t]: what the registry may have under the words of t
    Unsendable, \* inputs whose base URL or headers may be unresolved
    MaxRuns,    \* bound on the requests of a session
    MaxQueue    \* bound on the effects that wait for a tick

Http == {"read", "delete"}              \* HTTP commands; a DELETE is destructive
Kinds == Http \cup {"tool", "none"}     \* an MCP command, or none of that name
Registries == {o \in [Texts -> Kinds] : \A t \in Texts : o[t] \in MayName[t]}
None == "none"
Empty == "empty"

ASSUME PaletteAssumption ==
    /\ MayName \in [Texts -> SUBSET Kinds]
    /\ {None, Empty} \cap Texts = {}
    /\ Unsendable \subseteq Texts
    /\ MaxRuns \in Nat /\ MaxQueue \in Nat

VARIABLES
    offers,          \* the command registry
    input, popup,    \* what is typed, and whether suggestions are open
    flag,            \* is_destructive
    known,           \* history: what is typed is a DELETE, as the registry said at the time
    hash,            \* cmd_exec_hash
    pending,         \* pending_command_id and pending_command_input
    saved,           \* stored_commands
    screen,          \* the content view and the modal
    queue, batch,    \* effects that wait for a tick, and those of the tick under way
    tasks,           \* requests that are working, or whose answer waits for the loop
    active,          \* active_exec_count
    executing,       \* app.executing
    started,         \* counts requests up to MaxRuns
    sent             \* the inputs a request was made for

line == <<input, popup, flag, known>>
memory == <<hash, pending, saved>>
work == <<tasks, active, started>>
vars == <<offers, line, memory, screen, queue, batch, work, executing, sent>>

Outcomes == {"body", "nobody", "failed", "unsent"}
Succeeded == {"body", "nobody"}
Palette == [view |-> "palette", modal |-> None]

Init ==
    /\ offers \in Registries
    /\ input = Empty /\ popup = FALSE /\ flag = FALSE /\ known = FALSE
    /\ hash = None /\ pending = None /\ saved = {}
    /\ screen = Palette /\ queue = <<>> /\ batch = <<>>
    /\ tasks = {} /\ active = 0 /\ executing = FALSE /\ started = 0
    /\ sent = {}

Idle == batch = <<>>
AtPalette == Idle /\ screen = Palette
Room(n) == Len(queue) + n <= MaxQueue
Effect(what, text) == [do |-> what, text |-> text, unasked |-> what = "run" /\ known]
Queue(es) == Room(Len(es)) /\ queue' = queue \o es

-----------------------------------------------------------------------------
(* Keys *)

JudgeNothing(t, locked) == flag' = flag

\* update_is_destructive: an input of one word is none; one that the registry has
\* no HTTP command for, or cannot be asked about, leaves the flag as it is.
Judge(t, locked) ==
    \/ t = Empty /\ flag' = FALSE
    \/ t # Empty /\ ~locked /\ offers[t] \in Http /\ flag' = (offers[t] = "delete")
    \/ t # Empty /\ (locked \/ offers[t] \notin Http) /\ flag' = flag

\* The input becomes t, and is judged by what the registry has at that moment.
Typed(t) ==
    /\ input' = t
    /\ \E locked \in BOOLEAN :
          /\ Judge(t, locked)
          /\ known' = (t # Empty /\ ~locked /\ offers[t] = "delete")

\* Typing, the history keys and an accepted suggestion: the popup closes.
Edit(t) ==
    /\ AtPalette
    /\ Typed(t) /\ popup' = FALSE
    /\ UNCHANGED <<memory, screen, queue, batch, work, executing, sent>>

\* Tab
Suggest ==
    /\ AtPalette /\ input # Empty
    /\ popup' \in BOOLEAN
    /\ UNCHANGED <<input, flag, known, memory, screen, queue, batch, work, executing, sent>>

\* reduce_clear_all: the flag stays.
ClearAll == input' = Empty /\ known' = FALSE /\ popup' = FALSE /\ hash' = None /\ pending' = None

Escape ==
    /\ AtPalette
    /\ \/ popup /\ popup' = FALSE /\ UNCHANGED <<input, known, memory>>
       \/ ~popup /\ ClearAll /\ UNCHANGED saved
    /\ UNCHANGED <<flag, screen, queue, batch, work, executing, sent>>

\* handle_enter on a closed popup: the hash is set before the user is asked.
Enter ==
    /\ AtPalette /\ ~popup
    /\ hash' = input
    /\ Queue(<<IF flag THEN Effect("confirm", None) ELSE Effect("run", input)>>)
    /\ UNCHANGED <<line, pending, saved, screen, batch, work, executing, sent>>

\* A button of a modal: the modal closes at the next tick.
Press(modal, es) ==
    /\ Idle /\ screen.modal = modal
    /\ Queue(<<Effect("close", None)>> \o es)
    /\ UNCHANGED <<line, memory, screen, batch, work, executing, sent>>

Confirm == Press("confirm", <<Effect("confirmed", None)>>)
Close == Press("confirm", <<>>) \/ Press("results", <<>>)

\* Another view, and back, also with a command of the browser.
Leave ==
    /\ AtPalette /\ Queue(<<Effect("leave", None)>>)
    /\ UNCHANGED <<line, memory, screen, batch, work, executing, sent>>

Return ==
    /\ Idle /\ screen.view = "other"
    /\ \/ Queue(<<Effect("return", None)>>)
       \/ \E t \in Texts : Queue(<<Effect("return", None), Effect("send", t)>>)
    /\ UNCHANGED <<line, memory, screen, batch, work, executing, sent>>

-----------------------------------------------------------------------------
(* The tick, and the effects it carries out *)

Navigated(s, e) ==
    CASE e.do = "leave" -> [s EXCEPT !.view = "other"]
      [] e.do = "return" -> [s EXCEPT !.view = "palette"]
      [] e.do = "close" -> [s EXCEPT !.modal = None]
      [] e.do \in {"confirm", "results"} -> [s EXCEPT !.modal = e.do]

Tick ==
    /\ Idle /\ queue # <<>>
    /\ batch' = queue /\ queue' = <<>>
    /\ UNCHANGED <<line, memory, screen, work, executing, sent>>

\* Navigation first, messages last, and each in the order they were queued.
Place(e) == CASE e.do \in {"run", "send"} -> 1 [] e.do = "confirmed" -> 2 [] OTHER -> 0

Due(i) ==
    /\ i \in DOMAIN batch /\ batch' = RemoveAt(batch, i)
    /\ \A j \in DOMAIN batch \ {i} :
           \/ Place(batch[i]) < Place(batch[j])
           \/ Place(batch[i]) = Place(batch[j]) /\ i < j

\* handle_navigation_effects
Navigate(i) ==
    /\ Due(i) /\ Place(batch[i]) = 0
    /\ screen' = Navigated(screen, batch[i])
    /\ UNCHANGED <<line, memory, queue, work, executing, sent>>

OutstandingByCount(ts) == active > 0

\* A request is out as long as it is counted or its answer waits for the loop.
Outstanding(ts) ==
    active > 0 \/ ts # {}
StillExecuting == executing' = Outstanding(tasks)

\* handle_send_to_palette, and the suggestions rebuilt after it.
SendToPalette(i) ==
    /\ Due(i) /\ batch[i].do = "send"
    /\ Typed(batch[i].text) /\ popup' \in BOOLEAN
    /\ StillExecuting
    /\ UNCHANGED <<memory, screen, queue, work, sent>>

\* run_command, validate_command: an error is shown for an input that is empty,
\* that names no command, or whose arguments the command refuses.
Refuse(i) ==
    /\ Due(i) /\ batch[i].do = "run"
    /\ StillExecuting
    /\ UNCHANGED <<line, memory, screen, queue, work, sent>>

\* persist_execution_context, spawn_execute_http and spawn_execute_mcp: without a
\* base URL or headers nothing is sent, and nobody takes the count back.
Run(i) ==
    LET e == batch[i]
    IN /\ Due(i) /\ e.do = "run" /\ e.text \in Texts /\ offers[e.text] # "none"
       /\ started < MaxRuns /\ started' = started + 1
       /\ pending' = e.text
       /\ \E stage \in {"working"} \cup
                        IF e.text \in Unsendable /\ offers[e.text] \in Http THEN {"unsent"} ELSE {} :
              tasks' = tasks \cup {[id |-> CHOOSE n \in 1 .. MaxRuns : \A t \in tasks : t.id # n,
                                    text |-> e.text, stage |-> stage]}
       /\ active' = active + 1 /\ executing' = TRUE
       /\ sent' = sent \cup {e.text}
       /\ UNCHANGED <<line, hash, saved, screen, queue>>

\* The answer of the modal runs what is typed now.
Confirmed(i) ==
    /\ Due(i) /\ batch[i].do = "confirmed"
    /\ IF screen = Palette /\ ~popup
       THEN /\ hash' = input
            /\ queue' = Append(queue, [Effect("run", input) EXCEPT !.unasked = FALSE])
       ELSE UNCHANGED <<hash, queue>>
    /\ StillExecuting
    /\ UNCHANGED <<line, pending, saved, screen, work, sent>>

-----------------------------------------------------------------------------
(* Requests and answers *)

\* execute_http_task, execute_mcp_task
Answered(t) ==
    /\ t.stage = "working"
    /\ \E o \in Outcomes \ {"unsent"} :
          tasks' = (tasks \ {t}) \cup {[t EXCEPT !.stage = o]}
    /\ active' = active - 1
    /\ UNCHANGED <<line, memory, screen, queue, batch, executing, started, sent>>

FinalizeTyped ==
    /\ saved' = saved \cup ({input} \ {Empty})
    /\ ClearAll

\* finalize_successful_execution
Finalize ==
    /\ saved' = saved \cup ({pending} \ {None})
    /\ ClearAll

\* process_general_execution_result: only an answer with the hash of the last
\* Enter counts, on the palette without a modal.
Counts(t) == screen = Palette /\ hash = t.text /\ t.stage \in Succeeded \cup {"unsent"}

Join(t) ==
    /\ Idle /\ t.stage # "working"
    /\ tasks' = tasks \ {t}
    /\ executing' = Outstanding(tasks')
    /\ IF Counts(t)
       THEN /\ Finalize
            /\ IF t.stage = "nobody" THEN UNCHANGED queue ELSE Queue(<<Effect("results", None)>>)
       ELSE UNCHANGED <<input, known, popup, memory, queue>>
    /\ UNCHANGED <<flag, screen, batch, active, started, sent>>

-----------------------------------------------------------------------------
Carry == \E i \in DOMAIN batch :
    Navigate(i) \/ SendToPalette(i) \/ Refuse(i) \/ Run(i) \/ Confirmed(i)
Keys == (\E t \in Texts \cup {Empty} : Edit(t)) \/ Suggest \/ Escape \/ Enter \/ Confirm \/ Close
            \/ Leave \/ Return

\* A catalog or a plugin brings commands or takes them away: in the library, or
\* through an MCP tool or a plugin's event, which other tasks handle meanwhile.
ChangeRegistry ==
    /\ offers' \in Registries
    /\ UNCHANGED <<line, memory, screen, queue, batch, work, executing, sent>>

Next ==
    \/ ChangeRegistry
    \/ /\ Keys \/ Tick \/ Carry \/ \E t \in tasks : Answered(t) \/ Join(t)
       /\ UNCHANGED offers

Spec == Init /\ [][Next]_vars

-----------------------------------------------------------------------------
(* Properties *)

\* What the registry said was a DELETE when it was typed is never sent on Enter
\* alone, however the input came about and whatever happens between Enter, the
\* modal and the tick.  Nothing asks about an input that was typed while its
\* catalog was disabled or the registry locked, or whose command became a DELETE
\* later: the flag is not judged again (palette/state.rs:387-401).
DeletesAreAsked ==
    \A e \in Range(queue) \cup Range(batch) : ~e.unasked

\* The spinner turns while a request has not come back, and stops with the last,
\* unless a request could not be sent.
SpinnerTellsTruth ==
    Idle => /\ tasks # {} => executing
            /\ tasks = {} /\ executing => active > 0 /\ Unsendable # {}

\* A command enters the persisted history only if a request was made for it:
\* not one that was refused, called off in the modal or only typed.
HistoryIsOfRuns ==
    saved \subseteq sent
=============================================================================

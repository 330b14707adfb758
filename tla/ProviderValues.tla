--------------------------- MODULE ProviderValues ---------------------------
(***************************************************************************)
(* Values offered by providers: the cache with its time to live and its    *)
(* set of fetches in flight, the blocking tasks that fetch, and the two    *)
(* consumers on the event loop, the popup of the command palette and the   *)
(* selector of the collector modal.                                        *)
(* Source: src/crates/engine/src/provider/registry.rs, crates/tui/src/app.rs, *)
(* cmd.rs, ui/runtime.rs, the palette and the workflow collector.          *)
(*                                                                         *)
(* A key stands for a provider together with its arguments; every key here *)
(* is of the same provider, the case in which the consumers can be         *)
(* confused.  What a fetch returns is some rows or none.                   *)
(***************************************************************************)
EXTENDS Naturals, Sequences, FiniteSets

CONSTANTS
    Keys,       \* cache keys
    MaxReady,   \* bound on the outcomes of one key that wait for the event loop
    MaxExpiries \* bound on the times an entry outlives its time to live

ASSUME ProviderAssumption ==
    MaxReady \in Nat \ {0} /\ MaxExpiries \in Nat /\ "none" \notin Keys

VARIABLES
    cache,      \* what is fresh for each key: "none", "rows" or "empty"
    inFlight,   \* active_fetches
    jobs,       \* how many fetches of each key are at each stage
    todo,       \* what the event loop has still to do for the event it handles
    missed,     \* the lookup at the head of todo has missed
    palette,    \* the provider key of the input, and the popup
    selector,   \* workflows.collector
    screen,     \* the content view, the modal, queued navigation
    unheard,    \* a failure the selector waited for went to another view
    expiries    \* counts expiries up to MaxExpiries

fetches == <<cache, inFlight, jobs, expiries>>
views == <<palette, selector, screen, unheard>>
vars == <<fetches, todo, missed, views>>

Stages == {"queued", "fetching", "stored", "failed", "values", "failure"}
Modals == {"collector", "other"}
Views == {"palette", "inputs"}
NoSelector == [key |-> "none", target |-> "none", status |-> "none", pending |-> "none",
               items |-> "none", of |-> "none"]

Init ==
    /\ cache = [k \in Keys |-> "none"]
    /\ inFlight = {}
    /\ jobs = [k \in Keys |-> [s \in Stages |-> 0]]
    /\ todo = <<>> /\ missed = FALSE
    /\ palette = [want |-> "none", loading |-> FALSE, open |-> FALSE, shown |-> "none"]
    /\ selector = NoSelector
    /\ screen = [view |-> "palette", modal |-> "none", nav |-> "none"]
    /\ unheard = FALSE /\ expiries = 0

Move(k, from, to) == [jobs EXCEPT ![k][from] = @ - 1, ![k][to] = @ + 1]

\* The event loop handles one event at a time.
Free == todo = <<>>
Queue(to) == screen' = [screen EXCEPT !.nav = to]

-----------------------------------------------------------------------------
(* The blocking tasks: complete_fetch *)

\* fetch_and_cache: the values are stored, or nothing is.
Fetch(k) ==
    /\ jobs[k]["fetching"] > 0
    /\ \/ /\ \E v \in {"rows", "empty"} : cache' = [cache EXCEPT ![k] = v]
          /\ jobs' = Move(k, "fetching", "stored")
       \/ /\ jobs' = Move(k, "fetching", "failed")
          /\ UNCHANGED cache
    /\ UNCHANGED <<inFlight, expiries, todo, missed, views>>

Done(k, from, to) ==
    /\ jobs[k][from] > 0 /\ jobs[k]["values"] + jobs[k]["failure"] < MaxReady
    /\ jobs' = Move(k, from, to)
    /\ UNCHANGED <<cache, expiries, todo, missed, views>>

\* finish_fetch, whatever the outcome.
Finish(k) ==
    /\ Done(k, "stored", "values") \/ Done(k, "failed", "failure")
    /\ inFlight' = inFlight \ {k}

\* The time to live of an entry runs out.
Expire(k) ==
    /\ cache[k] # "none" /\ expiries < MaxExpiries
    /\ cache' = [cache EXCEPT ![k] = "none"]
    /\ expiries' = expiries + 1
    /\ UNCHANGED <<inFlight, jobs, todo, missed, views>>

-----------------------------------------------------------------------------
(* A lookup, and what its consumer does with the outcome *)

KeyOf(consumer) == IF consumer = "palette" THEN palette.want ELSE selector.key

\* apply_build_suggestions: suggestions of other kinds may open the popup where
\* the provider has none.
ShowSuggestions(v) ==
    \E open \in {v = "rows", TRUE} :
        palette' = [palette EXCEPT !.loading = FALSE, !.open = open,
                                   !.shown = IF v = "rows" THEN palette.want ELSE "none"]

\* apply_selector_items_or_fallback: an input without values is left to manual
\* entry, unless the selector holds earlier values.
ApplyItems(v) ==
    selector' =
        IF v = "empty" /\ selector.target = "input"
        THEN IF selector.items = "rows" THEN selector ELSE [selector EXCEPT !.status = "Error"]
        ELSE [selector EXCEPT !.status = "Loaded", !.pending = "none",
                              !.items = v, !.of = selector.key]

\* "loading more" opens the popup.
AwaitSuggestions ==
    palette' = [palette EXCEPT !.loading = TRUE, !.open = TRUE, !.shown = "none"]

AwaitItems(consumer) ==
    selector' = [selector EXCEPT !.pending = selector.key,
                                 !.status = IF consumer = "prepare" THEN "Loading" ELSE @]

\* cached_values_or_plan, first half: lookup_fresh.
Lookup ==
    LET k == KeyOf(Head(todo)) v == IF k = "none" THEN "empty" ELSE cache[k] IN
    /\ ~Free /\ ~missed /\ Head(todo) \in {"palette", "prepare", "answer"}
    /\ IF v = "none"
       THEN missed' = TRUE /\ UNCHANGED <<todo, palette, selector>>
       ELSE /\ todo' = Tail(todo) /\ UNCHANGED missed
            /\ IF Head(todo) = "palette"
               THEN ShowSuggestions(v) /\ UNCHANGED selector
               ELSE ApplyItems(v) /\ UNCHANGED palette
    /\ unheard' = (unheard /\ selector'.status = "Loading")
    /\ UNCHANGED <<fetches, screen>>

BeginAlways ==                                                    \* mutant
    LET k == KeyOf(Head(todo)) IN
    /\ missed
    /\ inFlight' = inFlight \cup {k}
    /\ jobs' = [jobs EXCEPT ![k]["queued"] = @ + 1]
    /\ IF Head(todo) = "palette" THEN AwaitSuggestions /\ UNCHANGED selector
       ELSE AwaitItems(Head(todo)) /\ UNCHANGED palette
    /\ todo' = Tail(todo) /\ missed' = FALSE
    /\ UNCHANGED <<cache, expiries, screen, unheard>>

\* Second half, under another lock: try_begin_fetch.  Only the caller that
\* begins a fetch queues the effect that dispatches it.
Begin ==
    LET k == KeyOf(Head(todo)) IN
    /\ missed
    /\ inFlight' = inFlight \cup {k}
    /\ jobs' = IF k \in inFlight THEN jobs ELSE [jobs EXCEPT ![k]["queued"] = @ + 1]
    /\ IF Head(todo) = "palette" THEN AwaitSuggestions /\ UNCHANGED selector
       ELSE AwaitItems(Head(todo)) /\ UNCHANGED palette
    /\ todo' = Tail(todo) /\ missed' = FALSE
    /\ UNCHANGED <<cache, expiries, screen, unheard>>

-----------------------------------------------------------------------------
(* The event loop: ticks and joined tasks *)

TickWithoutRebuild ==                                             \* mutant
    /\ Free
    /\ todo' = <<"effects">>
    /\ UNCHANGED <<fetches, missed, views>>

\* A tick rebuilds suggestions that are still loading, then carries out every
\* queued effect.
Tick ==
    /\ Free
    /\ todo' = (IF palette.open /\ palette.loading THEN <<"palette">> ELSE <<>>) \o <<"effects">>
    /\ UNCHANGED <<fetches, missed, views>>

\* handle_navigation_effects.
Navigated ==
    LET to == screen.nav IN
    [view  |-> IF to \in Views THEN to ELSE screen.view,
     modal |-> IF to \in Modals THEN to ELSE IF to = "close" THEN "none" ELSE screen.modal,
     nav   |-> "none"]

\* Navigation first; leaving the inputs closes their selector.
ProcessEffects ==
    /\ ~Free /\ Head(todo) = "effects"
    /\ screen' = Navigated
    /\ selector' = IF screen.view = "inputs" /\ screen'.view # "inputs" THEN NoSelector ELSE selector
    /\ jobs' = [k \in Keys |->
                   [jobs[k] EXCEPT !["queued"] = 0, !["fetching"] = @ + jobs[k]["queued"]]]
    /\ todo' = Tail(todo)
    /\ UNCHANGED <<cache, inFlight, expiries, missed, palette, unheard>>

Delivered(k, stage) ==
    /\ Free /\ jobs[k][stage] > 0
    /\ jobs' = [jobs EXCEPT ![k][stage] = @ - 1]
    /\ UNCHANGED <<cache, inFlight, expiries, missed>>

AnswerWithArrived(k) ==                                           \* mutant
    /\ Delivered(k, "values")
    /\ todo' = IF palette.loading THEN <<"palette">> ELSE <<>>
    /\ selector' = IF selector.key = "none" \/ cache[k] = "none" THEN selector
                   ELSE [selector EXCEPT !.status = "Loaded", !.pending = "none",
                                         !.items = cache[k], !.of = k]
    /\ UNCHANGED <<palette, screen, unheard>>

AnswerOne(k) ==                                                   \* mutant
    /\ Delivered(k, "values")
    /\ todo' = IF palette.loading THEN <<"palette">>
               ELSE IF selector.key # "none" /\ selector.pending \in {"none", k} THEN <<"answer">> ELSE <<>>
    /\ UNCHANGED views

\* handle_provider_values_ready: the consumers look their own key up again.  A
\* selector that awaits no key takes the arrival of any of its provider's.
ValuesReady(k) ==
    /\ Delivered(k, "values")
    /\ todo' = (IF palette.loading THEN <<"palette">> ELSE <<>>) \o
               (IF selector.key # "none" /\ selector.pending \in {"none", k} THEN <<"answer">> ELSE <<>>)
    /\ UNCHANGED views

\* A failure carries no key, and goes to the modal or else to the content view.
FetchFailed(k) ==
    LET to == IF screen.modal = "none" THEN screen.view ELSE screen.modal
        waiting == selector.pending # "none" \/ selector.status = "Loading"
    IN
    /\ Delivered(k, "failure")
    /\ selector' = IF to = "collector" /\ waiting
                   THEN [selector EXCEPT !.status = "Error", !.pending = "none"] ELSE selector
    /\ unheard' = (unheard \/ (to # "collector" /\ selector.status = "Loading" /\ selector.key = k))
    /\ IF to = "palette" /\ palette.loading
       THEN \E open \in {palette.open, FALSE} :
                palette' = [palette EXCEPT !.loading = FALSE, !.open = open]
       ELSE UNCHANGED palette
    /\ UNCHANGED <<todo, screen>>

-----------------------------------------------------------------------------
(* The user.  Bound: one navigation at a time is queued by keys. *)

At(view, modal) == Free /\ screen.view = view /\ screen.modal = modal
Settled == screen.nav = "none"

\* Typing, accepting a suggestion or recalling an input closes the popup, whose
\* list is rebuilt before it opens again; the input may then need another key.
Edit ==
    /\ At("palette", "none")
    /\ \E k \in Keys \cup {"none"} :
           palette' = [palette EXCEPT !.want = k, !.open = FALSE, !.shown = "none"]
    /\ UNCHANGED <<fetches, todo, missed, selector, screen, unheard>>

\* Tab.
Complete ==
    /\ At("palette", "none") /\ palette.want # "none"
    /\ todo' = <<"palette">>
    /\ UNCHANGED <<fetches, missed, views>>

\* Escape closes the popup.
Dismiss ==
    /\ At("palette", "none") /\ palette.open
    /\ palette' = [palette EXCEPT !.open = FALSE, !.shown = "none"]
    /\ UNCHANGED <<fetches, todo, missed, selector, screen, unheard>>

\* F1 rebuilds the suggestions and shows the help of the command.
Help ==
    /\ At("palette", "none") /\ palette.want # "none" /\ Settled
    /\ todo' = <<"palette">>
    /\ Queue("other")
    /\ UNCHANGED <<fetches, missed, palette, selector, unheard>>

Opened(k, target) ==
    [NoSelector EXCEPT !.key = k, !.target = target, !.status = "Loading"]

\* A row of the popup stands for all the values: the selector is opened.
SelectFromPalette ==
    /\ At("palette", "none") /\ Settled
    /\ palette.open /\ palette.shown # "none"
    /\ selector' = Opened(palette.want, "palette")
    /\ palette' = [palette EXCEPT !.open = FALSE, !.shown = "none", !.loading = FALSE]
    /\ todo' = <<"prepare">> /\ unheard' = FALSE
    /\ Queue("collector")
    /\ UNCHANGED <<fetches, missed>>

\* Enter on an input of a workflow.
SelectForInput ==
    /\ At("inputs", "none") /\ Settled
    /\ \E k \in Keys : selector' = Opened(k, "input")
    /\ todo' = <<"prepare">> /\ unheard' = FALSE
    /\ Queue("collector")
    /\ UNCHANGED <<fetches, missed, palette>>

\* "r" in the selector.
Retry ==
    /\ Free /\ screen.modal = "collector" /\ selector.key # "none"
    /\ selector' = [selector EXCEPT !.status = "Loading"]
    /\ todo' = <<"prepare">> /\ unheard' = FALSE
    /\ UNCHANGED <<fetches, missed, palette, screen>>

\* Applying a selected or manual value to the palette edits its input.
Apply ==
    /\ Free /\ screen.modal = "collector" /\ selector.target = "palette" /\ Settled
    /\ \E k \in Keys \cup {"none"} :
           palette' = [want |-> k, loading |-> FALSE, open |-> FALSE, shown |-> "none"]
    /\ Queue("close")
    /\ UNCHANGED <<fetches, todo, missed, selector, unheard>>

\* Any modal is closed; a selector keeps its state behind it, also when its
\* value is applied to a workflow input.
Close ==
    /\ Free /\ screen.modal # "none" /\ Settled
    /\ Queue("close")
    /\ UNCHANGED <<fetches, todo, missed, palette, selector, unheard>>

SwitchView ==
    /\ Free /\ screen.modal = "none" /\ Settled
    /\ \E v \in Views \ {screen.view} : Queue(v)
    /\ UNCHANGED <<fetches, todo, missed, palette, selector, unheard>>

User ==
    \/ Edit \/ Complete \/ Dismiss \/ Help \/ SelectFromPalette \/ SelectForInput
    \/ Retry \/ Apply \/ Close \/ SwitchView

Loop == Lookup \/ Begin \/ ProcessEffects
Arrives(k) == ValuesReady(k) \/ FetchFailed(k)

Next ==
    \/ \E k \in Keys : Fetch(k) \/ Finish(k) \/ Expire(k) \/ Arrives(k)
    \/ Loop \/ Tick \/ User

\* Tasks run and the event loop finishes what it began; it chooses among its
\* ready events at random, so that none is passed over for ever.
Fairness ==
    /\ \A k \in Keys : WF_vars(Fetch(k)) /\ SF_vars(Finish(k)) /\ SF_vars(Arrives(k))
    /\ WF_vars(Loop) /\ SF_vars(Tick)

Spec == Init /\ [][Next]_vars /\ Fairness

-----------------------------------------------------------------------------
(* What the providers promise *)

\* A key is in flight exactly while one fetch of it, and never two, is queued,
\* under way or about to be finished: no fetch is repeated, and none leaves its
\* key locked when it fails.
FetchIsOwned ==
    \A k \in Keys :
        LET owners == jobs[k]["queued"] + jobs[k]["fetching"] + jobs[k]["stored"] + jobs[k]["failed"]
        IN  owners = (IF k \in inFlight THEN 1 ELSE 0)

\* The rows of the selector are those of its own arguments, and the rows of the
\* popup those of the input as it stands, however the fetches of several keys
\* overlap, end in another order or expire.
ValuesBelong ==
    /\ selector.items # "none" => selector.of = selector.key
    /\ palette.open /\ palette.shown # "none" => palette.shown = palette.want

Underway(k) == \E s \in Stages : jobs[k][s] > 0

\* A selector that says it is loading waits for a fetch that is under way or for
\* an outcome still to be delivered, unless the failure went to another view, or
\* a reload of values it already holds came back empty.
LoadingIsServed ==
    selector.status = "Loading" /\ selector.items # "rows" /\ ~unheard =>
        Underway(selector.key) \/ \E i \in DOMAIN todo : todo[i] \in {"prepare", "answer"}

\* A popup that is loading ends with values or a message, unless the user goes
\* elsewhere first: the tick that polls the cache and the outcome between them
\* miss nothing.
PopupSettles ==
    palette.loading /\ palette.open ~>
        ~palette.loading \/ ~palette.open \/ screen.modal # "none" \/ screen.view # "palette"

=============================================================================

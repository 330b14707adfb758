--------------------------- MODULE CatalogRegistry ---------------------------
(* The command registry: the catalogs of the runtime configuration, the      *)
(* commands the program offers, and the files they are loaded from.          *)
(*   crates/registry/src/models.rs               the registry in memory      *)
(*   crates/registry/src/config.rs               load and save               *)
(*   crates/registry/src/catalog_persistence.rs  insert or replace and save  *)
(*   crates/registry/src/openapi_import.rs, catalog_patch.rs                 *)
(*   crates/tui/src/cmd.rs, crates/mcp/src/server/catalog.rs  the callers    *)
(*                                                                           *)
(* One mutex guards the registry.  An MCP tool holds it from its first       *)
(* change to the end of the save; the TUI locks once to change the registry  *)
(* and once more to save it, gives up when the lock is taken, and MCP tools  *)
(* run in between.  A command carries the position of its catalog, and that  *)
(* position is how its base URL and headers are found.                       *)
(*                                                                           *)
(* A manifest is a set of endpoints [name, http]: `name` stands for group    *)
(* and name (the canonical id), `http` for method and path.  `conf` stands   *)
(* for the settings a user edits: base URLs, headers, description.  A save   *)
(* puts secret header values in the keychain and tokens in their place, and  *)
(* only one that succeeds puts the values back.  A write can fail before it  *)
(* touches the file or after truncating it, and the process can die at any   *)
(* write: the file is then Torn.  Titles have distinct file names and every  *)
(* manifest lives under the default path.                                    *)
EXTENDS Naturals, FiniteSets, Sequences, SequencesExt

CONSTANTS
    Titles,        \* catalog titles
    Manifests,     \* Manifests[t]: the manifests the catalog t may be given
    Confs,         \* values of a catalog's settings
    Given,         \* the settings an imported document brings along
    Secrets,       \* the settings that have a secret among the header values
    Torn,          \* content of a file whose write did not complete
    NoFile,        \* the file does not exist
    MaxFaults      \* an operation may fail after fewer failures than these

Endpoints == UNION {UNION Manifests[t] : t \in Titles}
Names == {e.name : e \in Endpoints}

ASSUME ManifestsAssumption ==
    /\ IsFiniteSet(Titles)
    /\ Given \in Confs /\ Secrets \subseteq Confs
    /\ MaxFaults \in Nat
    /\ \A t \in Titles : \A m \in Manifests[t] : \A d, e \in m :
           d.name = e.name => d = e
    /\ \A e \in Endpoints : e = [name |-> e.name, http |-> e.http]
    /\ \A t \in Titles : {Torn, NoFile} \cap Manifests[t] = {}
    /\ Torn # NoFile
    /\ Torn \notin Seq([title : Titles, enabled : BOOLEAN, conf : Confs])

(* Catalogs of different titles give their commands different names.  The    *)
(* code does not require it.  Commands are withdrawn by name, so without it  *)
(* disabling one catalog takes a command of another along; the properties    *)
(* below are about catalogs that are apart.                                  *)
CatalogsAreApart ==
    \A t, u \in Titles : t # u =>
        {e.name : e \in UNION Manifests[t]} \cap
            {e.name : e \in UNION Manifests[u]} = {}

VARIABLES
    catalogs,      \* config.catalogs: sequence of catalogs
    tokens,        \* the catalogs whose secrets are tokens, also in memory
    commands,      \* the commands offered: endpoints with `at`, a position
    config,        \* registry.json: sequence of entries, or Torn
    files,         \* the manifest file of each title
    unsaved,       \* a TUI change waits for its save
    reply,         \* what the last finished operation told its caller
    faults         \* reads, writes and deletions of files that failed

vars == <<catalogs, tokens, commands, config, files, unsaved, reply, faults>>
disk == <<config, files>>

------------------------------------------------------------------------------
(* Catalogs and their commands in memory.                                    *)

Has(cats, t) == \E i \in DOMAIN cats : cats[i].title = t
Pos(cats, t) == CHOOSE i \in DOMAIN cats : cats[i].title = t
Entry(c) == [title |-> c.title, enabled |-> c.enabled, conf |-> c.conf]
Entries(cats) == [i \in DOMAIN cats |-> Entry(cats[i])]

At(m, i) == {[name |-> e.name, http |-> e.http, at |-> i] : e \in m}
Endpoint(c) == [name |-> c.name, http |-> c.http]

(* sort_and_dedup_commands: of two commands with one name and one endpoint   *)
(* either may stay, the sort is not stable.                                  *)
Deduplicated(cmds) ==
    {kept \in SUBSET cmds :
        /\ {Endpoint(c) : c \in kept} = {Endpoint(c) : c \in cmds}
        /\ \A c, d \in kept : Endpoint(c) = Endpoint(d) => c = d}

InsertCommands(cmds, new) ==
    IF new = {} THEN {cmds} ELSE Deduplicated(cmds \cup new)

RemoveCommands(cmds, m) ==
    {c \in cmds : c.name \notin {e.name : e \in m}}

(* A registry is a pair of catalogs and commands.                            *)
Registry(cats, cmds) == [cats |-> cats, cmds |-> cmds]

(* insert_catalog: the new catalog comes last.                               *)
Inserted(r, c) ==
    {Registry(Append(r.cats, c), cmds) :
        cmds \in InsertCommands(r.cmds,
                     IF c.enabled THEN At(c.manifest, Len(r.cats) + 1) ELSE {})}

(* A disable that forgets to withdraw the commands.                          *)
DisabledButOffered(r, t) ==
    LET i == Pos(r.cats, t)
    IN  Registry([r.cats EXCEPT ![i].enabled = FALSE], r.cmds)

Disabled(r, t) ==
    LET i == Pos(r.cats, t)
    IN  Registry([r.cats EXCEPT ![i].enabled = FALSE],
                 RemoveCommands(r.cmds, r.cats[i].manifest))

Enabled(r, t) ==
    LET i == Pos(r.cats, t)
    IN  {Registry([r.cats EXCEPT ![i].enabled = TRUE], cmds) :
            cmds \in InsertCommands(r.cmds, At(r.cats[i].manifest, i))}

(* remove_catalog and remove_catalog_internal: the catalogs behind the       *)
(* removed one move up, their commands keep the old positions.               *)
Removed(r, t) ==
    Registry(RemoveAt(r.cats, Pos(r.cats, t)), Disabled(r, t).cmds)

(* A recomputation that stops at the catalogs and leaves the commands alone. *)
NotReindexed(r) == r

(* reindex_catalog_identifiers: by name, the last catalog with the name.     *)
Reindexed(r) ==
    LET Holders(n) == {i \in DOMAIN r.cats :
                          \E e \in r.cats[i].manifest : e.name = n}
    IN  Registry(r.cats,
                 {IF Holders(c.name) = {} THEN c
                  ELSE [c EXCEPT !.at = Max(Holders(c.name))] : c \in r.cmds})

------------------------------------------------------------------------------
(* The files.                                                                *)

(* from_registry_config walks the configured catalogs from the last to the   *)
(* first; one whose manifest cannot be read is swapped with the last and     *)
(* dropped, after the last one's commands got their position.                *)
SwapRemoved(s, i) ==
    IF i = Len(s) THEN Front(s) ELSE [Front(s) EXCEPT ![i] = Last(s)]

Readable(f) == f \notin {Torn, NoFile}

LoadCatalog(i, r, fs) ==
    LET c == r.cats[i]
        m == fs[c.title]
    IN  IF Readable(m)
        THEN Registry(r.cats, r.cmds \cup (IF c.enabled THEN At(m, i) ELSE {}))
        ELSE Registry(SwapRemoved(r.cats, i), r.cmds)

WithManifest(e, fs) ==
    [title |-> e.title, enabled |-> e.enabled, conf |-> e.conf,
     manifest |-> fs[e.title]]

(* A configuration that cannot be parsed counts as an empty one.             *)
Loaded(cfg, fs) ==
    LET entries == IF cfg = Torn THEN <<>> ELSE cfg
        After[k \in 0 .. Len(entries)] ==
            IF k = 0 THEN Registry(entries, {})
            ELSE LoadCatalog(Len(entries) + 1 - k, After[k - 1], fs)
        r == After[Len(entries)]
    IN  Registry([i \in DOMAIN r.cats |-> WithManifest(r.cats[i], fs)], r.cmds)

(* save: the manifest of every catalog in order, each after its secrets      *)
(* became tokens, then the configuration.  It succeeds and expands the       *)
(* tokens, or stops at a catalog: at the keychain, or at a write that did    *)
(* nothing or tore its file.                                                 *)
WithManifests(cats, fs, n) ==
    [t \in Titles |-> IF Has(cats, t) /\ Pos(cats, t) <= n
                      THEN cats[Pos(cats, t)].manifest ELSE fs[t]]

(* The first n catalogs, those of them with a secret.                        *)
Tokenized(cats, n) ==
    {cats[i].title : i \in {j \in DOMAIN cats : j <= n /\ cats[j].conf \in Secrets}}

(* A save that writes the configuration only.                                *)
SaveEntriesOnly(cats, fs) ==
    [config |-> Entries(cats), files |-> fs]

SaveDone(cats, fs) ==
    [config |-> Entries(cats), files |-> WithManifests(cats, fs, Len(cats))]

SaveFailed(cats, cfg, fs) ==
    {[config |-> cfg, files |-> WithManifests(cats, fs, n),
      tokens |-> Tokenized(cats, n + more)] :
        n \in 0 .. Len(cats), more \in {0, 1}}
    \cup {[config |-> cfg,
           files |-> [WithManifests(cats, fs, n) EXCEPT
                         ![cats[n + 1].title] = Torn],
           tokens |-> Tokenized(cats, n + 1)] : n \in 0 .. Len(cats) - 1}
    \cup {[config |-> Torn,
           files |-> WithManifests(cats, fs, Len(cats)),
           tokens |-> Tokenized(cats, Len(cats))]}

------------------------------------------------------------------------------
(* Ways for an operation to end.                                             *)

Current == Registry(catalogs, commands)

Hold(r) == catalogs' = r.cats /\ commands' = r.cmds
Store(s) == config' = s.config /\ files' = s.files

Refuse(why) ==
    /\ reply' = why
    /\ UNCHANGED <<catalogs, tokens, commands, config, files, unsaved, faults>>

Fail(n) == faults < MaxFaults /\ faults' = faults + n
Fault == Fail(1)

(* The process ends and the next one loads what the disk holds.              *)
Reboot(cfg, fs) ==
    /\ config' = cfg /\ files' = fs
    /\ Hold(Loaded(cfg, fs)) /\ tokens' = {}
    /\ unsaved' = FALSE
    /\ reply' = "none"

(* Keep the registry r in memory, of whose catalogs those in `toks` have     *)
(* tokens, and save it with the files fs; `waits` tells whether a TUI change *)
(* still waits for its save afterwards.  A process that dies during the save *)
(* leaves the disk as a failed one does: Restart follows.                    *)
SaveAs(r, toks, fs, waits) ==
    /\ Hold(r)
    /\ \/ /\ Store(SaveDone(r.cats, fs)) /\ tokens' = {}
          /\ reply' = "ok"
          /\ UNCHANGED faults
       \/ /\ Fault
          /\ \E s \in SaveFailed(r.cats, config, fs) :
                Store(s) /\ tokens' = toks \cup s.tokens
          /\ reply' = "failed"
    /\ unsaved' = waits

(* insert_catalog_and_persist: the manifest is written on its own first, by  *)
(* way of a temporary file.  Nothing is undone when a write fails.           *)
InsertAndPersist(c) ==
    \E r \in Inserted(Current, c) :
        \/ SaveAs(r, tokens, [files EXCEPT ![c.title] = c.manifest], unsaved)
        \/ /\ Fault
           /\ Hold(r)
           /\ reply' = "failed"
           /\ UNCHANGED <<tokens, config, files, unsaved>>

(* replace_catalog_and_persist: the old catalog is disabled, removed and the *)
(* positions recomputed, the new one inserted at the end and saved.  When a  *)
(* write fails, the old manifest file is written back, the new catalog       *)
(* removed and the snapshot of the old one, taken before it was disabled,    *)
(* inserted at the end.                                                      *)
WithoutOld(r, t) ==
    Reindexed(Removed(r, t))

(* A snapshot taken after the old catalog was disabled.                      *)
RolledBackDisabled(r, old) ==
    Inserted(WithoutOld(r, old.title), [old EXCEPT !.enabled = FALSE])

RolledBack(r, old) ==
    Inserted(WithoutOld(r, old.title), old)

(* restore_manifest_backup: a file that was there is written over again,     *)
(* whatever the failure was.  When it could not be read before, nothing is   *)
(* written, and when the write fails, nobody hears of it.                    *)
Restored(fs, t) ==
    IF files[t] = NoFile THEN fs ELSE [fs EXCEPT ![t] = files[t]]

NotRestored(fs, t) ==
    IF files[t] = NoFile THEN {} ELSE {fs, [fs EXCEPT ![t] = Torn]}

(* What follows a failure that left the files and tokens of s.  The process  *)
(* may die anywhere in it.                                                   *)
RollBack(r, old, s) ==
    LET t == old.title
    IN  \/ /\ \E b \in RolledBack(r, old) : Hold(b)
           /\ tokens' = tokens \cup (s.tokens \ {t})
           /\ config' = s.config
           /\ \/ Fault /\ files' = Restored(s.files, t)
              \/ Fail(2) /\ files' \in NotRestored(s.files, t)
           /\ reply' = "rolled_back" /\ UNCHANGED unsaved
        \/ /\ Fault
           /\ \E fs \in NotRestored(s.files, t) \cup {s.files, Restored(s.files, t)} :
                 Reboot(s.config, fs)

ReplaceAndPersist(c) ==
    LET t == c.title
        old == catalogs[Pos(catalogs, t)]
        fs == [files EXCEPT ![t] = c.manifest]
        untouched == [config |-> config, files |-> files, tokens |-> {}]
    IN  \E r \in Inserted(WithoutOld(Current, t), c) :
            \/ /\ Hold(r) /\ Store(SaveDone(r.cats, fs)) /\ tokens' = {}
               /\ reply' = "ok"
               /\ UNCHANGED <<unsaved, faults>>
            \/ /\ faults < MaxFaults
               /\ \E s \in SaveFailed(r.cats, config, fs) \cup {untouched} :
                     RollBack(r, old, s)

------------------------------------------------------------------------------
(* The operations.                                                           *)

NewCatalog(t, m, on, conf) ==
    [title |-> t, enabled |-> on, conf |-> conf, manifest |-> m]

(* import_openapi_catalog_into_registry: an existing catalog is replaced     *)
(* only on request and hands its settings on.                                *)
Import(t, m, on, overwrite) ==
    IF ~Has(catalogs, t) THEN InsertAndPersist(NewCatalog(t, m, on, Given))
    ELSE IF ~overwrite THEN Refuse("failed")
    ELSE ReplaceAndPersist(NewCatalog(t, m, on, catalogs[Pos(catalogs, t)].conf))

(* The TUI: a change under one lock and the save under the next.  The lock   *)
(* may be taken by an MCP tool each time.                                    *)
TuiImport(t, m) ==
    /\ ~unsaved
    /\ \/ Import(t, m, TRUE, FALSE)
       \/ Refuse("busy")

Changed(r) ==
    /\ Hold(r)
    /\ unsaved' = TRUE
    /\ reply' = "none"
    /\ UNCHANGED faults

(* New headers may take over tokens of the old ones, or put secrets in their *)
(* place.                                                                    *)
TokensConfigured(t, conf) ==
    IF t \in tokens /\ conf \in Secrets THEN {tokens, tokens \ {t}}
    ELSE {tokens \ {t}}

ToggledTo(t, on) ==
    IF on THEN Enabled(Current, t) ELSE {Disabled(Current, t)}

Configured(t, conf) ==
    Registry([catalogs EXCEPT ![Pos(catalogs, t)].conf = conf], commands)

TuiToggle(t, on) ==
    /\ ~unsaved
    /\ Has(catalogs, t)
    /\ \E r \in ToggledTo(t, on) : Changed(r)
    /\ UNCHANGED <<tokens, disk>>

TuiConfigure(t, conf) ==
    /\ ~unsaved
    /\ Has(catalogs, t)
    /\ Changed(Configured(t, conf)) /\ tokens' \in TokensConfigured(t, conf)
    /\ UNCHANGED disk

(* remove_catalog deletes the manifest file; when that fails, the catalog is *)
(* gone from memory and nothing is saved.                                    *)
TuiRemove(t) ==
    /\ ~unsaved
    /\ Has(catalogs, t)
    /\ \/ /\ files[t] # NoFile
          /\ files' = [files EXCEPT ![t] = NoFile]
          /\ Changed(Removed(Current, t))
       \/ /\ IF files[t] = NoFile THEN UNCHANGED faults ELSE Fault
          /\ Hold(Removed(Current, t))
          /\ reply' = "failed"
          /\ UNCHANGED <<files, unsaved>>
    /\ tokens' = tokens \ {t}
    /\ UNCHANGED config

TuiRefused ==
    /\ ~unsaved
    /\ \E why \in {"busy", "failed"} : Refuse(why)

TuiSave ==
    /\ unsaved
    /\ \/ SaveAs(Current, tokens, files, FALSE)
       \/ /\ reply' = "busy" /\ unsaved' = FALSE
          /\ UNCHANGED <<catalogs, tokens, commands, config, files, faults>>

(* The MCP tools: the change and the save under one lock.                    *)
McpImport(t, m, on, overwrite) == Import(t, m, on, overwrite)

(* apply_catalog_patch: the manifest becomes m, or no target was found.      *)
McpPatch(t, m) ==
    /\ Has(catalogs, t)
    /\ \/ ReplaceAndPersist([catalogs[Pos(catalogs, t)] EXCEPT !.manifest = m])
       \/ Refuse("failed")

McpSetEnabled(t, on) ==
    /\ Has(catalogs, t)
    /\ \E r \in ToggledTo(t, on) : SaveAs(r, tokens, files, unsaved)

McpConfigure(t, conf) ==
    /\ Has(catalogs, t)
    /\ \E toks \in TokensConfigured(t, conf) :
          SaveAs(Configured(t, conf), toks, files, unsaved)

(* remove_catalog_internal: the manifest file goes on request, and a failure *)
(* to delete it ends the tool before the save.                               *)
McpRemove(t, manifestToo) ==
    /\ Has(catalogs, t)
    /\ \/ SaveAs(Removed(Current, t), tokens \ {t},
                 IF manifestToo THEN [files EXCEPT ![t] = NoFile] ELSE files,
                 unsaved)
       \/ /\ manifestToo /\ files[t] # NoFile
          /\ Fault
          /\ Hold(Removed(Current, t)) /\ tokens' = tokens \ {t}
          /\ reply' = "failed"
          /\ UNCHANGED <<config, files, unsaved>>

Restart == Reboot(config, files) /\ UNCHANGED faults

Init ==
    /\ catalogs = <<>> /\ tokens = {} /\ commands = {}
    /\ config = <<>> /\ files = [t \in Titles |-> NoFile]
    /\ unsaved = FALSE
    /\ reply = "none"
    /\ faults = 0

Next ==
    \/ \E t \in Titles :
          \/ \E m \in Manifests[t] :
                \/ TuiImport(t, m)
                \/ McpPatch(t, m)
                \/ \E on, overwrite \in BOOLEAN :
                      McpImport(t, m, on, overwrite)
          \/ \E on \in BOOLEAN : TuiToggle(t, on) \/ McpSetEnabled(t, on)
          \/ \E conf \in Confs : TuiConfigure(t, conf) \/ McpConfigure(t, conf)
          \/ TuiRemove(t)
          \/ \E manifestToo \in BOOLEAN : McpRemove(t, manifestToo)
    \/ TuiSave
    \/ TuiRefused
    \/ Restart

Spec == Init /\ [][Next]_vars

------------------------------------------------------------------------------
(* Properties.                                                               *)

Offered == {Endpoint(c) : c \in commands}
Served(cats) ==
    UNION {cats[i].manifest : i \in {j \in DOMAIN cats : cats[j].enabled}}

(* The commands the program offers are those of the enabled catalogs:        *)
(* through failed imports, rollbacks, half-finished removals and restarts,   *)
(* disabling or removing a catalog withdraws its commands and nothing else   *)
(* does (models.rs:349-403, catalog_persistence.rs:61-143).                  *)
CommandsFollowCatalogs ==
    CatalogsAreApart => Offered = Served(catalogs)

(* What an operation reported as saved survives the end of the process: the  *)
(* next one loads the same catalogs with the same settings, no secret a      *)
(* token, and offers the same commands, whatever failed before               *)
(* (config.rs:20-74).                                                        *)
SavedSurvives ==
    reply = "ok" =>
        LET r == Loaded(config, files)
        IN  /\ r.cats = catalogs /\ tokens = {}
            /\ {Endpoint(c) : c \in r.cmds} = Offered

(* Every command carries the position of the catalog it comes from, which is *)
(* where its base URL and headers are looked up (models.rs:183-207).  A      *)
(* removal breaks this for the catalogs behind the removed one.              *)
CommandsKnowTheirCatalog ==
    \A c \in commands :
        c.at \in DOMAIN catalogs /\ Endpoint(c) \in catalogs[c.at].manifest

(* A replacement that fails is undone: the same catalogs as before, in       *)
(* another order maybe, and the same commands; what the replaced catalog had *)
(* for header values it has again, though others may be left with tokens;    *)
(* and its manifest file is the one there was, unless reading or restoring   *)
(* that file failed as well (catalog_persistence.rs:75-97).                  *)
Undone == reply # "rolled_back" /\ reply' = "rolled_back"

FailedReplaceIsUndone ==
    [][Undone =>
        /\ ToSet(catalogs') = ToSet(catalogs)
        /\ Offered' = Offered
        /\ LET t == Last(catalogs').title
           IN  /\ t \in tokens' <=> t \in tokens
               /\ files[t] # NoFile /\ faults' = faults + 1 =>
                      files'[t] = files[t]]_vars

(* A replacement, carried out or undone, leaves every command with the right *)
(* position, also those that earlier removals had left with a wrong one      *)
(* (catalog_persistence.rs:232-249).                                         *)
CarriedOut ==
    /\ reply' = "ok"
    /\ \E c \in ToSet(catalogs), d \in ToSet(catalogs') :
          c.title = d.title /\ c.manifest # d.manifest

ReplaceSetsPositions ==
    [][Undone \/ CarriedOut => CommandsKnowTheirCatalog']_vars

=============================================================================

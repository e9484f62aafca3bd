------------------------------ MODULE Settings ------------------------------
(***************************************************************************)
(* The settings of search sources: the settings screen keeps a snapshot of *)
(* the configured sources and of the built-in ones, which Update edits at  *)
(* once and saves with a command on a goroutine of its own                 *)
(* (internal/tui/settings.go, preferences.go, aggregator_import.go); the   *)
(* settings manager (internal/app/settings.go) holds a lock while it       *)
(* writes config.toml and brings the registry in step with it              *)
(* (liveSources, internal/app/registry.go); the command's result brings    *)
(* the screens in step again. What liveSources built goes by the entry's   *)
(* id, but the registry files a source under the id the source gives       *)
(* itself, which for a scraper is the one inside its definition file.      *)
(*                                                                         *)
(* Left out: the forms a user edits a source in, connection tests, imports *)
(* of definitions, and the order sources are listed in. Each entry has a   *)
(* definition file of its own.                                             *)
(***************************************************************************)
EXTENDS Naturals, FiniteSets

CONSTANTS
    Sources,    \* ids of bundled sources and of [[indexer]] entries
    Names,      \* those, and others a definition file may name
    Builtins,   \* those of the bundled definitions
    Specs,      \* what an [[indexer]] entry may say of its source
    Scrapers,   \* the specs that name a definition file
    Bundled,    \* the spec of a bundled definition
    Absent,
    Prefs,      \* values of the preferences
    Loaded(_, _),   \* whether the program starts with a configuration and files
    Written(_),     \* ids the definition file of an entry may come to name
    Calls,      \* subset of CallKinds
    MaxSaves    \* bound on the commands the user gives

CallKinds == {"sources", "builtin", "prefs", "reload", "fails"}

ASSUME BuiltinsAssumption == Builtins \subseteq Sources
ASSUME NamesAssumption == Sources \subseteq Names /\ Absent \notin Names
ASSUME SpecsAssumption == Bundled \notin Specs /\ Absent \notin Specs \cup {Bundled} /\ Scrapers \subseteq Specs
ASSUME WrittenAssumption == \A i \in Sources : Written(i) \subseteq Names \cup {Absent}
ASSUME CallsAssumption == Calls \subseteq CallKinds /\ MaxSaves \in Nat

VARIABLES
    snapshot,   \* sourcesSnapshot: the entries the settings screen lists
    rows,       \* builtinSnapshot: the built-in rows it lists
    seq,        \* builtinSeq: the version the rows were read at
    opened,     \* configSnapshot: the preferences panel's copy of the configuration
    searchIds,  \* the sources the search screen offers
    cfg,        \* the manager's copy of the configuration
    disk,       \* config.toml
    version,    \* builtinVersion
    built,      \* liveSources.built: what the source of entry i was built from
    registry,   \* the registry: what the source held under an id was built from
    file,       \* the id inside i's definition file, Absent if it does not parse
    job,        \* the sync of the command that holds the manager's lock
    cmds,       \* commands dispatched, not yet run
    reads,      \* commands that saved and have yet to read the built-in rows
    results,    \* results on their way to Update
    saves,      \* commands the user gave so far
    skipped, strayed, overlapped, failed, unseen     \* ghosts

\* skipped: the ids the last sync could not build or register. strayed: the
\* ids of entries whose source was registered under another id, and those
\* ids. overlapped: the kinds of save asked for while one of the same kind was
\* under way. failed: the kinds of save that failed. unseen: a reload changed
\* what is registered, and the search screen has not been refreshed since.

screenVars == <<snapshot, rows, seq, opened, searchIds>>
manager == <<cfg, disk, version>>
ghosts == <<skipped, strayed, overlapped, failed, unseen>>
settingsVars == <<screenVars, manager, built, registry, file, job, cmds, reads, results, saves, ghosts>>

Indexer == [spec : Specs, enabled : BOOLEAN]
Entries == [Sources -> Indexer \cup {Absent}]
Config == [entries : Entries, off : SUBSET Builtins, prefs : Prefs]

\* BuiltinSources: a bundled id that an entry replaces has no row.
Rows == [Builtins -> {"on", "off", "hidden"}]
RowsOf(c) == [b \in Builtins |-> IF c.entries[b] # Absent THEN "hidden" ELSE IF b \in c.off THEN "off" ELSE "on"]

\* What sync wants registered as i: an entry replaces the bundled source of
\* its id, even to turn it off.
Desired(c, i) ==
    IF c.entries[i] # Absent THEN (IF c.entries[i].enabled THEN c.entries[i].spec ELSE Absent)
    ELSE IF i \in Builtins \ c.off THEN Bundled ELSE Absent

Adapter == [owner : Sources, spec : Specs \cup {Bundled}]
Held == {k \in Names : registry[k] # Absent}
Idle == [kind |-> "none", drop |-> {}, add |-> {}]

\* buildSources' sync of the configuration as loaded is yet to run.
SettingsInit ==
    /\ cfg \in Config /\ file \in [Sources -> Names \cup {Absent}] /\ Loaded(cfg, file)
    /\ disk = cfg
    /\ built = [i \in Sources |-> Absent] /\ registry = [k \in Names |-> Absent]
    /\ job = [kind |-> "start", drop |-> {}, add |-> {i \in Sources : Desired(cfg, i) # Absent}]
    /\ snapshot = cfg.entries /\ opened = cfg
    /\ rows = RowsOf(cfg)
    /\ searchIds = {}
    /\ seq = 0 /\ version = 0 /\ saves = 0
    /\ cmds = {} /\ reads = {} /\ results = {}
    /\ skipped = {} /\ strayed = {} /\ overlapped = {} /\ failed = {} /\ unseen = FALSE

----------------------------------------------------------------------------
(* Update: the user's keys. A command runs on a goroutine of its own. *)

UnderWay == {c.kind : c \in cmds} \cup {c.kind : c \in reads} \cup {r.kind : r \in results} \cup {job.kind}

Command(kind, what) ==
    /\ kind \in Calls
    /\ saves < MaxSaves
    /\ job.kind # "start"
    /\ saves' = saves + 1
    /\ cmds' = cmds \cup {[n |-> saves', kind |-> kind, what |-> what]}
    /\ overlapped' = IF kind \in UnderWay THEN overlapped \cup {kind} ELSE overlapped
    /\ UNCHANGED <<seq, opened, searchIds, manager, built, registry, file, job, reads, results, skipped, strayed, failed, unseen>>

\* Space flips an entry's Enabled, x removes it; a form adds or rewrites one,
\* which it enables, and may change its id; an import adds several.
Edits(all) ==
    LET edited == {i \in Sources : all[i] # snapshot[i]}
        added == {i \in edited : snapshot[i] = Absent}
    IN  /\ edited # {}
        /\ \/ Cardinality(edited) = 1
           \/ edited = added
           \/ \E i \in added, j \in edited \ added : edited = {i, j} /\ all[j] = Absent
        /\ \A i \in edited : all[i] # Absent /\ ~all[i].enabled => i \notin added /\ all[i].spec = snapshot[i].spec

\* The new list is shown at once, and saved whole.
EditSources(all) ==
    /\ Edits(all)
    /\ snapshot' = all
    /\ Command("sources", [all |-> all, previous |-> snapshot])
    /\ UNCHANGED rows

ToggleBuiltin(b) ==
    /\ rows[b] # "hidden"
    /\ rows' = [rows EXCEPT ![b] = IF @ = "on" THEN "off" ELSE "on"]
    /\ Command("builtin", [id |-> b, enabled |-> rows'[b] = "on"])
    /\ UNCHANGED snapshot

\* The whole configuration is saved, with the entries the panel's copy has.
SavePreferences(p) ==
    /\ Command("prefs", [opened EXCEPT !.prefs = p])
    /\ UNCHANGED <<snapshot, rows>>

Reload == Command("reload", Absent) /\ UNCHANGED <<snapshot, rows>>

----------------------------------------------------------------------------
(* The settings manager. *)

\* Mutant: a source whose entry was edited stays as it was built.
StaysAnyway(c, i, reload) == built[i] # Absent /\ Desired(c, i) # Absent

\* A source stays as it is if its spec does, unless it is built from a
\* definition file and those are reloaded.
Stays(c, i, reload) ==
    /\ built[i] # Absent /\ built[i] = Desired(c, i)
    /\ ~(reload /\ built[i] \in Scrapers \cup {Bundled})

\* sync: unregister what does not stay, then register what is missing.
Sync(kind, c) ==
    LET stay == {i \in Sources : Stays(c, i, kind = "reload")}
    IN  /\ job' = [kind |-> kind,
                   drop |-> {i \in Sources : built[i] # Absent} \ stay,
                   add |-> {i \in Sources : Desired(c, i) # Absent} \ stay]
        /\ skipped' = {}

WithBuiltin(c, w) == [c EXCEPT !.off = IF w.enabled THEN @ \ {w.id} ELSE @ \cup {w.id}]

\* Mutant: the preferences are saved with the entries they were opened with.
SavedStale(kind, w) ==
    CASE kind = "sources" -> [cfg EXCEPT !.entries = w.all]
      [] kind = "builtin" -> WithBuiltin(cfg, w)
      [] kind = "prefs"   -> w

\* What each save makes of the manager's own copy.
Saved(kind, w) ==
    CASE kind = "sources" -> [cfg EXCEPT !.entries = w.all]
      [] kind = "builtin" -> WithBuiltin(cfg, w)
      [] kind = "prefs"   -> [w EXCEPT !.entries = cfg.entries, !.off = cfg.off]

Unread == [b \in Builtins |-> "hidden"]
Result(c, err, r, s) == results' = results \cup {[n |-> c.n, kind |-> c.kind, what |-> c.what, err |-> err, rows |-> r, seq |-> s]}

\* A save that writes the file changes the manager's copy and then the registry.
Save(c) ==
    /\ c.kind # "reload"
    /\ cfg' = Saved(c.kind, c.what) /\ disk' = cfg'
    /\ IF c.kind = "prefs"
       THEN Result(c, FALSE, Unread, 0) /\ UNCHANGED <<version, job, reads, skipped>>
       ELSE version' = version + 1 /\ Sync(c.kind, cfg') /\ reads' = reads \cup {c} /\ UNCHANGED results
    /\ UNCHANGED failed

SaveFails(c) ==
    /\ "fails" \in Calls
    /\ c.kind # "reload"
    /\ Result(c, TRUE, Unread, 0)
    /\ failed' = failed \cup {c.kind}
    /\ UNCHANGED <<manager, job, reads, skipped>>

\* Its result changes nothing but the status line.
ReloadDefinitions(c) ==
    /\ c.kind = "reload"
    /\ Sync("reload", cfg)
    /\ UNCHANGED <<manager, reads, results, failed>>

\* A command takes the lock.
Run(c) ==
    /\ job = Idle
    /\ cmds' = cmds \ {c}
    /\ Save(c) \/ SaveFails(c) \/ ReloadDefinitions(c)
    /\ UNCHANGED <<screenVars, built, registry, file, saves, strayed, overlapped, unseen>>

\* Whatever the registry holds as i goes; if that is nothing, the error is only
\* logged.
UnregisterSource(i) ==
    /\ i \in job.drop
    /\ built' = [built EXCEPT ![i] = Absent]
    /\ registry' = [registry EXCEPT ![i] = Absent]
    /\ job' = [job EXCEPT !.drop = @ \ {i}]
    /\ unseen' = (unseen \/ job.kind = "reload")
    /\ UNCHANGED <<screenVars, manager, file, cmds, reads, results, saves, skipped, strayed, overlapped, failed>>

\* ID of the source built for i.
Identity(i) == IF Desired(cfg, i) \in Scrapers THEN file[i] ELSE i

\* register: a source that cannot be built, or whose id is held by another, is
\* skipped. Those bundled come first.
RegisterSource(i) ==
    /\ job.drop = {} /\ i \in job.add
    /\ Desired(cfg, i) = Bundled \/ \A j \in job.add : Desired(cfg, j) # Bundled
    /\ job' = [job EXCEPT !.add = @ \ {i}]
    /\ LET id == Identity(i)
       IN  IF id = Absent \/ id \in Held
           THEN skipped' = skipped \cup {i} /\ UNCHANGED <<built, registry, strayed, unseen>>
           ELSE /\ built' = [built EXCEPT ![i] = Desired(cfg, i)]
                /\ registry' = [registry EXCEPT ![id] = [owner |-> i, spec |-> Desired(cfg, i)]]
                /\ strayed' = IF id = i THEN strayed ELSE strayed \cup {i, id}
                /\ unseen' = (unseen \/ job.kind = "reload")
                /\ UNCHANGED skipped
    /\ UNCHANGED <<screenVars, manager, file, cmds, reads, results, saves, overlapped, failed>>

\* sync returns: the screens are built from the first, and the others release
\* the lock.
Unlock ==
    /\ job # Idle /\ job.drop = {} /\ job.add = {}
    /\ job' = Idle
    /\ searchIds' = IF job.kind = "start" THEN Held ELSE searchIds
    /\ UNCHANGED <<snapshot, rows, seq, opened, manager, built, registry, file, cmds, reads, results, saves, ghosts>>

\* refreshBuiltins, on the command's goroutine, takes the lock again.
ReadBuiltins(c) ==
    /\ job = Idle
    /\ reads' = reads \ {c}
    /\ Result(c, FALSE, RowsOf(cfg), version)
    /\ UNCHANGED <<screenVars, manager, built, registry, file, job, cmds, saves, ghosts>>

\* A definition file is edited, outside the program: it names another id, or
\* no longer parses.
DefinitionChanges(i) ==
    /\ \E id \in Written(i) \ {file[i]} : file' = [file EXCEPT ![i] = id]
    /\ UNCHANGED <<screenVars, manager, built, registry, job, cmds, reads, results, saves, ghosts>>

----------------------------------------------------------------------------
(* Update: the results, in the order they arrive. *)

\* Mutant: rows read before those already shown are applied.
ApplyBuiltinsAny(r) == rows' = r.rows /\ seq' = r.seq

\* A read older than the one applied is dropped.
ApplyBuiltins(r) ==
    IF r.seq < seq THEN UNCHANGED <<rows, seq>> ELSE rows' = r.rows /\ seq' = r.seq

\* refreshEnabledSources reads the registry as it is now.
RefreshSearch == searchIds' = Held /\ unseen' = FALSE

\* A failed save puts the list back as it was when it was asked for.
Reverted(r) == r.what.previous

HandleSourcesResult(r) ==
    /\ r.kind = "sources"
    /\ IF r.err
       THEN snapshot' = Reverted(r) /\ UNCHANGED <<rows, seq, searchIds, unseen>>
       ELSE ApplyBuiltins(r) /\ RefreshSearch /\ UNCHANGED snapshot
    /\ UNCHANGED opened

\* A failed toggle puts its own row back.
HandleBuiltinResult(r) ==
    /\ r.kind = "builtin"
    /\ IF r.err
       THEN /\ rows' = [rows EXCEPT ![r.what.id] =
                          IF @ = "hidden" THEN @ ELSE IF r.what.enabled THEN "off" ELSE "on"]
            /\ UNCHANGED <<seq, searchIds, unseen>>
       ELSE ApplyBuiltins(r) /\ RefreshSearch
    /\ UNCHANGED <<snapshot, opened>>

HandlePrefsResult(r) ==
    /\ r.kind = "prefs"
    /\ opened' = IF r.err THEN opened ELSE r.what
    /\ UNCHANGED <<snapshot, rows, seq, searchIds, unseen>>

HandleResult(r) ==
    /\ results' = results \ {r}
    /\ HandleSourcesResult(r) \/ HandleBuiltinResult(r) \/ HandlePrefsResult(r)
    /\ UNCHANGED <<manager, built, registry, file, job, cmds, reads, saves, skipped, strayed, overlapped, failed>>

SettingsNext ==
    \/ \E all \in Entries : EditSources(all)
    \/ \E b \in Builtins : ToggleBuiltin(b)
    \/ \E p \in Prefs : SavePreferences(p)
    \/ Reload
    \/ \E c \in cmds : Run(c)
    \/ \E i \in Sources : UnregisterSource(i)
    \/ \E i \in Sources : RegisterSource(i)
    \/ Unlock
    \/ \E c \in reads : ReadBuiltins(c)
    \/ \E i \in Sources : DefinitionChanges(i)
    \/ \E r \in results : HandleResult(r)

SettingsSpec == SettingsInit /\ [][SettingsNext]_settingsVars

----------------------------------------------------------------------------
(* Properties. *)

\* The state is well formed; the rows shown were never read at a version the
\* manager has yet to reach.
SettingsTypeOK ==
    /\ snapshot \in Entries
    /\ rows \in Rows
    /\ cfg \in Config /\ disk \in Config /\ opened \in Config
    /\ seq \in 0..version
    /\ searchIds \subseteq Names
    /\ built \in [Sources -> Specs \cup {Bundled, Absent}]
    /\ registry \in [Names -> Adapter \cup {Absent}]
    /\ file \in [Sources -> Names \cup {Absent}]
    /\ job.drop \cup job.add \subseteq Sources

Quiet == job = Idle /\ cmds = {} /\ reads = {} /\ results = {}

\* What the configuration asks the registry to hold as k.
Asked(k) ==
    IF k \in Sources \ skipped /\ Desired(cfg, k) # Absent THEN [owner |-> k, spec |-> Desired(cfg, k)] ELSE Absent

\* Whenever the manager's lock is free, its copy is what config.toml says, and
\* the registry holds exactly what that asks for, each source built from its
\* entry as it is now; only a source whose definition file does not parse, or
\* names an id that is held, is missing. Ids that a source was registered
\* under although they are not its entry's, and those entries, are excepted:
\* Unregister does not find them (RegistryIsExact).
RegistryInStep ==
    job = Idle =>
        /\ disk = cfg
        /\ \A k \in Names \ strayed : registry[k] = Asked(k)
        /\ \A i \in skipped \ strayed : Desired(cfg, i) \in Scrapers

\* Once every result is in, the search screen offers the sources that are
\* registered ("the search screen never keeps showing its startup snapshot
\* after a live change"), whatever order the saves ran and reported in; a
\* reload of the definitions is the exception.
SearchInStep == Quiet /\ ~unseen => searchIds = Held

\* The registry follows the configuration, and the search screen the registry.
InStep == RegistryInStep /\ SearchInStep

\* Once every result is in, the built-in rows are those of the configuration,
\* whatever order toggles and source saves ran and reported in (T-9109,
\* T-9111), unless toggles overlapped and one of them failed.
BuiltinsTrue == Quiet /\ ~({"builtin"} \subseteq overlapped \cap failed) => rows = RowsOf(cfg)

\* Once every result is in, the lists on the screens are those saved, after a
\* failure too, unless two saves of the same list overlapped.
ScreensTrue ==
    Quiet =>
        /\ "sources" \in overlapped \/ snapshot = cfg.entries
        /\ "prefs" \in overlapped \/ opened.prefs = cfg.prefs

\* Once every result is in, every list a screen shows is the saved one, but
\* for the overlaps named above.
ListsTrue == BuiltinsTrue /\ ScreensTrue

\* No save undoes another's part of config.toml: the entries, the disabled
\* built-ins and the preferences change only by a save of their own ("so a
\* snapshot taken before a source edit cannot undo it").
PartsKept ==
    [][ LET ran == cmds \ cmds'
            By(kind) == \E c \in ran : c.kind = kind
        IN  /\ disk'.entries # disk.entries => By("sources")
            /\ disk'.prefs # disk.prefs => By("prefs")
            /\ \A b \in Builtins : (b \in disk.off) # (b \in disk'.off) => \E c \in ran : c.kind = "builtin" /\ c.what.id = b ]_settingsVars

\* saveSourcesCmd's callers say the optimistic list keeps a second change from
\* undoing the first: once every result is in, the list shown is the one saved.
SnapshotIsSaved == Quiet => snapshot = cfg.entries

\* sync "makes the registry hold exactly these sources": nothing is registered
\* that the configuration does not ask for. A source registered under the id
\* in its definition file stays when its entry is disabled or removed.
RegistryIsExact ==
    job = Idle => \A k \in Held : registry[k].spec = Desired(cfg, registry[k].owner)

=============================================================================

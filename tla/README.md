# tortui in TLA+

tortui is a terminal torrent client: a Bubble Tea interface over a torrent engine (an adapter of anacrolix/torrent), a
registry of search sources, a session database and a settings manager. This directory holds TLA+ models of its
concurrent core, the TLC configurations that check them on small instances, and proofs, for every size, of all but one of
the safety properties that the runs check. `PROJECT.json` lists the components, runs, findings, hazards and theorems,
and maps every definition to the lines it stands for.

    tlc -workers 2 -config EngineCalls.cfg MCEngine     # one run
    tlapm TorrentEngineProofs.tla                       # the proofs of one module

## The system

| Component (code) | State it keeps | Operations | Talks to | Module |
|---|---|---|---|---|
| Torrent engine (`internal/engine/anacrolix`) | tracked entries, queue, gates of the library's torrents, counted goroutines | Add, Restore, Pause, Resume, Remove, MoveInQueue, PauseForShutdown, Close; fetch, attach, await goroutines; the sample loop | the library, the TUI, the session | TorrentEngine |
| Data ownership (`engine.go`, `samedir.go`, `resume.go`) | leftName, sharedName, deletes in flight | refuse, keepLeft, claimInfoHash, Remove with data, awaitDeletes | disk | DataOwnership |
| File storage (`filestore.go`, `storage.go`) | a table of open files per torrent, the group of a store | read, write, check of pieces, Close | disk, the library | FileStore, TorrentData |
| Session store (`internal/store`) | torrents, history, preferences, destinations in memory and in a bbolt file | setters, flush loop, Flush, ClearHistory, Close, Open | disk | Store |
| Session and shutdown (`internal/lifecycle`, `internal/app/app.go`) | resumed, closed, a mutex; the steps of a shutdown | Resume, Save, SetTorrent, Close, seal, Shutdown | engine, store, TUI | Session |
| Instance lock, integrity (`lifecycle/lock.go`, `integrity.go`) | lock file, quarantined database | acquire, check, set aside | disk | - |
| Source registry (`internal/indexer/registry.go`) | sources, retired floors, a cache of answers | Register, Unregister, SearchAll | adapters | Registry |
| Result merging (`registry.go`, `minseeders.go`) | none | merge, filter, sort | - | - |
| HTTP client (`internal/indexer/httpx`) | the next slot of each host | wait, retry with back-off, redirects | network | Fetch |
| Torznab, scraper, Prowlarr adapters | caps, loaded definitions | search, discover, import | HTTP client | - |
| Root model (`internal/tui/root.go`) | screen, overlays, dialogs | routing of keys and messages | every screen | Root |
| Search screen (`search.go`) | generation, in-flight search, selected sources, last query | dispatch, refresh, esc, results | registry | SearchScreen |
| Adding a result (`details.go`, `destination.go`) | the resolve's generation, the picker, checks in flight | resolve, pick, check, add | registry, engine, disk | AddFlow |
| Downloads screen (`downloads.go`, `download_actions.go`) | rows, optimistic states, cursor, remove dialog | pause, resume, remove, snapshots | engine | Downloads |
| Settings: what is saved (`settings.go`, `preferences.go`, `aggregator_import.go`, `internal/app/settings.go`, `registry.go`) | the screens' snapshots; the manager's configuration, its version, what each entry's source was built from | saves, toggles, reload, result handlers, sync | config file, registry, search screen | Settings |
| Settings: forms (the same, `pathcomplete.go`) | source form, wizard, preferences panel, probes | edits, tests, imports, completions, checks | definitions, disk | Forms |
| Config, logging, doctor, platform, theme, command line | files, a rotating log | load and save, rotate, diagnose | disk | - |

What is hard in it:

* Engine calls come from commands' goroutines, the sample loop, the awaiting goroutines and Shutdown, all around one
  mutex that is given up around every slow call (a fetch, AddTorrentSpec, Drop, a free-space check, a delete). Whatever
  was read before is stale after.
* A torrent's data is found by its name in a directory that may have several paths; two torrents may share it, and
  deleting it takes place outside the lock while others start.
* Files are opened with no lock held, into a table of limited size, while other calls evict and Close empties it.
* The store takes its snapshot under a lock and writes it outside, from four callers; the process may crash between.
* A shutdown step that times out keeps running beside the later ones.
* Results of commands come back to `Update` in any order - searches, resolves, checks, saves, toggles, snapshots - and
  find another screen or another form open than the one that asked.
* A search source is replaced while fan-outs that selected the old one are asking it; requests of several goroutines
  share a host's slots while it refuses, redirects and asks them to come back later.

What makes each part correct: the queue is served in order and never holds an entry that cannot start, an infohash has
one live entry, a pause holds whatever raced with it, nothing is left in the client unmanaged (engine); no delete takes
what another torrent owns or writes (data ownership); what a write acknowledged stays readable, and a closed torrent
holds and changes nothing (files); what memory says reaches the file, in order, across crashes (store); no record is lost
and no pause invented (session); a cached answer is the registered source's and a source is not asked too often
(registry); a host is not asked before it may be, and credentials stay at home (HTTP client); old results never replace
new ones, keys go to what is shown, a dialog does what it said when it opened (screens); file, manager, registry and
screens agree once all is quiet (settings).

## Modules

**TorrentEngine** - `tr[i]` is `struct tracked`, `queue` is `Engine.queue`, `job[i]` the goroutine or call that is
starting entry `i` (`pc` is between which two critical sections it is), `lib[i]` the library torrent it created with its
two gates, `drops` those a call is about to Drop. Each critical section of `Engine.mu` is one action: `Add` and
`Restore` (findOrTrack), `FetchClaims`/`FetchFails`, `ReadHeld`, `Join` (AddTorrentSpec), `Publish`, `PublishRemoved`,
`PublishClosed` (attach), `AwaitRefuses`, `Refuse`, `GotInfo`, `DownloadAll` (awaitInfo), `Pause`, `Resume`, `Remove`,
`Drop`, `MoveInQueue`, `Promote`, `SpacePause`, `ApplyPolicy`, `CloseBegin`, `CloseEnd`. `InfoArrives` and `Completes`
are the swarm's, and external. An id names one entry and the library torrent it may create. Rates, snapshots and
what the entries display are left out; the data on disk is DataOwnership's.

**TorrentEngineProofs** - its theorems: the queue and Close; the library's client, the gates, the slots and the order of
the queue. Every `...Proofs` module holds theorems about the module it is named for and is
described under Proofs: also **StoreProofs**, **SessionProofs**, **DataOwnershipProofs**, **FileStoreProofs** and
**FetchProofs**. Two modules hold the theorems of several: **SourcesProofs** those about Registry, SearchScreen and
Settings, **ScreensProofs** those about Downloads, AddFlow, Forms and Root. That is why Settings and Downloads name their
specifications `SettingsSpec` and `DownloadsSpec`.

**Store** - `mem` and `disk` are the buckets, `seq` is historySeq, `pc[p]` and `snap[p]` each flusher's place and
snapshot (the loop, Flush, ClearHistory, Close). Taking the snapshot and one bbolt transaction are separate steps. The
history bucket is keyed by sequence number: `ToBucket` and `FromBucket` are what writing and reading it do. `Restart` is
a crash or an exit and the next Open.

**Session** - the engine and the store through their ports: `eng`, `recs`, `disk`. `work` is the Resume or Save that
holds `Session.mu`, id by id (`SaveReads` is ResumeData and GetTorrent, `SaveWrites` SetTorrent, `SavePrunes` the last
loop). Commands run in three steps: `Dispatch` (Update), `Execute` (the command's goroutine), `Handle` (Update, which
saves). `Quit` starts Shutdown, whose steps are `PauseAll`, `CloseBegin` and the Save it makes, `FlushStep`,
`CloseEngine`, `CloseStore`; `NextStep` goes on after a step, or after its time is up with the step still running.
Records are restored in any order: the code takes the oldest first, and their ages are not modelled. Pauses the engine
makes by itself are left out. `hashOf` decides which torrents share an infohash.

**Registry** - sources with the generation they were registered at, `retired` the floors of unregistered ones, `cache`,
and `one[f][i]` the goroutine of fan-out `f` for source `i`: `LookUp` (cachedResults), `Reserve` (reserveFetch),
`Answers` or `GivesUp` (callSearch), `Store` (storeResults), each under the lock for that step alone. Time is a counter.
What answers contain, and merging, are left out, and SetEnabled, which nothing in the program calls.

**SearchScreen** - extends Registry with the screen's model: `DispatchSearch`, `HandleRefresh`, `HandleSearchCancel`,
`HandleSearchResult`, and the command's goroutine (`Call`). `generation` names the search whose generation the model is
at, 0 after esc. The screen never asks a source for a mode it does not allow, so `LookUp`'s skip for that is not
reached from it.

**Settings** - `snapshot`, `rows`, `opened`, `searchIds` on the screens, `cfg` and `version` in the manager, `disk` the
file, `job` the sync of the command that holds the manager's lock, which at first is buildSources' own. `built` is
liveSources' map, by the entry's id; `registry` is the registry, by the id a source gives itself - for a scraper that in
its definition file (`file[i]`, which the user may edit). sync unregisters and records by the first and registers by the
second, and where the two differ a source is not found again: `strayed` remembers such ids.
A save is `EditSources`, `ToggleBuiltin` or `SavePreferences` (Update, which shows the change at once), `Run` (the
goroutine: the file, the manager's copy, and the sync's `UnregisterSource` and `RegisterSource` steps), `ReadBuiltins`
(refreshBuiltins takes the lock again) and `HandleResult` (Update). A save that fails writes nothing. `DefinitionChanges`
is the user's editor, outside the program. What leads to a save is module Forms; the admission of destination roots is
left out.

**DataOwnership** - `entry[i]` is the side of `struct tracked` that concerns its data: phase, destination, whether the
code holds the info dictionary, `left` and `shared` (leftName, sharedName). `call[c]` is an Add, Restore or Remove
between what it read from disk and the lock, and carries what it read; `deleting` is `Engine.deleting`; `disk` has a
pair of a directory and a name for the data there. The reads (`AddLook`, `RestoreLook`, `RemoveLook`, and the first
half of refuse) and the critical sections (`FindOrTrack`, `Attach`, `TrackErrored`, `Remove`, `Promote`,
`AttachPromoted`, `Refuse`, `CheckInfo`, `AwaitDeletes`) are actions of their own, and so are the two halves of a
delete (`DeleteData`, `EndDelete`). destMatches and dirUnknown may fail to show two paths apart, and the model lets
them. Adds by a `.torrent` URL are left out (their race is TorrentEngine's), and the check of a delete against the
known roots is nondeterministic. A name stands for the class of names equal but for case.

**FileStore** - `table[t]` is a torrent's handles with the least recently used first, `fds` the operating system's,
`disk`, `dirs` and `content` what is on disk, `group` the open torrents of an engine's stores. `call[c]` is a piece call
between two steps of withFile and openFile: fast path, open, mkdir, create, reopen, install (which may evict, or find
another caller's handle), the last resort under the exclusive lock, the operation, and the discard of a file opened too
late. `closer[k]` is a Close, of a torrent the library drops or of a store torrent by torrent. What the library does
with the answers (the piece it marks complete or not) is part of a call. Content is the set of pieces written. Flushes,
zero-length files and I/O errors are left out.

**TorrentData** - the abstract specification: torrents that open and close, chunks acknowledged and stored. `FileStore`
implements it under the mapping of its `Data == INSTANCE TorrentData WITH phase <- ..., stored <- ...`: the phase is that
of the group and the closed flag, a chunk is stored if the file at its path has the piece. `DataSpec` is its
specification.

**Fetch** - `call[c]` is a call of Do: waiting for its host's slot, asleep until it, in flight, or backing off; `next` is
the limiter's next slot of each host, `client` the configuration that decides on redirects. `Claim`, `Wake`, what the
server does (`Answers`, `Redirect`, `Rejects`, `Retries`), `Fails`, `Expire` and `Cancel` are the steps; a target a
Location may name is a record of what admitRedirect asks about it. Time is a counter. A back-off's jitter, which
nothing in the program sets, is left out.

**Downloads** - the engine's list behind its port, `mail` the snapshot on its way, `call` the engine calls with their
results on their way, and the screen's `shown`, `pending`, `cursor`, `dialog`, `scroll`.

**AddFlow** - the results' enter key, `resolve` and its generation, the picker `dest` with its `checks`, `adds` in the
order they were confirmed, and a small file system others change too. How a typed path expands is a constant.

**Forms** - the source form, the wizard, the preferences panel and the list's probe; `jobs` are the commands they gave,
with the generation each carries and, as history, the form that gave it. A text is empty, good or bad.

**Root** - composes AddFlow and Forms under the root model: `Handler` says who takes a key (the order of handleKey),
`Shown` what is drawn (the order of context), and each key's effect is that of the handler it reaches. `Plan` bounds
what one user sets out to do, so that each path through screens and forms is explored without their product.

The `MC...` modules hold only what the configurations need: symmetry sets, starting states, the paths of files, the
targets of redirects. Definitions whose comment begins with "Mutant" are plausible mistakes in the definition that follows
them; `PROJECT.json` pairs each property with one that breaks it.

## Runs

Each is finished by TLC within a few minutes and passes.

| Run | Instance | Shows |
|---|---|---|
| `engine_calls` | 2 magnets, 2 infohashes, 1 slot, 1 restore; pauses, space checks, completion, shutdown's pause | the queue is sound, one entry per infohash, gates follow pauses and running torrents have them open (`GatesFollow`), slots are bounded |
| `engine_queue` | 3 magnets or files, 1 slot, moves | queue order |
| `engine_life` | 2 torrents of 1 infohash, URL and magnet, removes, Close | no orphan in the client, nothing runs after Close, no torrent checks for ever and the queue is served (`StartsEnd`) |
| `store_flush` | 3 changes to any bucket, history of 2, failing writes, 1 crash | a clean store is saved and history keeps its order over restarts (`Durable`), Close keeps a clear, the file catches up |
| `session_exit` | 2 torrents, of one infohash or two, 2 commands, 2 starts, crashes, timeouts, failed restores and starts | no record lost (`RecordsKept`), only the user's pauses recorded, the file agrees with the screen when quiet and after a clean exit (`SavedAsShown`) |
| `search_fanout` | 1 source replaced once, 3 searches, TTL 2, interval 1, clock to 2 | cache, floor, generations; every search ends |
| `settings_saves` | a bundled and a user source, 3 saves of any kind, failures, a definition file that breaks or names another id | file, manager, registry and screens agree but for ids that strayed (`InStep`, `ListsTrue`); no save undoes another's part |
| `fetch` | 2 calls, with and without credentials, 3 redirects, 2 attempts, Retry-After within and beyond the limit, clock to 4 | slots are spaced, Retry-After is honoured, credentials stay with their host, every call ends |
| `downloads` | 2 torrents, one complete, 2 of the user's calls, 1 step of the engine's own, 2 window heights | calls about one torrent are made in the order asked, the selected row stays in the window (`Visible`), the dialog removes what it named, no guess outlives its call |
| `root` | 2 results, 3 folders, 2 resolves and adds, 2 forms and 4 commands, in six plans | keys reach what is shown, nothing hangs, cancelled work changes nothing, a folder is created only if it was asked about, answers come home |
| `files` | 2 torrents sharing a file by two paths, a third in the first one's store, 1 handle each, 2 piece calls, a drop, a store's Close, 1 file deleted by the user | FileStore implements TorrentData; a Close that returned leaves no handle and no empty file |
| `ownership` | a `.torrent` and a magnet of one data name, a directory with two paths and another, 2 restores, an adding and a removing caller, 1 slot | one owner of left data, left and deferred data kept from others (`LeftDataKept`), writes survive deletes |

Why these bounds are enough to be worth something: the hazards are races of two actors around one piece of state, and
each run has room for two actors of every kind at once, plus one that came before or comes after. Two torrents and one
slot give every combination of running, queued and starting; a third is needed only for the order of a queue in which
one leaves, hence `engine_queue`. Store: one change before a snapshot, one between snapshot and write, one after.
Session: two commands overlap with one another, a save and a quit, and the second start reads what the first left.
Search: a search superseded by one that is superseded or cancelled, and a source replaced between any two steps of
them. The clock reaches the end of an interval and of a TTL. Settings: two saves of one list race while a third of
another kind intervenes. Fetch: two calls claim one host's slots while one of them is told to wait, and a chain of
three redirects leaves a host and comes back. Downloads: two presses on one row, and a snapshot from before, between
and after them. Root: a late answer finds the next form, or the next resolve, open. Files: with one handle per torrent
every second open evicts, so two calls meet in every pair of steps of an open, a replacement, an eviction and a Close;
the third torrent is there for a store's Close to go on to. Ownership: two entries with one name, of which each may be
refused, removed, restarted or restored; an id is used again once nothing refers to it, so that torrents come and go
without limit.

Bounds are the constants: `Restores`, `MaxChanges`, `MaxCrashes`, `MaxCommands`, `MaxStarts`, `MaxTime`, `MaxGens`,
`MaxSaves`, `MaxKeys`, `MaxWork`, `MaxFetches`, `MaxAdds`, `MaxChecks`, `MaxDisk`, `MaxOpened`, `MaxJobs`, `Plans`
(with `Bounds` of module Root), `MaxFd`, `MaxInode`, `MaxCalls`, `MaxCloses`, `Dropped`, `MaxDeletes`, `LateOpens`,
`MaxIds`, `MaxRecords`, and the sizes of the sets. Each is a guard of the action it bounds.

Deadlock is checked in `files` and `ownership`, where every call must be able to end: a call that waits for the lock, for
calls in flight or for a delete is never stuck. Elsewhere CHECK_DEADLOCK is off: those systems may come to rest (nothing
left to do, closed, or at a bound), and the liveness properties say where they must not.

### Configurations for the findings

TLC finds the following violated. They are kept to show how, and are not runs:

| Configuration (module) | Property | What happens |
|---|---|---|
| `EngineZombie.cfg` (MCEngine) | RefusedIsErrored | a torrent refused while queued is promoted: it shows checking or downloading and holds a slot with nothing in the client |
| `EngineFetchTwice.cfg` (MCEngine) | OneEntryPerHash | two `.torrent` URLs of one infohash both pass the claim and share a library torrent |
| `StoreClear.cfg` (MCStore) | ClearSurvives | a flush that took its snapshot before ClearHistory writes it back after |
| `SearchCancelled.cfg` (MCSearch) | CancelledIsStale | `L` with no source for Latest cancels the search in flight but not its generation; its failure is shown |
| `SettingsOrder.cfg` (MCSettings) | SnapshotIsSaved | two saves of the source list are written in the other order; the screen shows what is not saved |
| `SettingsForeign.cfg` (MCSettings) | RegistryIsExact | an entry whose definition file names another id is disabled; its source stays registered |
| `FilesLate.cfg` (MCFiles) | DataSpec | a torrent opened between discard's look at the others and its removal writes into the file that is then removed |

`engine_calls` has no two URLs and `files` no late open for this reason. The other findings (`PROJECT.json` has the
lines):

* engine: an Add between Remove's critical section and its Drop joins a torrent about to be dropped (`DownloadingIsLive`
  of TorrentEngine states what breaks);
* data ownership: a magnet added over a refused entry, whose metadata never comes, leaves that entry's data without an
  owner; a promoted `.torrent` not attached yet has no name, so a delete beside it does not see that it shares its data;
* files: a piece is recorded complete before its files are flushed, and files already evicted are not flushed at all;
* session: a record restored errored vanishes when a younger one of its infohash restores (`RestoredIsVisible`);
* HTTP: a retry may be put to sleep by the limiter past its deadline (`NoUselessSleep` of Fetch);
* downloads: a snapshot taken before a call and handled after its result shows the old state once more; the key pressed
  on such a row, or on that of a torrent whose remove has just been answered, gives a call with no order to the earlier;
* root: two ways a key misses what is shown (`KeysGoToShown` excepts both); a duplicate is not selected;
* add flow: a check made for a smaller torrent lets a larger one through (`FitsWhenAdded`);
* forms: a dirty form is replaced or closed unasked (`EditsAreAskedFor`), the wizard saves another key than it used
  (`KeySentIsKeySaved`), and a test's late outcome is shown in the next form (`TestsHome`);
* settings: a reload does not refresh the search screen (`SearchInStep` excepts it).

Two observations: two built-in toggles that overlap and both fail leave the row wrong (`BuiltinsTrue` excepts this); a
fan-out that selected a since-replaced source may be given the replacement's cached answer, where Unregister's comment
speaks of ErrUnknownIndexer.

## Fairness

* `TorrentEngine!FairSpec` (`engine_life`): weak fairness of the goroutines that start and await a torrent, of Drop,
  Promote and the seed policy - they are running goroutines, bounded by the metadata timeout, and a ticker. Weak fairness
  of `Completes` is an assumption about the swarm, needed for `QueueServed`: a queue is served only if downloads finish.
  User calls, pauses and Close have none.
* `Store!FairSpec`: weak fairness of the ticker; strong fairness of `Write`, which says that a disk does not fail for
  ever. `CatchesUp` rests on it.
* `SearchScreen!ScreenSpec`: weak fairness of `Progress`, some step of some goroutine, of a deadline or of Update.
  It never forces a source to answer. Searches are bounded, so progress ends each.
* `Fetch!FairSpec`: weak fairness of the clock and of each call's own goroutine (`Claim`, `Wake`, `Expire`); nothing makes
  a server answer, and `CallsEnd` holds all the same, by the deadline.
* The other runs check safety and assume none.

## Proofs

TLC checks each property on a small instance; the theorems below say the same for every value of the constants that the
modules' named assumptions allow (TLC evaluates these on every run). Each module proves an invariant inductive - `IInv`
or the conjunction named below - with one step per action, and concludes the properties from it.

**TorrentEngineProofs** - any torrents, infohashes, slots and kinds of source:

* `TypeCorrect`: `TypeOK` is not inductive: a job that publishes or awaits must already hold a library torrent
  (`JobTorrent`), or publishing it would set an entry's torrent to `None`. `TypeInv` adds that.
* `ClosedForGood` (`NoWorkAfterClose`), from `TypeInv` and `ClosedSteps`: no step of a closed engine counts a goroutine,
  and `CloseEnd` is the only step into it.
* `QueueCorrect` (`QueueSound`): a Resume puts an entry back in the state it was paused in, so what a paused entry
  remembers matters (`Resumable`); an entry not yet tracked must not be in the queue. `QueueInv` says so for each entry,
  and `QueueStep` reduces a step to the one entry it concerns and those it untracks. The lemmas `DequeueAllLeaves`,
  `EnqueueLeaves` and `InsertLeaves` say what the queue's operations do to its members, for sequences of any length.

Its second half, on the library's client, goes on from `QueueInv`:

* `NothingOrphaned` (`NoOrphan`), from `EngineInv`: `Shape` ties what an entry remembers to where its job is, `Gone` and
  `Unborn` say when its torrent is out of the client or not in it yet, and `Managed` who answers for one that is. The
  steps are proved from what a step does to the entries it is not about (`SameMarks`, `Bystander`) and to the library.
* `OnePerHash` and `GatesCorrect` (`OneEntryPerHash`, `GatesFollow`) assume that no source is a `.torrent` URL, which
  both need: an entry restored paused from a URL joins whatever torrent has its infohash when the fetch ends, and shuts
  the gates of the entry that runs it (`EngineFetchTwice.cfg`). Without URLs an entry names its infohash from the start
  (`Named`), so a live entry that has no torrent yet will not be handed another's (`Alone`) - except for one that an
  earlier Remove is about to drop, which is why `NameInv` speaks of torrents that stay (`Stays`). `Gated` is `GatesFollow`
  without its exceptions: it also holds while a start checks.
* `SlotsBounded` (`SlotBound`) and `QueueInOrder` (`QueueOrder`) hold with URLs and with every call. Two facts about
  single entries decide them (`Worked`): one that has no torrent and nothing to start from is being started or has
  failed, so that Resume cannot set it to work past the slots; and only one that has a torrent is stopped for space.
  `SlotTaken` and `SlotCounted` count the set of working entries over a step, and `DequeueAllOrder`, `EnqueueOrder`,
  `InsertOrder` and `MoveOrder` say which pairs of a queue of any length an operation may turn round.

**StoreProofs** - any history limit, any changes, failures and crashes:

* `CleanStoreIsDurable` (`Durable`): every memory and every snapshot has an ordered history (`Ordered`, `Memory`), the file
  is the image of some memory, and of this one unless the store is dirty. `BucketHolds` and `BucketCounts` say that the
  bucket of an ordered history, read by number, is that history.
* `CloseKeeps` (`CloseKeepsClear`) assumes that no Flush gives up waiting: one that has may still write, after Close's own
  flush, the snapshot it took before the clear.

**SessionProofs** - any torrents, infohashes, commands and starts:

* `NoRecordLost` (`RecordsKept`), from `RecordInv`: what the file records is in memory or was removed, and a Save has
  listed, or has yet to come to, every torrent that has a record.
* `PausesAreTheUsers` (`OnlyUserPauses`), from `UserInv`: wherever a pause is kept on its way to the file - entry, record,
  what a Save has read, command - the user asked for it.
* `FileSaysWhatWasShown` (`SavedAsShown`), from `AgreeInv` and `StepsInv`: which steps of a shutdown may run beside which,
  once none was late, and what each has done when the next begins.

**DataOwnershipProofs** - any torrents, names, directories and paths to them, callers and slots. What a call reads of the
directories before it takes the lock may be incomplete and old, but what it shows apart is apart (`GoodEntry`, `GoodCall`,
`RemoveLinks`): so what a decision under the lock passes over lies in another directory. No identifier is used again
while a call or a delete holds it (`AttachLinks`, `DeleteLinks`), and no delete under way is of what runs (`Clear`). From
this: `OneClaims` (`OneOwner`), `RunningKeepsData` (`WritesSurvive`) and `RefusedKeepTheirData` (`LeftDataKept`), the last
from `LeftIsKept` and `DeferredKept`, one for each of its halves.

**FileStoreProofs** - any torrents, files, pieces, callers and table sizes, files shared between torrents and directories
with several paths. `StoreKeepsData` is `Spec => DataSpec`: the store implements TorrentData. It assumes that no torrent
opens while another closes (`~LateOpens`), without which it is false (`FilesLate.cfg`). `IInv` says, besides types:

* `FdInv`: each OS handle has one holder at most - a table, a call between its open and its install, an eviction, a
  Close - so that closing one takes nothing from anybody else (`OthersKeep`);
* `FileInv`: the handles in the table of a torrent that is not closed, and one about to be put there, are on the inode
  that is at their path now, unless the user deleted that (`OnFile`);
* `LiveInv`: what holds a torrent in its store: a handle in its table, a call counted in flight; an operation's handle is
  in the table, and a Close has found the table empty and nothing in flight before it lets the torrent go;
* `DiscardInv`: a file has one creator that has not put it in the table; what a discard removes is empty and declared by
  no other open torrent (`Sole`). That a write may land between discard's look at the file and its removal is excluded
  by `WritesOnlyItsFile`: a handle that is operated on belongs to an open torrent, which declares the file.

`OwnStep` and `DiskStep` reduce a call's step to what it does to its own table, handles and file; `NextData` maps each step
to a `Put`, a `Move`, a `UserDeletes` (also where a discard removes a file put back after the user deleted it) or a stutter.
The path lemmas rest on `PathsAssumption`: no file lies where another has a directory, and those of a torrent are in one
store's.

`StoreLeavesNothing` (`NothingStays`), under the same hypothesis, goes on from `IInv`, with `StaysInv`: every open handle
has an owner (`Owned`: the table it is in, or the call or Close that will close it); a closed torrent still in its store
has a Close under way that will take it out (`Leaves`); the handles in a closed table are still on their files (`AllOn`);
a discard passes over what is in the table but not over what its call created late (`CallStays`); and an empty file
created late has a call that is still to discard it, or is declared by another torrent too (`LateFiles`). Both invariants
were checked by TLC, on the constants of `files`, before they were proved.

**FetchProofs** - any calls, hosts, targets, intervals and delays: `SlotsSpaced` (`Spaced`), `RetryAfterHonoured`
(`HonoursRetryAfter`) and `CredentialsKept` (`CredentialsStay`). `Spaced` is about slots: requests may come closer, since a
sleeper may wake late and a redirect's hops take no slot. A call's slot lies an interval before the next of its host
(`Claimed`) and from every other call's (`Apart`); it is due no earlier than the server asked (`Due`, by `RetryDelayInt`:
a delay cut at the largest duration is beyond what is honoured); and `Stays` follows a chain of redirects hop by hop.

**SourcesProofs**, on the search - any sources, queries and searches, any interval:

* `CacheCorrect` (`CacheIsCurrent`), with `TypeOK` inductive: `Store` looks at the source again under the lock that
  `Unregister` empties the cache under, so that `Register` finds an empty cache.
* `FloorCorrect` (`FloorKnown`), inductive likewise, and from it `FloorIsKept` (`FloorKept`): a step sends a goroutine to
  `ask` only by `Reserve` (`OnlyReserveAsks`), which asks a source whose floor is known not to count.
* `ScreenUsesRegistry`: `ScreenSpec => Spec`. The screen's steps are registry steps or none, once it is known that a
  search sent asks a query (`Sent`). The three theorems above hold under the screen by it.
* `ScreenTypes`, `NewestShown` (`NeverGoesBack`) and `NothingUnseen` (`NoneUnseen`), from `ScreenInv`: the types and
  `Sent`, which says that generation is that of the last search or 0, that no search is beyond the last, and that the one
  shown was handled.

On the settings - any sources, specifications, number of saves under way and order of their steps - `SettingsInv` is
inductive (TLC checked it on the constants of `settings_saves` before it was proved), and with it
`SettingsTypeCorrect`, `SettingsInStep` (`InStep`), `ListsAreTrue` (`ListsTrue`) and `PartsAreKept` (`PartsKept`). The
two invariants speak of moments of rest; `SettingsInv` says what is on its way in between.

* `SyncInv`: in the middle of a sync, what is still to be unregistered and registered is all that differs between what
  liveSources built and the configuration, but for what could not be built or registered (`skipped`).
* `HeldInv`: the registry holds under an id what was built for it, and nothing else, but for the ids that `strayed`: where
  a definition file names another id than its entry, the code is wrong (`SettingsForeign.cfg`).
* `RefreshInv`, `ReadInv`: what the registry has lately is on the search screen, and the rows of the last version on the
  settings screen, or a result is on its way that will bring them. A result of the last version carries rows of the
  configuration there is now: HandleResult drops the older ones by their number.
* `RowsInv`, `ToggleInv`, `ListInv`, `PanelInv`: a row or list that differs from what is saved has a save to come, or a
  refusal that will put it back. A toggle that fails puts back the opposite of what it asked for; so one that no other
  overlapped must ask for what is not yet so (`Agrees`, `OffSince`). The previous list a save of sources carries is the
  configuration's only while no other save of the list is about (`Alone`): where two overlap the code is wrong
  (`SettingsOrder.cfg`), which is what `overlapped` and `failed` except.

**ScreensProofs**, on the downloads screen - any torrents, keys and snapshots: `PressesInOrder` (`InOrder`),
`RemovesOnlyNamed` (`RemovesWhatItNamed`) and `GuessesEnd` (`NoGuessOutlivesItsCall`). A pause or resume of a torrent the
engine has is one its row waits for, and the only one (`Waiting`); a guess has its call or an answer (`Owed`).

On the root model - any results, folders, resolves, forms and commands - `RootInv` is inductive, and was checked by TLC on
the constants of `root` first:

* `KeysInv` says on which screens a dialog may be open, that no panel or query field opens behind one, and from that
  `KeysGoWhereShown` (`KeysGoToShown`) follows by comparing the two orders of the code, that of `context` (`WhatIsShown`)
  and that of handleKey (`Handler`). It needs the screens because a dialog is drawn over any screen but its keys are the
  screen's own: what keeps them together is that only a result or an add switches screens while a dialog is open.
* `ResolveInv`: a cancelled resolve has a generation that has passed. Cancelling and replacing both count up, so its
  answer is of no use to anybody: `CancelledIsIgnored` (`CancelledChangesNothing`), with `ProbeInv`, where the generation
  stays but the probe is off until another is started.
* `AskedInv`: while the picker asks whether to create a folder, the folder and the result it was asked for are still those
  shown - every change of cursor, path or result takes the question back (`RevalidateAsks`). Hence
  `AddsCreateWhatWasAsked` (`CreatesWhatItAsked`), for queues of adds of any length.
* `JobsInv`, `FormInv`, `WizardInv`, `PrefsInv`, `ProbeInv`: whatever is waited for is under way (`NothingEverHangs`), and
  an import of the number a form waits for was given by that form, since numbers are counted over all forms:
  `AnswersFindTheirForm` (`AnswersComeHome`). The lemmas `FieldEdit`, `MoveEdit`, `TypeEdit` and `TextEdit` say what an
  edit leaves of a form, `OthersStay` what a command of one kind leaves to those that wait for another.

`RootSteps` sorts the steps into those of the add flow, those of the forms and those that leave both alone. The bounds of
the plans (`Bounds`) are not used.

What the proofs showed of the models: `InOrder` first claimed an order for torrents the engine no longer has, and its
proof failed on a remove answered while a pause is in flight (the finding at `download_actions.go:346`); the race of two
URLs concerns `GatesFollow` as well as `OneEntryPerHash`.

Only model-checked: liveness (`StartsEnd`, `CatchesUp`, `SearchEnds`, `CallsEnd`), which this prover does not do, and
`Visible` of Downloads: the sections laid out are a `SelectSeq`, which is defined by recursion and by a predicate, so
that not even their being sequences can be proved. Every other safety invariant and action property of a run is stated
by a theorem, under the hypotheses named above for `OneEntryPerHash` and `GatesFollow` (no `.torrent` URLs),
`CloseKeepsClear` (no Flush gives up) and the files (no late open).

## What could follow

`MergeResults` (merge, deduplicate and sort against a reference definition), `Instance` (lock and integrity check), the
adapters' capability cache, configuration files and log rotation.

## Not modelled

Parsing of feeds, pages and definitions, magnet links, capabilities and configuration syntax; merging and sorting of
results; the instance lock, the integrity check and log rotation; rendering, key tables, themes; diagnostics, fakes and
the demo; platform calls. But for the lock and the log they are sequential and tested by examples, and none holds state
that another part's correctness rests on. The anacrolix library, bbolt, Bubble Tea and the operating system appear only
as the code uses them.

--------------------------- MODULE TorrentEngine ---------------------------
(***************************************************************************)
(* The anacrolix-backed engine (internal/engine/anacrolix): what Add,      *)
(* Restore, Pause, Resume, Remove and Close do to the torrents it tracks,  *)
(* and what the goroutines that service a torrent do meanwhile - the       *)
(* .torrent fetch, the attach to the library's client, the wait for the    *)
(* info dictionary, the sample loop that promotes the queue, applies the   *)
(* seed policy and re-checks free space.                                   *)
(*                                                                         *)
(* Every critical section of Engine.mu is one action; everything the code  *)
(* does between two of them (a fetch, AddTorrentSpec, Drop, a space check) *)
(* is an action of its own, so callers and goroutines interleave as they   *)
(* do in the program. Torrents are numbered by the set Ids, an element     *)
(* being used for at most one tracked entry and for the library torrent    *)
(* that entry may create.                                                  *)
(***************************************************************************)
EXTENDS Naturals, FiniteSets, Sequences

CONSTANTS
    Ids,        \* identifiers mintIDLocked can hand out
    Hashes,     \* infohashes
    None,       \* no infohash, no library torrent
    MaxActive,  \* max_active_downloads
    Kinds,      \* kinds of source a user adds: subset of SourceKinds
    Calls,      \* what else happens: subset of CallKinds
    Restores    \* how many saved torrents Session.Resume restores at most

SourceKinds == {"magnet", "file", "url"}
CallKinds   == {"pause", "remove", "move", "quit", "close", "space", "complete"}

ASSUME MaxActiveAssumption == MaxActive \in Nat \ {0}
ASSUME NoneAssumption == None \notin Ids /\ None \notin Hashes
ASSUME IdsAssumption == IsFiniteSet(Ids)
ASSUME KindsAssumption == Kinds \subseteq SourceKinds
ASSUME CallsAssumption == Calls \subseteq CallKinds
ASSUME RestoresAssumption == Restores \in Nat

VARIABLES
    phase,      \* life of the engine: see Phases
    restored,   \* how many torrents Restore has been asked for
    tracked,    \* the keys of Engine.torrents
    tr,         \* tr[i]: the tracked entry (struct tracked)
    queue,      \* Engine.queue
    job,        \* job[i]: the goroutine or call starting entry i
    lib,        \* lib[i]: the library torrent entry i created, if any
    drops       \* library torrents some caller is about to Drop

vars == <<phase, restored, tracked, tr, queue, job, lib, drops>>

State == {"queued", "checking", "downloading", "seeding", "paused", "errored"}

(***************************************************************************)
(* The entry. hold is what a queued entry is started from ("spec", "url"   *)
(* or "none"); t is the library torrent once attach has published it.      *)
(***************************************************************************)
Tracked ==
    [state : State, pre : State, paused : BOOLEAN, userPaused : BOOLEAN,
     spacePaused : BOOLEAN, seedDone : BOOLEAN, seedOverride : BOOLEAN,
     refused : BOOLEAN, removed : BOOLEAN, infoHash : Hashes \cup {None},
     hold : {"none", "spec", "url"}, t : Ids \cup {None}]

(***************************************************************************)
(* The goroutine or call that is starting an entry: where it is (pc), who  *)
(* reports its failure (via), the infohash of the spec it carries, whether *)
(* that spec has its info dictionary, the pause addToClient read, and the  *)
(* library torrent it was handed.                                          *)
(***************************************************************************)
AttachPcs == {"attach", "join", "publish"}
AwaitPcs  == {"await", "refuse", "deletes"}
Pcs       == {"new", "idle", "fetch", "retrack"} \cup AttachPcs \cup AwaitPcs

Job ==
    [pc : Pcs, via : {"add", "restore", "url", "promote"}, hash : Hashes \cup {None},
     dict : BOOLEAN, held : BOOLEAN, t : Ids \cup {None}]

(***************************************************************************)
(* A torrent of the library's client (external): joined and not dropped,   *)
(* its info dictionary known, its two transfer gates open, all its data    *)
(* on disk.                                                                *)
(***************************************************************************)
LibTorrent ==
    [hash : Hashes \cup {None}, live : BOOLEAN, info : BOOLEAN,
     dl : BOOLEAN, ul : BOOLEAN, complete : BOOLEAN]

Phases == {"resuming", "running", "closing", "closed"}

TypeOK ==
    /\ phase \in Phases
    /\ restored \in Nat
    /\ tracked \subseteq Ids
    /\ tr \in [Ids -> Tracked]
    /\ queue \in Seq(Ids)
    /\ job \in [Ids -> Job]
    /\ lib \in [Ids -> LibTorrent]
    /\ drops \subseteq Ids

----------------------------------------------------------------------------
(* Reading the state. *)

Open == phase \in {"resuming", "running"}

\* activeLocked: the entries that occupy a download slot.
Active(entries, set) ==
    {i \in set : ~entries[i].paused /\ entries[i].state \in {"checking", "downloading"}}

ActiveCount(entries, set) == Cardinality(Active(entries, set))

\* Mutant: one slot too many.
HasSlotOffByOne(entries, set) == ActiveCount(entries, set) <= MaxActive

HasSlot(entries, set) == ActiveCount(entries, set) < MaxActive

Queued == {queue[k] : k \in DOMAIN queue}

\* The client's torrent for an infohash: AddTorrentSpec hands this one back.
InClient(h) == {o \in Ids : lib[o].live /\ lib[o].hash = h}

Unminted == {i \in Ids : job[i].pc = "new"}

\* Mutant: only an entry already attached is found (before T-944).
MatchesAttached(h, self) == {j \in tracked \ {self} : tr[j].infoHash = h /\ tr[j].t # None}

\* Entries claimInfoHashLocked matches: tracked under h, other than self.
Matches(h, self) == {j \in tracked \ {self} : tr[j].infoHash = h}

----------------------------------------------------------------------------
(* What the engine's helpers do to one entry, one job, the queue. *)

NewTracked(paused, seedDone) ==
    [state |-> "checking", pre |-> "queued", paused |-> paused \/ seedDone,
     userPaused |-> paused, spacePaused |-> FALSE, seedDone |-> seedDone,
     seedOverride |-> FALSE, refused |-> FALSE, removed |-> FALSE,
     infoHash |-> None, hold |-> "none", t |-> None]

\* A torrent restored paused shows it at once and holds no slot (T-952).
StartPaused(r) == [r EXCEPT !.pre = r.state, !.state = "paused"]

IdleJob == [pc |-> "idle", via |-> "add", hash |-> None, dict |-> FALSE, held |-> FALSE, t |-> None]

NewLib == [hash |-> None, live |-> FALSE, info |-> FALSE,
           dl |-> FALSE, ul |-> FALSE, complete |-> FALSE]

\* failLocked: the first failure is the one kept.
Fail(r) == [r EXCEPT !.state = "errored"]

\* pauseLocked, for an entry not already paused.
PauseEntry(r) ==
    [r EXCEPT !.paused = TRUE,
              !.pre = IF r.state = "errored" THEN @ ELSE r.state,
              !.state = IF r.state = "errored" THEN @ ELSE "paused"]

\* enqueueLocked.
EnqueueIn(q, i) == IF i \in {q[k] : k \in DOMAIN q} THEN q ELSE Append(q, i)

Enqueue(r) == [r EXCEPT !.state = "queued"]

\* The n-th smallest of a finite set of naturals.
Nth(S, n) == CHOOSE k \in S : Cardinality({m \in S : m <= k}) = n

\* dequeueLocked, for every id of a set: what is left keeps its order.
DequeueAll(q, ids) ==
    LET kept == {k \in DOMAIN q : q[k] \notin ids}
    IN [n \in 1..Cardinality(kept) |-> q[Nth(kept, n)]]

Dequeue(q, i) == DequeueAll(q, {i})

\* slices.Insert: i at place at + 1.
Insert(q, at, i) ==
    [n \in 1..(Len(q) + 1) |-> IF n <= at THEN q[n] ELSE IF n = at + 1 THEN i ELSE q[n - 1]]

Hold(o)  == [o EXCEPT !.dl = FALSE, !.ul = FALSE]
Allow(o) == [o EXCEPT !.dl = TRUE, !.ul = TRUE]
Dropped(o) == [o EXCEPT !.live = FALSE, !.dl = FALSE, !.ul = FALSE]

SetPc(i, pc) == job' = [job EXCEPT ![i].pc = pc]

Done(i) == job' = [job EXCEPT ![i] = IdleJob]

----------------------------------------------------------------------------
(* Adding: findOrTrack and track. *)

(***************************************************************************)
(* findOrTrack for a spec of infohash h that no entry claims: any refused  *)
(* entry of it is untracked, and the new entry is minted and either starts *)
(* (its caller goes on to attach) or queues, in one critical section. An   *)
(* add that finds a live entry, or that ErrLeftData refuses, changes       *)
(* nothing and is not an action.                                           *)
(***************************************************************************)
FindOrTrack(i, h, dict, via, paused, seedDone) ==
    /\ Open
    /\ i \in Unminted
    /\ \A j \in Matches(h, None) : tr[j].refused
    /\ LET gone  == Matches(h, None)
           left  == tracked \ gone
           entry == [NewTracked(paused, seedDone) EXCEPT !.infoHash = h]
           wait  == ~entry.paused /\ ~HasSlot(tr, left)
           work  == [IdleJob EXCEPT !.hash = h, !.dict = dict, !.via = via]
       IN /\ tracked' = left \cup {i}
          /\ tr' = [tr EXCEPT ![i] = IF entry.paused THEN StartPaused(entry)
                                     ELSE IF wait THEN Enqueue([entry EXCEPT !.hold = "spec"])
                                     ELSE entry]
          /\ queue' = IF wait THEN EnqueueIn(DequeueAll(queue, gone), i) ELSE DequeueAll(queue, gone)
          /\ job' = [job EXCEPT ![i] = IF wait THEN work ELSE [work EXCEPT !.pc = "attach"]]
    /\ UNCHANGED <<phase, lib, drops>>

(***************************************************************************)
(* track, for a .torrent URL: no infohash is known yet. The entry is       *)
(* registered first, so it counts itself when it looks for a free slot.    *)
(***************************************************************************)
TrackURL(i, via, paused, seedDone) ==
    /\ Open
    /\ i \in Unminted
    /\ LET entry == NewTracked(paused, seedDone)
           wait  == ~entry.paused
                    /\ ActiveCount([tr EXCEPT ![i] = entry], tracked \cup {i}) > MaxActive
           work  == [IdleJob EXCEPT !.via = via]
       IN /\ tr' = [tr EXCEPT ![i] = IF entry.paused THEN StartPaused(entry)
                                     ELSE IF wait THEN Enqueue([entry EXCEPT !.hold = "url"])
                                     ELSE entry]
          /\ queue' = IF wait THEN EnqueueIn(queue, i) ELSE queue
          /\ job' = [job EXCEPT ![i] = IF wait THEN work ELSE [work EXCEPT !.pc = "fetch"]]
    /\ tracked' = tracked \cup {i}
    /\ UNCHANGED <<phase, lib, drops>>

Add(i) ==
    /\ phase = "running"
    /\ \/ \E h \in Hashes : \/ "magnet" \in Kinds /\ FindOrTrack(i, h, FALSE, "add", FALSE, FALSE)
                            \/ "file" \in Kinds /\ FindOrTrack(i, h, TRUE, "add", FALSE, FALSE)
       \/ "url" \in Kinds /\ TrackURL(i, "url", FALSE, FALSE)
    /\ UNCHANGED restored

(***************************************************************************)
(* trackErrored: a saved torrent that cannot run is tracked all the same,  *)
(* errored and refused. It is not attached, and it does not claim h: an    *)
(* entry already tracked under h stays.                                    *)
(***************************************************************************)
TrackErrored(i, h, paused, seedDone) ==
    /\ Open
    /\ tracked' = tracked \cup {i}
    /\ tr' = [tr EXCEPT ![i] = [NewTracked(paused, seedDone) EXCEPT
                                  !.state = "errored", !.refused = TRUE, !.infoHash = h]]
    /\ job' = [job EXCEPT ![i] = IdleJob]
    /\ UNCHANGED <<phase, queue, lib, drops>>

\* Session.Resume restores one torrent after the other.
Restoring == \E i \in Ids : job[i].via = "restore" /\ job[i].pc \in {"retrack"} \cup AttachPcs

(***************************************************************************)
(* Restore of one saved torrent, by its metainfo or magnet, or by its URL. *)
(* One the seed policy stopped was saved with its metainfo.                *)
(***************************************************************************)
Restore(i) ==
    /\ phase = "resuming"
    /\ restored < Restores
    /\ ~Restoring
    /\ restored' = restored + 1
    /\ \E paused, seedDone \in BOOLEAN :
        \/ \E h \in Hashes, dict \in BOOLEAN :
              /\ seedDone => dict
              /\ \/ FindOrTrack(i, h, dict, "restore", paused, seedDone)
                 \/ i \in Unminted /\ TrackErrored(i, h, paused, seedDone)
        \/ "url" \in Kinds /\ TrackURL(i, "url", paused, FALSE)

\* Session.Resume is done: the TUI starts.
FinishResume ==
    /\ phase = "resuming"
    /\ ~Restoring
    /\ phase' = "running"
    /\ UNCHANGED <<restored, tracked, tr, queue, job, lib, drops>>

----------------------------------------------------------------------------
(* fetchAndAttach: the fetch of a .torrent, outside the lock. *)

\* e.fail(tr, err) by a starter that has nothing more to do.
FailEntry(i) == tr' = [tr EXCEPT ![i] = Fail(@)]

\* No answer within the metadata timeout, a .torrent that does not parse, an
\* infohash already tracked, or left data elsewhere (ErrLeftData).
FetchFails(i) ==
    /\ job[i].pc = "fetch"
    /\ FailEntry(i)
    /\ Done(i)
    /\ UNCHANGED <<phase, restored, tracked, queue, lib, drops>>

(***************************************************************************)
(* The fetch answered with a .torrent (dict) or redirected to a magnet     *)
(* (~dict) whose infohash no live entry is tracked under (claimInfoHash).  *)
(* The claim records nothing: infoHash is set only when attach publishes.  *)
(***************************************************************************)
FetchClaims(i) ==
    /\ job[i].pc = "fetch"
    /\ \E h \in Hashes, dict \in BOOLEAN :
        /\ \A j \in Matches(h, i) : tr[j].refused
        /\ tracked' = tracked \ Matches(h, i)
        /\ queue' = DequeueAll(queue, Matches(h, i))
        /\ job' = [job EXCEPT ![i].pc = "attach", ![i].hash = h, ![i].dict = dict]
    /\ UNCHANGED <<phase, restored, tr, lib, drops>>

----------------------------------------------------------------------------
(* attach. *)

(***************************************************************************)
(* A precheck, the storage or the client refused the spec: addSpec         *)
(* untracks the entry it minted (a restore then tracks it as errored), a   *)
(* fetch fails it, promote refuses it.                                     *)
(***************************************************************************)
AttachFailure(i) ==
    CASE job[i].via \in {"add", "restore"} ->
            /\ tracked' = tracked \ {i}
            /\ queue' = Dequeue(queue, i)
            /\ IF job[i].via = "restore" /\ i \in tracked THEN SetPc(i, "retrack") ELSE Done(i)
            /\ UNCHANGED tr
      [] job[i].via = "url" ->
            /\ FailEntry(i)
            /\ Done(i)
            /\ UNCHANGED <<tracked, queue>>
      [] job[i].via = "promote" ->
            /\ tr' = [tr EXCEPT ![i] = [Fail(@) EXCEPT !.refused = TRUE]]
            /\ Done(i)
            /\ UNCHANGED <<tracked, queue>>

AttachFails(i) ==
    /\ job[i].pc \in {"attach", "join"}
    /\ AttachFailure(i)
    /\ UNCHANGED <<phase, restored, lib, drops>>

\* addOrFail: the untracked restore is tracked again, errored, under its ID.
Retrack(i) ==
    /\ job[i].pc = "retrack"
    /\ TrackErrored(i, job[i].hash, tr[i].userPaused, tr[i].seedDone)
    /\ UNCHANGED restored

\* addToClient reads the pause under the lock (storageFor checked closed).
ReadHeld(i) ==
    /\ job[i].pc = "attach"
    /\ Open
    /\ job' = [job EXCEPT ![i].pc = "join", ![i].held = tr[i].paused]
    /\ UNCHANGED <<phase, restored, tracked, tr, queue, lib, drops>>

(***************************************************************************)
(* AddTorrentSpec: the client hands back the torrent it has for the        *)
(* infohash, or a new one with its gates open. A held torrent's gates are  *)
(* shut before its info dictionary is set (T-9134). A torrent that comes   *)
(* with its dictionary may have its data on disk.                          *)
(***************************************************************************)
Join(i) ==
    /\ job[i].pc = "join"
    /\ \E onDisk \in BOOLEAN :
        LET old == InClient(job[i].hash)
            o   == IF old = {} THEN i ELSE CHOOSE x \in old : TRUE
            was == IF old = {}
                   THEN [NewLib EXCEPT !.hash = job[i].hash, !.live = TRUE, !.dl = TRUE, !.ul = TRUE,
                                       !.complete = onDisk]
                   ELSE lib[o]
            now == [was EXCEPT !.info = @ \/ job[i].dict]
        IN /\ onDisk => old = {} /\ job[i].dict
           /\ lib' = [lib EXCEPT ![o] = IF job[i].held THEN Hold(now) ELSE now]
           /\ job' = [job EXCEPT ![i].pc = "publish", ![i].t = o]
    /\ UNCHANGED <<phase, restored, tracked, tr, queue, drops>>

\* Mutant: the torrent of a removed entry is left in the client.
PublishRemovedKeeps(i) ==
    /\ job[i].pc = "publish"
    /\ tr[i].removed
    /\ Done(i)
    /\ UNCHANGED <<phase, restored, tracked, tr, queue, lib, drops>>

\* Remove ran meanwhile: drop what was just joined.
PublishRemoved(i) ==
    /\ job[i].pc = "publish"
    /\ tr[i].removed
    /\ drops' = drops \cup {job[i].t}
    /\ Done(i)
    /\ UNCHANGED <<phase, restored, tracked, tr, queue, lib>>

\* Close began meanwhile: no goroutine may join the wait group now.
PublishClosed(i) ==
    /\ job[i].pc = "publish"
    /\ ~tr[i].removed
    /\ ~Open
    /\ AttachFailure(i)
    /\ UNCHANGED <<phase, restored, lib, drops>>

\* Mutant: the gate is left as addToClient set it.
SettledNever(o, held, r) == o

\* A Pause or Resume since ReadHeld found no torrent and left its gates alone.
Settled(o, held, r) ==
    CASE o.live /\ ~held /\ r.paused -> Hold(o)
      [] o.live /\ held /\ ~r.paused /\ r.state # "queued" -> Allow(o)
      [] OTHER -> o

\* tr.t and its infohash become known to the engine's other calls.
PublishTorrent(i) ==
    LET o == job[i].t
    IN /\ tr' = [tr EXCEPT ![i].t = o, ![i].infoHash = lib[o].hash]
       /\ lib' = [lib EXCEPT ![o] = Settled(@, job[i].held, tr[i])]
       /\ SetPc(i, "await")
       /\ UNCHANGED <<phase, restored, tracked, queue, drops>>

\* Mutant: awaitInfo is counted although Close is already waiting.
PublishUnchecked(i) == job[i].pc = "publish" /\ ~tr[i].removed /\ PublishTorrent(i)

\* Publish tr.t, settle its gate, count and start awaitInfo.
Publish(i) == job[i].pc = "publish" /\ ~tr[i].removed /\ Open /\ PublishTorrent(i)

----------------------------------------------------------------------------
(* awaitInfo. *)

\* The engine closed, or the torrent was removed: nothing left to do.
AwaitEnds(i) ==
    /\ job[i].pc \in {"await", "deletes"}
    /\ ~Open \/ tr[i].removed
    /\ Done(i)
    /\ UNCHANGED <<phase, restored, tracked, tr, queue, lib, drops>>

\* Mutant: the torrent is dropped and its entry left as it is.
AwaitForgets(i) ==
    /\ job[i].pc = "await"
    /\ lib' = [lib EXCEPT ![job[i].t] = Dropped(@)]
    /\ Done(i)
    /\ UNCHANGED <<phase, restored, tracked, tr, queue, drops>>

\* The metadata timeout, or a dictionary that is empty, unsafe or does not
\* fit: refuse drops the torrent first ...
AwaitRefuses(i) ==
    /\ job[i].pc = "await"
    /\ lib' = [lib EXCEPT ![job[i].t] = Dropped(@)]
    /\ SetPc(i, "refuse")
    /\ UNCHANGED <<phase, restored, tracked, tr, queue, drops>>

\* ... and fails the entry under the lock afterwards. It stays in the queue
\* if it was there.
Refuse(i) ==
    /\ job[i].pc = "refuse"
    /\ tr' = [tr EXCEPT ![i] = [Fail(@) EXCEPT !.refused = TRUE]]
    /\ Done(i)
    /\ UNCHANGED <<phase, restored, tracked, queue, lib, drops>>

\* What a paused and a queued torrent have in common when the info arrives.
HoldsAtInfo(i) == tr[i].paused \/ tr[i].state = "queued"

\* The dictionary arrived and passed the path and space checks: the state it
\* leads to, and the gate a pause asked for before it came.
GotInfo(i) ==
    /\ job[i].pc = "await"
    /\ lib[job[i].t].info
    /\ LET r == tr[i]
           o == job[i].t
       IN /\ tr' = [tr EXCEPT ![i] =
                IF r.state = "queued" THEN @
                ELSE IF r.paused THEN [@ EXCEPT !.pre = "downloading"]
                ELSE IF r.state = "checking" THEN [@ EXCEPT !.state = "downloading"]
                ELSE @]
          /\ lib' = IF HoldsAtInfo(i) THEN [lib EXCEPT ![o] = Hold(@)] ELSE lib
    /\ SetPc(i, "deletes")
    /\ UNCHANGED <<phase, restored, tracked, queue, drops>>

\* No delete in flight is of its data any more (awaitDeletes): DownloadAll.
DownloadAll(i) ==
    /\ job[i].pc = "deletes"
    /\ Done(i)
    /\ UNCHANGED <<phase, restored, tracked, tr, queue, lib, drops>>

----------------------------------------------------------------------------
(* The user's calls. *)

\* Mutant: a paused entry keeps its place in the queue.
PauseInQueue(i) ==
    /\ "pause" \in Calls
    /\ phase = "running"
    /\ i \in tracked
    /\ ~tr[i].paused
    /\ tr' = [tr EXCEPT ![i] = [PauseEntry(@) EXCEPT !.userPaused = TRUE]]
    /\ lib' = IF tr[i].t = None THEN lib ELSE [lib EXCEPT ![tr[i].t] = Hold(@)]
    /\ UNCHANGED <<phase, restored, tracked, queue, job, drops>>

(***************************************************************************)
(* Pause: a no-op for an entry already paused, for whatever reason. The    *)
(* goroutine it starts to promote the queue is Promote.                    *)
(***************************************************************************)
Pause(i) ==
    /\ "pause" \in Calls
    /\ phase = "running"
    /\ i \in tracked
    /\ IF tr[i].paused
       THEN UNCHANGED <<tr, queue, lib>>
       ELSE /\ tr' = [tr EXCEPT ![i] = [PauseEntry(@) EXCEPT !.userPaused = TRUE]]
            /\ queue' = Dequeue(queue, i)
            /\ lib' = IF tr[i].t = None THEN lib ELSE [lib EXCEPT ![tr[i].t] = Hold(@)]
    /\ UNCHANGED <<phase, restored, tracked, job, drops>>

\* PauseForShutdown: every entry not paused, none of them by the user.
PauseForShutdown ==
    /\ "quit" \in Calls
    /\ phase = "running"
    /\ LET now == {i \in tracked : ~tr[i].paused}
       IN /\ now # {}
          /\ tr' = [i \in Ids |-> IF i \in now THEN PauseEntry(tr[i]) ELSE tr[i]]
          /\ queue' = DequeueAll(queue, now)
          /\ lib' = [o \in Ids |-> IF \E i \in now : tr[i].t = o THEN Hold(lib[o]) ELSE lib[o]]
    /\ UNCHANGED <<phase, restored, tracked, job, drops>>

\* What Resume makes of the entry before it looks for a slot.
Unpause(r) ==
    LET u == [r EXCEPT !.paused = FALSE, !.userPaused = FALSE]
    IN IF u.spacePaused
       THEN [u EXCEPT !.spacePaused = FALSE, !.state = u.pre]
       ELSE IF u.seedDone /\ u.state # "errored"
       THEN [u EXCEPT !.seedDone = FALSE, !.seedOverride = TRUE, !.state = "seeding"]
       ELSE IF u.state = "paused"
       THEN [u EXCEPT !.state = u.pre]
       ELSE u

(***************************************************************************)
(* Resume: an entry that would take a slot waits in the queue when every   *)
(* slot is taken, provided the queue has something to start it with; one   *)
(* whose fetch or attach is in flight does not, and may overshoot.         *)
(***************************************************************************)
Resume(i) ==
    /\ phase = "running"
    /\ i \in tracked
    /\ tr[i].paused
    /\ LET u == Unpause(tr[i])
           startable == u.t # None \/ u.hold # "none"
           full == ActiveCount([tr EXCEPT ![i] = u], tracked) > MaxActive
           wait == startable /\ \/ u.state = "queued"
                                \/ u.state \in {"checking", "downloading"} /\ full
       IN /\ tr' = [tr EXCEPT ![i] = IF wait THEN Enqueue(u) ELSE u]
          /\ queue' = IF wait THEN EnqueueIn(queue, i) ELSE queue
          /\ lib' = IF wait \/ u.t = None \/ ~lib[u.t].live
                    THEN lib ELSE [lib EXCEPT ![u.t] = Allow(@)]
    /\ UNCHANGED <<phase, restored, tracked, job, drops>>

\* Remove's critical section: the entry is forgotten, its torrent dropped after.
Remove(i) ==
    /\ "remove" \in Calls
    /\ phase = "running"
    /\ i \in tracked
    /\ tracked' = tracked \ {i}
    /\ tr' = [tr EXCEPT ![i].removed = TRUE]
    /\ queue' = Dequeue(queue, i)
    /\ drops' = IF tr[i].t = None THEN drops ELSE drops \cup {tr[i].t}
    /\ UNCHANGED <<phase, restored, job, lib>>

\* t.Drop(), outside the lock.
Drop(o) ==
    /\ o \in drops
    /\ lib' = [lib EXCEPT ![o] = Dropped(@)]
    /\ drops' = drops \ {o}
    /\ UNCHANGED <<phase, restored, tracked, tr, queue, job>>

\* MoveInQueue.
MoveInQueue(i, pos) ==
    /\ "move" \in Calls
    /\ phase = "running"
    /\ i \in tracked
    /\ i \in Queued
    /\ LET rest == Dequeue(queue, i)
           at   == IF pos > Len(rest) THEN Len(rest) ELSE pos
       IN queue' = Insert(rest, at, i)
    /\ UNCHANGED <<phase, restored, tracked, tr, job, lib, drops>>

----------------------------------------------------------------------------
(* The sample loop. *)

\* Mutant: the newest first.
NextUpLast == queue[Len(queue)]

NextUp == Head(queue)

(***************************************************************************)
(* promoteOneLocked: the head of the queue starts while a slot is free -   *)
(* an attached entry by lifting its gate, a URL by fetching it, a spec by  *)
(* attaching it.                                                           *)
(***************************************************************************)
Promote ==
    /\ Open
    /\ queue # <<>>
    /\ HasSlot(tr, tracked)
    /\ queue' = Dequeue(queue, NextUp)
    /\ LET i == NextUp
           r == tr[i]
       IN IF r.t # None
          THEN /\ tr' = [tr EXCEPT ![i].state = IF lib[r.t].info THEN "downloading" ELSE "checking"]
               /\ lib' = IF lib[r.t].live THEN [lib EXCEPT ![r.t] = Allow(@)] ELSE lib
               /\ UNCHANGED job
          ELSE /\ tr' = [tr EXCEPT ![i].state = "checking", ![i].hold = "none"]
               /\ job' = IF r.hold = "url" THEN [job EXCEPT ![i].pc = "fetch"]
                         ELSE [job EXCEPT ![i].pc = "attach", ![i].via = "promote"]
               /\ UNCHANGED lib
    /\ UNCHANGED <<phase, restored, tracked, drops>>

\* recheckSpace pauses a download its disk cannot hold: downloads only.
SpacePause(i) ==
    /\ "space" \in Calls
    /\ Open
    /\ i \in tracked
    /\ tr[i].t # None
    /\ lib[tr[i].t].info
    /\ tr[i].state = "downloading"
    /\ tr' = [tr EXCEPT ![i].paused = TRUE, ![i].spacePaused = TRUE,
                        ![i].pre = "downloading", ![i].state = "errored"]
    /\ lib' = [lib EXCEPT ![tr[i].t].dl = FALSE]
    /\ UNCHANGED <<phase, restored, tracked, queue, job, drops>>

\* applyPolicyLocked: a complete download seeds, a seeding torrent whose
\* policy is satisfied stops uploading.
ApplyPolicy(i) ==
    /\ Open
    /\ i \in tracked
    /\ tr[i].t # None
    /\ ~tr[i].paused
    /\ lib[tr[i].t].info
    /\ LET done == tr[i].state = "downloading" /\ lib[tr[i].t].complete
           r == IF done THEN [tr[i] EXCEPT !.state = "seeding"] ELSE tr[i]
           stop == r.state = "seeding" /\ ~r.seedOverride
       IN \/ done /\ tr' = [tr EXCEPT ![i] = r] /\ UNCHANGED lib
          \/ /\ stop
             /\ tr' = [tr EXCEPT ![i] = [r EXCEPT !.paused = TRUE, !.seedDone = TRUE,
                                                  !.pre = "seeding", !.state = "paused"]]
             /\ lib' = [lib EXCEPT ![tr[i].t].ul = FALSE]
    /\ UNCHANGED <<phase, restored, tracked, queue, job, drops>>

----------------------------------------------------------------------------
(* Close, and the swarm. *)

CloseBegin ==
    /\ "close" \in Calls
    /\ phase = "running"
    /\ phase' = "closing"
    /\ UNCHANGED <<restored, tracked, tr, queue, job, lib, drops>>

\* Goroutines counted in Engine.wg: fetches with their attach, and awaitInfo.
Counted(i) == \/ job[i].pc \in {"fetch"} \cup AwaitPcs
              \/ job[i].pc \in AttachPcs /\ job[i].via = "url"

\* wg.Wait returned: the client closes every torrent it has.
CloseEnd ==
    /\ phase = "closing"
    /\ \A i \in Ids : ~Counted(i)
    /\ phase' = "closed"
    /\ lib' = [o \in Ids |-> Dropped(lib[o])]
    /\ UNCHANGED <<restored, tracked, tr, queue, job, drops>>

\* A peer supplies the info dictionary.
InfoArrives(o) ==
    /\ lib[o].live
    /\ ~lib[o].info
    /\ lib' = [lib EXCEPT ![o].info = TRUE]
    /\ UNCHANGED <<phase, restored, tracked, tr, queue, job, drops>>

\* The last piece is verified: fetched, or found on disk.
Completes(o) ==
    /\ "complete" \in Calls
    /\ lib[o].live /\ lib[o].info
    /\ ~lib[o].complete
    /\ lib' = [lib EXCEPT ![o].complete = TRUE]
    /\ UNCHANGED <<phase, restored, tracked, tr, queue, job, drops>>

----------------------------------------------------------------------------

Init ==
    /\ phase = "resuming"
    /\ restored = 0
    /\ tracked = {}
    /\ tr = [i \in Ids |-> NewTracked(FALSE, FALSE)]
    /\ queue = <<>>
    /\ job = [i \in Ids |-> [IdleJob EXCEPT !.pc = "new"]]
    /\ lib = [i \in Ids |-> NewLib]
    /\ drops = {}

Start(i) ==
    \/ FetchFails(i) \/ FetchClaims(i)
    \/ AttachFails(i) \/ Retrack(i) \/ ReadHeld(i) \/ Join(i)
    \/ PublishRemoved(i) \/ PublishClosed(i) \/ Publish(i)

Await(i) ==
    \/ AwaitEnds(i) \/ AwaitRefuses(i) \/ Refuse(i)
    \/ GotInfo(i) \/ DownloadAll(i)

User(i) ==
    \/ Add(i) \/ Restore(i) \/ Pause(i) \/ Resume(i) \/ Remove(i)
    \/ \E pos \in 0..Cardinality(Ids) : MoveInQueue(i, pos)

Sampler(i) == SpacePause(i) \/ ApplyPolicy(i)

Swarm(o) == InfoArrives(o) \/ Completes(o) \/ Drop(o)

Next ==
    \/ \E i \in Ids : Start(i) \/ Await(i) \/ User(i) \/ Sampler(i) \/ Swarm(i)
    \/ FinishResume \/ Promote \/ PauseForShutdown \/ CloseBegin \/ CloseEnd

Spec == Init /\ [][Next]_vars

(***************************************************************************)
(* What the code's own timers and goroutines guarantee: a fetch and a wait *)
(* for metadata are bounded by the metadata timeout, a dropped torrent is  *)
(* dropped by the call that is dropping it, the sample loop ticks on. The  *)
(* swarm's part, that a download which keeps its place finishes, is        *)
(* assumed, not justified by the code.                                     *)
(***************************************************************************)
FairSpec ==
    /\ Spec
    /\ \A i \in Ids : WF_vars(Start(i)) /\ WF_vars(Await(i)) /\ WF_vars(Drop(i))
    /\ WF_vars(Promote)
    /\ \A i \in Ids : WF_vars(Completes(i)) /\ WF_vars(ApplyPolicy(i))

----------------------------------------------------------------------------
(* What the engine promises. *)

\* Entry i is published and is the only one that reaches its torrent.
Sole(i) ==
    /\ i \in tracked
    /\ tr[i].t # None
    /\ tr[i].t \notin drops
    /\ \A j \in tracked \ {i} : tr[j].t # tr[i].t
    /\ \A j \in Ids \ {i} : job[j].t # tr[i].t

Gates(i) == lib[tr[i].t]

(***************************************************************************)
(* promoteOneLocked indexes the entry of the queue's head and starts it    *)
(* from its torrent, its URL or its spec without a check: an id that was   *)
(* removed, untracked or has nothing left to start from would be a nil     *)
(* dereference. Every queued entry is tracked, unpaused, startable and in  *)
(* the queue once; and an entry that shows "queued" is in the queue, or it *)
(* would wait for ever.                                                    *)
(***************************************************************************)
QueueSound ==
    /\ \A m, n \in DOMAIN queue : queue[m] = queue[n] => m = n
    /\ Queued \subseteq tracked
    /\ \A i \in Queued : ~tr[i].paused /\ (tr[i].t # None \/ tr[i].hold # "none")
    /\ \A i \in tracked : tr[i].state = "queued" => i \in Queued

(***************************************************************************)
(* engine.Queuer: queued torrents start "in Queue order", and no call      *)
(* changes the order of two of them except a MoveInQueue of one of the     *)
(* two, whatever leaves the queue meanwhile.                               *)
(***************************************************************************)
Before(q, i, j) == \E m, n \in DOMAIN q : m < n /\ q[m] = i /\ q[n] = j

Moves(i) == \E pos \in 0..Cardinality(Ids) : MoveInQueue(i, pos)

QueueOrder ==
    [][ \A i, j \in Queued :
          Before(queue, i, j) =>
            /\ Before(queue', j, i) => Moves(i) \/ Moves(j)
            /\ j \in tracked' /\ tr'[j].state \in {"checking", "downloading"} => tr'[i].state # "queued"
      ]_vars

(***************************************************************************)
(* One live entry per infohash (T-944): concurrent adds, and an add while  *)
(* an entry of the same infohash is being refused, never leave two tracked *)
(* entries that share one library torrent.                                 *)
(***************************************************************************)
OneEntryPerHash ==
    \A i, j \in tracked :
        /\ i # j
        /\ ~tr[i].refused /\ ~tr[j].refused
        /\ tr[i].infoHash # None
        => tr[i].infoHash # tr[j].infoHash

(***************************************************************************)
(* A pause holds what it says, whenever it came - before the attach, while *)
(* the torrent was between the client and the lock, before its metadata:   *)
(* both gates for the user's pause and the shutdown's, download for the    *)
(* free-space pause, upload for the seed policy's.                         *)
(***************************************************************************)
PauseHoldsGates ==
    \A i \in Ids : Sole(i) /\ tr[i].paused =>
        /\ ~tr[i].seedDone => ~Gates(i).dl
        /\ ~tr[i].spacePaused => ~Gates(i).ul

(***************************************************************************)
(* T-946: a torrent that shows downloading or seeding and is not paused    *)
(* has both gates open, whatever raced with its resume or its metadata.    *)
(***************************************************************************)
RunningOpensGates ==
    \A i \in Ids :
        /\ Sole(i) /\ Gates(i).live
        /\ ~tr[i].paused /\ tr[i].state \in {"downloading", "seeding"}
        => Gates(i).dl /\ Gates(i).ul

(***************************************************************************)
(* The gates of a torrent follow its entry: attach, awaitInfo, Pause, Resume *)
(* and promote each settle them, at whatever moment the others ran.        *)
(***************************************************************************)
GatesFollow == PauseHoldsGates /\ RunningOpensGates

(***************************************************************************)
(* max_active_downloads: concurrent adds, promotions, metadata arriving    *)
(* and policy changes never take more slots than there are. Only a Resume  *)
(* of an entry whose fetch or attach is already running may overshoot.     *)
(***************************************************************************)
SlotBound ==
    [][ /\ ActiveCount(tr', tracked') > MaxActive
        /\ ActiveCount(tr', tracked') > ActiveCount(tr, tracked)
        => \E i \in Ids : job[i].pc # "idle" /\ tr[i].t = None /\ tr[i].paused /\ ~tr'[i].paused
      ]_vars

(***************************************************************************)
(* No torrent is left in the client with nobody to manage it: each live    *)
(* one is some tracked entry's, or is being attached, or is about to be    *)
(* dropped - although a Remove or a refusal can land between any two steps *)
(* of the attach.                                                          *)
(***************************************************************************)
NoOrphan ==
    Open => \A o \in Ids : lib[o].live =>
        \/ o \in drops
        \/ \E i \in tracked : tr[i].t = o
        \/ \E i \in Ids : job[i].pc = "publish" /\ job[i].t = o

(***************************************************************************)
(* Close waits for every counted goroutine, and none starts afterwards     *)
(* (wg.Add after wg.Wait): no fetch and no wait for metadata runs once the *)
(* client is closed.                                                       *)
(***************************************************************************)
NoWorkAfterClose == phase = "closed" => \A i \in Ids : ~Counted(i)

\* Entry i shows checking and holds a slot.
Checking(i) ==
    /\ Open
    /\ i \in tracked
    /\ tr[i].state = "checking" /\ ~tr[i].paused /\ ~tr[i].refused

(***************************************************************************)
(* No torrent checks for ever: its fetch, its attach or its metadata       *)
(* timeout ends it, so that it does not keep a download slot.              *)
(***************************************************************************)
CheckingEnds == \A i \in Ids : Checking(i) ~> ~Checking(i)

\* A slot is held by an entry whose torrent the client no longer has.
DeadSlot ==
    \E j \in Active(tr, tracked) :
        tr[j].t # None /\ ~lib[tr[j].t].live /\ job[j].pc # "refuse"

(***************************************************************************)
(* While downloads finish and nobody reorders the queue, every queued      *)
(* torrent starts (or is removed), unless a dead torrent keeps the slot.   *)
(***************************************************************************)
Waits(i) == Open /\ i \in Queued /\ ~DeadSlot
QueueServed == \A i \in Ids : Waits(i) ~> ~Waits(i)

(***************************************************************************)
(* No torrent is left checking or queued (awaitInfo's timeout, the promote *)
(* after every call that frees a slot).                                    *)
(***************************************************************************)
StartsEnd == CheckingEnds /\ QueueServed

(***************************************************************************)
(* struct tracked: "refused is set, with the torrent errored, once nothing *)
(* of it is left in the client".                                           *)
(***************************************************************************)
RefusedIsErrored == \A i \in tracked : tr[i].refused => tr[i].state = "errored"

(***************************************************************************)
(* engine.StateDownloading "means data is actively being fetched": an      *)
(* unpaused, unrefused torrent that shows it is in the client.             *)
(***************************************************************************)
DownloadingIsLive ==
    \A i \in tracked :
        /\ Open
        /\ tr[i].state = "downloading" /\ ~tr[i].paused /\ ~tr[i].refused
        /\ job[i].pc # "refuse"
        => lib[tr[i].t].live

=============================================================================

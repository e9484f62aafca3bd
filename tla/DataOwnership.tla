--------------------------- MODULE DataOwnership ---------------------------
(***************************************************************************)
(* Whose data is on disk, and who may delete it                            *)
(* (internal/engine/anacrolix: engine.go, samedir.go, resume.go). Two      *)
(* torrents may name their data alike at one destination, a destination    *)
(* has several paths, a refused entry keeps what it downloaded before, and *)
(* Remove deletes outside Engine.mu while other torrents start. This       *)
(* module is about the decisions that keep one torrent's data out of       *)
(* another's deletion; the engine's queue and transfers are those of       *)
(* module TorrentEngine, the files those of module FileStore.              *)
(*                                                                         *)
(* Each critical section of Engine.mu is an action, and so is what a call  *)
(* reads from disk before it takes the lock. What is at a destination is   *)
(* one entry of the directory per data name, there or not. Names stand for *)
(* classes of names equal but for case, which mayBeSameName takes as one.  *)
(***************************************************************************)
EXTENDS Naturals, FiniteSets, Sequences

CONSTANTS
    Torrents,   \* infohashes
    Names,      \* data names
    NameOf,     \* the name a torrent's info dictionary gives its data
    Carries,    \* whether its source may carry the dictionary: a .torrent does, a magnet not
    Paths,      \* destinations as they are written
    Dirs,       \* the directories they lead to
    DirOf,      \* which path leads to which
    MaxIds,     \* how many entries there are at most
    Adders,     \* goroutines that run an Add, a Restore
    Removers,   \* or a Remove for the user
    MaxActive,  \* max_active_downloads
    MaxRecords  \* how many torrents the session restores at most

ASSUME NameOfAssumption == NameOf \in [Torrents -> Names]
ASSUME CarriesAssumption == Carries \in [Torrents -> SUBSET BOOLEAN]
ASSUME DirOfAssumption == DirOf \in [Paths -> Dirs]
ASSUME SomeAssumption == Torrents # {} /\ Paths # {}
ASSUME BoundsAssumption == MaxIds \in Nat /\ MaxActive \in Nat \ {0} /\ MaxRecords \in Nat

Ids == 1 .. MaxIds
Callers == Adders \cup Removers

VARIABLES
    records,    \* what Session.Resume has still to restore, oldest first
    entry,      \* entry[i]: the tracked entry i, phase "none" until minted
    call,       \* call[c]: the call c runs
    deleting,   \* Engine.deleting
    disk        \* what is there: pairs of a directory and a name

vars == <<records, entry, call, deleting, disk>>

Phases == {"none", "queued", "joining", "starting", "waiting", "checking",
           "gated", "running", "refusing", "refused"}

\* A tracked entry as far as its data goes: where and which, whether the code
\* holds the info dictionary (in a spec or from the library), whether the
\* library has it (tr.t), the two names a refused entry may keep, and what
\* refuse read before it took the lock.
Entries == [phase : Phases, torrent : Torrents, path : Paths, info : BOOLEAN, joined : BOOLEAN,
            left : BOOLEAN, shared : BOOLEAN, found : BOOLEAN, apart : SUBSET Paths]

Records == [torrent : Torrents, path : Paths, info : BOOLEAN]
Sessions == UNION {[1 .. n -> Records] : n \in 0 .. MaxRecords}

Idle == [op |-> "idle"]

Tracked == {i \in Ids : entry[i].phase # "none"}
NameAt(i) == NameOf[entry[i].torrent]
Where(path, name) == <<DirOf[path], name>>
DataOf(i) == Where(entry[i].path, NameAt(i))

\* The torrents that hold a slot.
Active == {i \in Tracked : entry[i].phase \notin {"queued", "refusing", "refused"}}

(***************************************************************************)
(* What is read from disk, without the lock.                               *)
(***************************************************************************)

\* destMatches: the other paths it can show to be another directory. It may
\* fail to show it (dirUnknown), and knows nothing of an entry added since.
Apart(path) == {p \in {entry[i].path : i \in Tracked} : DirOf[p] # DirOf[path]}
DestMatches(path) == {Apart(path), {}}

\* leftData: the name of data that is there, unless the dictionary is missing
\* or declares an unsafe path.
LeftData(torrent, path, info) ==
    {FALSE} \cup {info /\ Where(path, NameOf[torrent]) \in disk}

\* leftDataView: which refused entries' data is gone, and which of their
\* destinations are shown to be the add's.
LeftOf(torrent) == {i \in Tracked : /\ entry[i].phase = "refused"
                                    /\ entry[i].torrent = torrent
                                    /\ entry[i].left}
Gone(torrent) == {DataOf(i) : i \in {j \in LeftOf(torrent) : DataOf(j) \notin disk}}
LeftDataViews(torrent, path) ==
    {[gone |-> Gone(torrent), same |-> same] :
        same \in {{}, {p \in {entry[i].path : i \in LeftOf(torrent)} : DirOf[p] = DirOf[path]}}}

(***************************************************************************)
(* The decisions, under the lock.                                          *)
(***************************************************************************)

MayBeSameDir(dest, path, apart) == path = dest \/ path \notin apart
IsSameDir(dest, path, same) == path = dest \/ path \in same

Beside(i, dest, apart) == {j \in Tracked \ {i} : MayBeSameDir(dest, entry[j].path, apart)}

\* dataNameLocked: an entry's data has a name once the code holds its info
\* dictionary; a refused entry has the data it left, if any.
Knows(j) == \/ entry[j].phase = "refused"
            \/ entry[j].info /\ (entry[j].joined \/ entry[j].phase = "queued")
HasName(j, name) == /\ Knows(j)
                    /\ NameAt(j) = name
                    /\ entry[j].phase = "refused" => entry[j].left

\* dataNameUsedLocked.
Taken(i, name, dest, apart) == \E j \in Beside(i, dest, apart) : HasName(j, name)
Pending(i, name, dest, apart) == /\ ~Taken(i, name, dest, apart)
                                 /\ \E j \in Beside(i, dest, apart) : ~Knows(j)

SharedNameForgotten(i, name, dest, apart) == FALSE
SharedNameKept(i, name, dest, apart) ==
    \E j \in Beside(i, dest, apart) : /\ entry[j].phase = "refused"
                                      /\ entry[j].shared
                                      /\ NameAt(j) = name

\* keepLeftLocked, as the two fields it sets.
DefersNever(i, torrent, path, apart) == FALSE
Defers(i, torrent, path, apart) == \/ Taken(i, NameOf[torrent], path, apart)
                                   \/ SharedNameKept(i, NameOf[torrent], path, apart)
Refused(e, i, found, apart) ==
    [e EXCEPT !.phase = "refused", !.found = FALSE, !.apart = {},
              !.left = found /\ ~Defers(i, e.torrent, e.path, apart),
              !.shared = found /\ Defers(i, e.torrent, e.path, apart)]

\* removeTargetLocked: whether the remove of i deletes its data.
Deletes(i, apart) ==
    LET name == NameAt(i)
        dest == entry[i].path
    IN  IF entry[i].phase = "refused"
        THEN /\ entry[i].left
             /\ ~Taken(i, name, dest, apart)
             /\ ~Pending(i, name, dest, apart)
             /\ ~SharedNameKept(i, name, dest, apart)
        ELSE /\ entry[i].joined /\ entry[i].info
             /\ ~Taken(i, name, dest, apart)

\* claimInfoHashLocked: the entry that has the torrent, or those it left data
\* for elsewhere, or neither.
Holders(torrent) == {i \in Tracked : entry[i].torrent = torrent /\ entry[i].phase # "refused"}
LeavingNone(torrent, path, left) == {}
Leaving(torrent, path, left) ==
    {i \in LeftOf(torrent) : /\ ~IsSameDir(path, entry[i].path, left.same)
                             /\ DataOf(i) \notin left.gone}
Stale(torrent) == {i \in Tracked : entry[i].torrent = torrent /\ entry[i].phase = "refused"}

(***************************************************************************)
(* Init.                                                                   *)
(***************************************************************************)
NewEntry(torrent, path, info, phase) ==
    [phase |-> phase, torrent |-> torrent, path |-> path, info |-> info, joined |-> FALSE,
     left |-> FALSE, shared |-> FALSE, found |-> FALSE, apart |-> {}]

Unused == NewEntry(CHOOSE t \in Torrents : TRUE, CHOOSE p \in Paths : TRUE, FALSE, "none")

Init ==
    /\ records \in {s \in Sessions :
                      \A m, n \in DOMAIN s : s[m].torrent = s[n].torrent => m = n}
    /\ entry = [i \in Ids |-> Unused]
    /\ call = [c \in Callers |-> Idle]
    /\ deleting = {}
    /\ disk \in SUBSET {Where(p, n) : p \in Paths, n \in Names}

\* mintIDLocked never hands out an identifier twice; here one may be used
\* again once nothing refers to the entry that had it.
Referred(i) == \/ \E c \in Callers : call[c].op \in {"attach", "remove"} /\ call[c].id = i
               \/ \E d \in deleting : d.id = i
Mintable(untracked) == {i \in (Ids \ Tracked) \cup untracked : ~Referred(i)}

(***************************************************************************)
(* Add and Restore.                                                        *)
(***************************************************************************)
AddCall(torrent, path, info, left, restores) ==
    [op |-> "add", torrent |-> torrent, path |-> path, info |-> info, left |-> left,
     restores |-> restores]
FailCall(torrent, path, info) == [op |-> "fail", torrent |-> torrent, path |-> path, info |-> info]

\* A user's Add, up to the lock of findOrTrack. One that addSpec refuses
\* before it is tracked changes nothing.
AddLook(c) ==
    /\ records = <<>> /\ call[c] = Idle
    /\ \E torrent \in Torrents, path \in Paths :
        \E info \in Carries[torrent], left \in LeftDataViews(torrent, path) :
            call' = [call EXCEPT ![c] = AddCall(torrent, path, info, left, FALSE)]
    /\ UNCHANGED <<records, entry, deleting, disk>>

\* Restore of the oldest record, one after another before there is a user:
\* its destination is no root, its data is missing or its checks fail, or it
\* is added as Add would.
RestoreLook(c) ==
    /\ records # <<>>
    /\ \A b \in Callers : call[b] = Idle
    /\ LET r == Head(records) IN
        \/ call' = [call EXCEPT ![c] = FailCall(r.torrent, r.path, FALSE)]
        \/ call' = [call EXCEPT ![c] = FailCall(r.torrent, r.path, r.info)]
        \/ \E left \in LeftDataViews(r.torrent, r.path) :
               call' = [call EXCEPT ![c] = AddCall(r.torrent, r.path, r.info, left, TRUE)]
    /\ UNCHANGED <<records, entry, deleting, disk>>

\* The record being restored is done with once its entry is there.
Restored(done) == records' = IF done THEN Tail(records) ELSE records

\* findOrTrack: the entry there is, or the refusal for left data, or a new
\* entry in place of the refused ones, queued when every slot is taken.
FindOrTrack(c) ==
    /\ call[c].op = "add"
    /\ LET a == call[c] IN
        \/ /\ Holders(a.torrent) # {}
           /\ call' = [call EXCEPT ![c] = Idle]
           /\ Restored(a.restores)
           /\ UNCHANGED entry
        \/ /\ Holders(a.torrent) = {}
           /\ Leaving(a.torrent, a.path, a.left) # {}
           /\ call' = [call EXCEPT ![c] =
                  IF a.restores THEN FailCall(a.torrent, a.path, a.info) ELSE Idle]
           /\ UNCHANGED <<records, entry>>
        \/ /\ Holders(a.torrent) = {}
           /\ Leaving(a.torrent, a.path, a.left) = {}
           /\ \E i \in Mintable(Stale(a.torrent)) :
               LET full == Cardinality(Active) >= MaxActive
                   new == NewEntry(a.torrent, a.path, a.info, IF full THEN "queued" ELSE "joining")
               IN /\ entry' = [j \in Ids |-> IF j = i THEN new
                                            ELSE IF j \in Stale(a.torrent)
                                            THEN Unused
                                            ELSE entry[j]]
                  /\ call' = [call EXCEPT ![c] =
                         IF full THEN Idle
                         ELSE [op |-> "attach", id |-> i, restores |-> a.restores]]
                  /\ Restored(a.restores /\ full)
    /\ UNCHANGED <<deleting, disk>>

Joined(i) == [entry EXCEPT ![i].joined = TRUE,
                           ![i].phase = IF entry[i].info THEN "checking" ELSE "waiting"]
Untrack(i) == [entry EXCEPT ![i] = Unused]

\* attach for the call that added it: the torrent joins the client, unless it
\* was removed meanwhile (it is dropped) or attach fails, which untracks it.
Attach(c) ==
    /\ call[c].op = "attach"
    /\ LET i == call[c].id IN
        \/ /\ i \in Tracked
           /\ entry' = Joined(i)
           /\ call' = [call EXCEPT ![c] = Idle]
           /\ Restored(call[c].restores)
        \/ /\ i \notin Tracked
           /\ call' = [call EXCEPT ![c] = Idle]
           /\ Restored(call[c].restores)
           /\ UNCHANGED entry
        \/ /\ i \in Tracked
           /\ entry' = Untrack(i)
           /\ call' = [call EXCEPT ![c] =
                  IF call[c].restores
                  THEN FailCall(entry[i].torrent, entry[i].path, entry[i].info) ELSE Idle]
           /\ UNCHANGED records
    /\ UNCHANGED <<deleting, disk>>

\* trackErrored: what it reads, then the entry it tracks as refused.
TrackErroredLook(c) ==
    /\ call[c].op = "fail"
    /\ \E found \in LeftData(call[c].torrent, call[c].path, call[c].info),
          apart \in DestMatches(call[c].path) :
        call' = [call EXCEPT ![c] = [op |-> "track", torrent |-> call[c].torrent,
                                     path |-> call[c].path, info |-> call[c].info,
                                     found |-> found, apart |-> apart]]
    /\ UNCHANGED <<records, entry, deleting, disk>>

TrackErrored(c) ==
    /\ call[c].op = "track"
    /\ \E i \in Mintable({}) :
        LET new == NewEntry(call[c].torrent, call[c].path, call[c].info, "refused")
        IN  entry' = [entry EXCEPT ![i] = Refused(new, i, call[c].found, call[c].apart)]
    /\ call' = [call EXCEPT ![c] = Idle]
    /\ Restored(TRUE)
    /\ UNCHANGED <<deleting, disk>>

(***************************************************************************)
(* What the queue and a torrent's own goroutine do.                        *)
(***************************************************************************)
SetPhase(i, phase) ==
    /\ entry' = [entry EXCEPT ![i].phase = phase]
    /\ UNCHANGED <<records, call, deleting, disk>>

\* promote gives a free slot to a queued torrent, which then attaches; a
\* failed attach refuses it.
Promote(i) == /\ entry[i].phase = "queued"
              /\ Cardinality(Active) < MaxActive
              /\ SetPhase(i, "starting")

\* refuse: the torrent is dropped and what it left is read, then the entry is
\* marked, under the lock.
RefuseLook(i) ==
    /\ \E found \in LeftData(entry[i].torrent, entry[i].path, entry[i].info),
          apart \in DestMatches(entry[i].path) :
        entry' = [entry EXCEPT ![i].phase = "refusing", ![i].found = found, ![i].apart = apart]
    /\ UNCHANGED <<records, call, deleting, disk>>

Refuse(i) ==
    /\ entry[i].phase = "refusing"
    /\ entry' = [entry EXCEPT ![i] = Refused(entry[i], i, entry[i].found, entry[i].apart)]
    /\ UNCHANGED <<records, call, deleting, disk>>

AttachPromoted(i) ==
    /\ entry[i].phase = "starting"
    /\ \/ RefuseLook(i)
       \/ /\ entry' = Joined(i)
          /\ UNCHANGED <<records, call, deleting, disk>>

\* awaitInfo: the info dictionary arrives or the wait times out; then its
\* paths and the space it takes are checked.
InfoArrives(i) == /\ entry[i].phase = "waiting"
                  /\ entry' = [entry EXCEPT ![i].phase = "checking", ![i].info = TRUE]
                  /\ UNCHANGED <<records, call, deleting, disk>>
MetadataTimeout(i) == entry[i].phase = "waiting" /\ RefuseLook(i)
CheckInfo(i) == /\ entry[i].phase = "checking"
                /\ RefuseLook(i) \/ SetPhase(i, "gated")

\* awaitDeletes: until no delete under way may be of that name, anywhere.
AwaitedHere(i) == {d \in deleting : d.name = NameAt(i) /\ d.path = entry[i].path}
Awaited(i) == {d \in deleting : d.name = NameAt(i)}
AwaitDeletes(i) == /\ entry[i].phase = "gated"
                   /\ Awaited(i) = {}
                   /\ SetPhase(i, "running")

\* Only a torrent past awaitDeletes is asked for data.
Write(i) == /\ entry[i].phase = "running"
            /\ disk' = disk \cup {DataOf(i)}
            /\ UNCHANGED <<records, entry, call, deleting>>

(***************************************************************************)
(* Remove.                                                                 *)
(***************************************************************************)
RemoveLook(c) ==
    /\ records = <<>> /\ call[c] = Idle
    /\ \E i \in Tracked : \E apart \in DestMatches(entry[i].path) :
        call' = [call EXCEPT ![c] = [op |-> "remove", id |-> i, apart |-> apart]]
    /\ UNCHANGED <<records, entry, deleting, disk>>

\* Remove without the data reads nothing first.
RemoveEntry(i) ==
    /\ records = <<>>
    /\ i \in Tracked
    /\ entry' = Untrack(i)
    /\ UNCHANGED <<records, call, deleting, disk>>

Remove(c) ==
    /\ call[c].op = "remove"
    /\ LET i == call[c].id IN
        \/ /\ i \notin Tracked
           /\ UNCHANGED <<entry, deleting>>
        \/ /\ i \in Tracked
           /\ entry' = Untrack(i)
           /\ deleting' = IF Deletes(i, call[c].apart)
                          THEN deleting \cup {[id |-> i, path |-> entry[i].path,
                                               name |-> NameAt(i), over |-> FALSE]}
                          ELSE deleting
    /\ call' = [call EXCEPT ![c] = Idle]
    /\ UNCHANGED <<records, disk>>

\* deleteTorrentData, which may refuse or fail; the delete ends either way.
DeleteData(d) ==
    /\ ~d.over
    /\ deleting' = (deleting \ {d}) \cup {[d EXCEPT !.over = TRUE]}
    /\ disk' \in {disk, disk \ {Where(d.path, d.name)}}
    /\ UNCHANGED <<records, entry, call>>

\* The user deletes by hand what a refused entry left.
DeleteByHand(i) ==
    /\ entry[i].phase = "refused"
    /\ DataOf(i) \in disk
    /\ disk' = disk \ {DataOf(i)}
    /\ UNCHANGED <<records, entry, call, deleting>>

EndDelete(d) ==
    /\ d.over
    /\ deleting' = deleting \ {d}
    /\ UNCHANGED <<records, entry, call, disk>>

(***************************************************************************)
(* Specification.                                                          *)
(***************************************************************************)
AddNext(c) == \/ AddLook(c) \/ RestoreLook(c) \/ FindOrTrack(c) \/ Attach(c)
              \/ TrackErroredLook(c) \/ TrackErrored(c)
RemoveNext(c) == RemoveLook(c) \/ Remove(c)
EntryNext(i) == \/ Promote(i) \/ Refuse(i) \/ AttachPromoted(i) \/ InfoArrives(i)
                \/ MetadataTimeout(i) \/ CheckInfo(i) \/ AwaitDeletes(i) \/ Write(i)
                \/ RemoveEntry(i) \/ DeleteByHand(i)
DeleteNext == \E d \in deleting : DeleteData(d) \/ EndDelete(d)

Next == \/ \E c \in Adders : AddNext(c)
        \/ \E c \in Removers : RemoveNext(c)
        \/ \E i \in Ids : EntryNext(i)
        \/ DeleteNext

Spec == Init /\ [][Next]_vars

(***************************************************************************)
(* Properties.                                                             *)
(***************************************************************************)
TypeOK ==
    /\ records \in Sessions
    /\ entry \in [Ids -> Entries]
    /\ disk \subseteq Dirs \X Names
    /\ DOMAIN call = Callers
    /\ \A d \in deleting : d.id \in Ids /\ d.path \in Paths /\ d.name \in Names

\* No delete takes away what a torrent that is running may have written:
\* Remove decides before the lock is given up and deletes after, while
\* torrents of that name may start under any path of that directory
\* (awaitDeletes, T-9143).
WritesSurvive ==
    [][deleting' # deleting =>
        \A i \in Tracked :
            entry[i].phase = "running" /\ DataOf(i) \in disk => DataOf(i) \in disk']_vars

\* Data a refused entry left belongs to one entry: two whose data has one
\* name in one directory never both claim it (keepLeftLocked, T-9177).
OneOwner ==
    \A i, j \in Tracked :
        /\ entry[i].phase = "refused" /\ entry[i].left
        /\ entry[j].phase = "refused" /\ entry[j].left
        /\ DataOf(i) = DataOf(j)
        => i = j

\* What a refused entry left is not forgotten by adding its torrent again: an
\* add to another directory leaves the entry as it is, unless it saw before
\* that the data was gone (claimInfoHashLocked, ErrLeftData, T-9127, T-9129).
LeftIsNotForgotten ==
    [][\A c \in Callers : call[c].op = "add" /\ call'[c] # call[c] =>
        \A i \in LeftOf(call[c].torrent) :
            \/ DataOf(i) \in call[c].left.gone
            \/ DirOf[entry[i].path] = DirOf[call[c].path]
            \/ entry'[i] = entry[i]]_vars

\* A refused entry's remove deletes nothing that another refused entry
\* has deferred about in that directory, which may be its data (DEC-189).
DeferredIsKept ==
    [][\A d \in deleting' \ deleting :
        entry[d.id].phase = "refused" =>
            \A j \in Tracked \ {d.id} :
                ~(entry[j].shared /\ DataOf(j) = Where(d.path, d.name))]_vars

\* What refused entries left is taken from them by no add of the torrent
\* elsewhere and by no remove of another refused entry.
LeftDataKept == LeftIsNotForgotten /\ DeferredIsKept
=============================================================================

------------------------------ MODULE FileStore ------------------------------
(* The torrents' data files (internal/engine/anacrolix/filestore.go): every
   file a plain handle in its torrent's table, least recently used first, the
   table behind a reader/writer lock. A handle is opened with no lock held and
   put in the table under the lock, so opens race each other, evictions, the
   closing of the torrent and other torrents with the same files.

   Paths are sequences of names, the destination first. Content is the set of
   pieces written into a file; torrents that share a file share its data. *)
EXTENDS Integers, Sequences, FiniteSets

CONSTANTS
  Torrents, Callers,
  PathOf,          \* PathOf[t][i]: the path of file i of torrent t
  Extent,          \* Extent[t][p]: the files under piece p, in order
  Target(_),       \* the directory a destination's name leads to
  MaxOpen,         \* maxOpenFilesPerTorrent
  MaxFd, MaxInode, \* bounds: handles at once, files ever created
  MaxCalls,        \* bound: piece calls in all
  Dropped,         \* bound: the torrents that may be dropped
  MaxCloses,       \* bound: stores closed
  MaxDeletes,      \* bound: files the user deletes
  LateOpens,       \* whether a torrent may be opened while another one closes
  Early            \* the torrents that are open to begin with

ASSUME MaxOpenAssumption == MaxOpen \in Nat \ {0}
ASSUME BoundsAssumption == MaxFd \in Nat /\ MaxInode \in Nat /\ MaxCalls \in Nat
ASSUME TorrentsAssumption ==
  /\ "none" \notin Torrents
  /\ Early \subseteq Torrents /\ Dropped \subseteq Torrents

VARIABLES
  group,           \* the open torrents of every store of the engine
  closed,          \* per torrent: closed
  table,           \* per torrent: its handles, least recently used first
  fds,             \* what each OS handle is open on
  disk,            \* real path -> inode, for the files that exist
  dirs,            \* the directories that exist, the destinations apart
  content,         \* inode -> the pieces written to it
  call,            \* per caller: the piece call it is making
  calls,           \* piece calls made so far
  closer,          \* per torrent (a drop) and store (the client's close): its Close
  completion,      \* the piece-completion records
  acked,           \* history: chunks whose write returned without an error
  gone,            \* history: real paths the user deleted
  late             \* history: inodes created after Close had begun

vars == <<group, closed, table, fds, disk, dirs, content, call, calls,
          closer, completion, acked, gone, late>>

diskVars == <<disk, dirs, content, late>>
openVars == <<group, closed>>
history == <<acked, gone>>
recordVars == <<calls, closer, completion>>

----------------------------------------------------------------------------
(* Paths. *)

Real(p) == <<Target(Head(p))>> \o Tail(p)
Parent(p) == SubSeq(p, 1, Len(p) - 1)
InsideDir(dir, p) == Len(dir) <= Len(p) /\ dir = SubSeq(p, 1, Len(dir))
StoreOf(t) == Head(PathOf[t][1])
Stores == {StoreOf(t) : t \in Torrents}
PathsOf(t) == {PathOf[t][i] : i \in DOMAIN PathOf[t]}

\* the directories above a path, deepest first, up to the store's own
Above(p) == [k \in 1..(Len(p) - 2) |-> SubSeq(p, 1, Len(p) - k)]

Exists(p) == Real(p) \in DOMAIN disk \/ Real(p) \in dirs
InodeOf(p) == disk[Real(p)]
Pieces(t) == DOMAIN Extent[t]
Chunks(t) == {<<Real(PathOf[t][i]), p>> : i \in DOMAIN PathOf[t], p \in Pieces(t)}

(* A torrent's files are below its store's directory, and none is where another,
   whatever its torrent, has a directory: opening either would fail, and I/O
   errors are left out. Every piece lies in some file. *)
ASSUME PathsAssumption ==
  \A t \in Torrents : \A i \in DOMAIN PathOf[t] :
    /\ PathOf[t][i] \in Seq(STRING) /\ Len(PathOf[t][i]) >= 2
    /\ Head(PathOf[t][i]) = StoreOf(t)
    /\ \A u \in Torrents : \A j \in DOMAIN PathOf[u] : \A k \in DOMAIN Above(PathOf[u][j]) :
         Real(Above(PathOf[u][j])[k]) # Real(PathOf[t][i])
ASSUME ExtentAssumption ==
  \A t \in Torrents : \A p \in Pieces(t) : Extent[t][p] \in Seq(DOMAIN PathOf[t]) \ {<<>>}

Stored == UNION {{<<f, p>> : p \in content[disk[f]]} : f \in DOMAIN disk}

----------------------------------------------------------------------------
(* Calls, handles and the lock of a torrent. *)

Idle == [pc |-> "idle"]
Busy(c) == call[c].pc # "idle"
On(c, t) == Busy(c) /\ call[c].t = t
Inflight(t) == {c \in Callers : On(c, t) /\ call[c].entered}

\* mu: held shared while an operation runs, exclusively by the last resort
SharedFree(t) == ~\E c \in Callers : On(c, t) /\ call[c].excl
ExclusiveFree(t) == SharedFree(t) /\ ~\E c \in Callers : On(c, t) /\ call[c].pc = "op"

NoFd == [t |-> "none"]
FreeFds == {n \in 1..MaxFd : fds[n] = NoFd}
FreeFd == CHOOSE n \in FreeFds : TRUE
OpenOn(c, p, w) == [t |-> call[c].t, inode |-> InodeOf(p), writable |-> w]

File(c) == Head(call[c].todo)
Path(c) == PathOf[call[c].t][File(c)]
Write(c) == call[c].kind = "write"

Index(t, i) == {k \in DOMAIN table[t] : table[t][k].file = i}
Has(t, i) == Index(t, i) # {}
Place(t, i) == CHOOSE k \in Index(t, i) : TRUE
Handle(t, i) == table[t][Place(t, i)]
Fits(t, i, w) == Has(t, i) /\ (w => fds[Handle(t, i).fd].writable)
WithoutFile(t, i) ==
  IF ~Has(t, i) THEN table[t]
  ELSE [n \in 1..Len(table[t]) - 1 |-> table[t][IF n < Place(t, i) THEN n ELSE n + 1]]
Touched(t, i) == Append(WithoutFile(t, i), Handle(t, i))

Goto(c, pc) == call' = [call EXCEPT ![c].pc = pc]
Fail(c) == call' = [call EXCEPT ![c] = Idle]

\* a handle leaves the process; its inode stays while the file exists
Closing(fdset) == fds' = [n \in DOMAIN fds |-> IF n \in fdset THEN NoFd ELSE fds[n]]

Init ==
  /\ group = Early
  /\ closed = [t \in Torrents |-> FALSE]
  /\ table = [t \in Torrents |-> <<>>]
  /\ fds = [n \in 1..MaxFd |-> NoFd]
  /\ disk = <<>>
  /\ dirs = {}
  /\ content = [n \in 1..MaxInode |-> {}]
  /\ call = [c \in Callers |-> Idle]
  /\ calls = 0
  /\ closer = [k \in Torrents \union Stores |-> [pc |-> "none"]]
  /\ completion = [t \in Torrents |-> {}]
  /\ acked = {}
  /\ gone = {}
  /\ late = {}

----------------------------------------------------------------------------
(* Opening a torrent: its files are known, none is opened. *)

OpenTorrent(t) ==
  /\ t \notin group /\ ~closed[t]
  /\ closer[StoreOf(t)].pc = "none"
  /\ LateOpens \/ \A u \in group : ~closed[u]
  /\ group' = group \union {t}
  /\ UNCHANGED <<closed, table, fds, call, diskVars, history, recordVars>>

----------------------------------------------------------------------------
(* One piece call: a write of a piece, or the library's check of it, which
   reads the piece and records what it found. withFile runs once per file. *)

Begin(c, t, p, kind) ==
  /\ ~Busy(c)
  /\ t \in group \/ closed[t]
  /\ calls < MaxCalls
  /\ calls' = calls + 1
  /\ call' = [call EXCEPT ![c] =
       [pc |-> "fast", t |-> t, kind |-> kind, piece |-> p, todo |-> Extent[t][p],
        entered |-> FALSE, excl |-> FALSE, fd |-> 0, created |-> <<>>,
        keep |-> {}, others |-> {}, out |-> {}]]
  /\ UNCHANGED <<table, fds, closer, completion, diskVars, openVars, history>>

\* withOpenFile: use the handle in the table, or be counted and go to open one
WithOpenFile(c) ==
  LET t == call[c].t IN
  /\ call[c].pc \in {"fast", "retry"}
  /\ SharedFree(t)
  /\ \/ /\ closed[t]
        /\ Fail(c)
        /\ UNCHANGED table
     \/ /\ ~closed[t]
        /\ Fits(t, File(c), Write(c))
        /\ table' = [table EXCEPT ![t] = Touched(t, File(c))]
        /\ call' = [call EXCEPT ![c].pc = "op", ![c].fd = Handle(t, File(c)).fd]
     \/ /\ ~closed[t]
        /\ ~Fits(t, File(c), Write(c))
        /\ IF call[c].pc = "fast"
             THEN call' = [call EXCEPT ![c].pc = "open", ![c].entered = TRUE]
             ELSE Goto(c, "lock")
        /\ UNCHANGED table
  /\ UNCHANGED <<fds, diskVars, openVars, history, recordVars>>

\* The call goes on to its next file, or ends: a check by recording its piece.
Onward(c, found) ==
  IF found /\ Len(call[c].todo) > 1
    THEN call' = [call EXCEPT ![c] = [@ EXCEPT
           !.pc = "fast", !.todo = Tail(call[c].todo), !.entered = FALSE, !.excl = FALSE,
           !.fd = 0, !.created = <<>>]]
    ELSE IF Write(c)
      THEN Fail(c)
      ELSE call' = [call EXCEPT ![c] = [@ EXCEPT
             !.pc = IF found THEN "markComplete" ELSE "markNotComplete",
             !.entered = FALSE, !.excl = FALSE, !.fd = 0, !.created = <<>>]]

\* op: the read or write itself, the lock held until it is over
Op(c) ==
  LET n == fds[call[c].fd].inode
      chunk == <<Real(Path(c)), call[c].piece>> IN
  /\ call[c].pc = "op"
  /\ IF Write(c)
       THEN /\ content' = [content EXCEPT ![n] = @ \union {call[c].piece}]
            /\ acked' = IF chunk[1] \in gone THEN acked ELSE acked \union {chunk}
            /\ Onward(c, TRUE)
       ELSE /\ Onward(c, call[c].piece \in content[n])
            /\ UNCHANGED <<content, acked>>
  /\ UNCHANGED <<table, fds, disk, dirs, gone, late, openVars, recordVars>>

Mark(c) ==
  LET t == call[c].t IN
  /\ call[c].pc \in {"markComplete", "markNotComplete"}
  /\ completion' = [completion EXCEPT ![t] =
       IF closer[StoreOf(t)].pc = "done" THEN @
       ELSE IF call[c].pc = "markComplete" THEN @ \union {call[c].piece}
       ELSE @ \ {call[c].piece}]
  /\ Fail(c)
  /\ UNCHANGED <<table, fds, calls, closer, diskVars, openVars, history>>

\* Completion: a piece recorded complete whose files are gone is re-marked
LongEnough(t, p, i) ==
  LET f == Real(PathOf[t][i]) IN
  f \in DOMAIN disk /\ \E q \in content[disk[f]] : q >= p

Completion(t, p) ==
  /\ t \in group /\ closer[StoreOf(t)].pc # "done"
  /\ p \in completion[t]
  /\ \E i \in {Extent[t][p][k] : k \in DOMAIN Extent[t][p]} : ~LongEnough(t, p, i)
  /\ completion' = [completion EXCEPT ![t] = @ \ {p}]
  /\ UNCHANGED <<table, fds, call, calls, closer, diskVars, openVars, history>>

----------------------------------------------------------------------------
(* openData, with no lock held (or, as withFile's last resort, under mu). *)

Opened(c, p, created) ==
  LET n == FreeFd IN
  /\ FreeFds # {}
  /\ fds' = [fds EXCEPT ![n] = OpenOn(c, p, Write(c))]
  /\ call' = [call EXCEPT ![c].pc = "install", ![c].fd = n, ![c].created = created]

OpenExisting(c) ==
  /\ call[c].pc = "open"
  /\ \/ Exists(Path(c)) /\ Opened(c, Path(c), <<>>)
     \/ /\ ~Exists(Path(c))
        /\ IF ~Write(c) THEN Onward(c, FALSE)
           ELSE IF closed[call[c].t] THEN Fail(c)
           ELSE Goto(c, "create")
        /\ UNCHANGED fds
  /\ UNCHANGED <<table, diskVars, openVars, history, recordVars>>

\* missingDirs, then MkdirAll
MissingDirs(p) ==
  LET up == Above(p)
      missing == {k \in DOMAIN up : \A j \in 1..k : ~Exists(up[j])} IN
  SubSeq(up, 1, Cardinality(missing))

ListMissing(c) ==
  /\ call[c].pc = "create"
  /\ call' = [call EXCEPT ![c].pc = "mkdir", ![c].created = MissingDirs(Path(c))]
  /\ UNCHANGED <<table, fds, diskVars, openVars, history, recordVars>>

MkdirAll(c) ==
  /\ call[c].pc = "mkdir"
  /\ dirs' = dirs \union {Real(Above(Path(c))[k]) : k \in DOMAIN Above(Path(c))}
  /\ Goto(c, "createExcl")
  /\ UNCHANGED <<table, fds, disk, content, late, openVars, history, recordVars>>

ParentThere(p) == Len(p) = 2 \/ Real(Parent(p)) \in dirs
FreshInodes ==
  {m \in 1..MaxInode :
     /\ content[m] = {} /\ m \notin late
     /\ m \notin {disk[f] : f \in DOMAIN disk}
     /\ \A k \in 1..MaxFd : fds[k] # NoFd => fds[k].inode # m}

CreateExclusive(c) ==
  LET p == Path(c)
      n == CHOOSE m \in FreshInodes : TRUE IN
  /\ call[c].pc = "createExcl"
  /\ \/ /\ ~ParentThere(p)
        /\ Fail(c)
        /\ UNCHANGED <<disk, fds, late>>
     \/ /\ ParentThere(p) /\ Exists(p)
        /\ Goto(c, "reopen")
        /\ UNCHANGED <<disk, fds, late>>
     \/ /\ ParentThere(p) /\ ~Exists(p)
        /\ FreshInodes # {} /\ FreeFds # {}
        /\ disk' = [f \in DOMAIN disk \union {Real(p)} |-> IF f = Real(p) THEN n ELSE disk[f]]
        /\ fds' = [fds EXCEPT ![FreeFd] = [t |-> call[c].t, inode |-> n, writable |-> TRUE]]
        /\ call' = [call EXCEPT ![c].pc = "install", ![c].fd = FreeFd,
                                ![c].created = <<p>> \o @]
        /\ late' = IF closed[call[c].t] THEN late \union {n} ELSE late
  /\ UNCHANGED <<table, dirs, content, openVars, history, recordVars>>

\* another caller created the file in between
Reopen(c) ==
  /\ call[c].pc = "reopen"
  /\ \/ Exists(Path(c)) /\ Opened(c, Path(c), call[c].created)
     \/ ~Exists(Path(c)) /\ Fail(c) /\ UNCHANGED fds
  /\ UNCHANGED <<table, diskVars, openVars, history, recordVars>>

----------------------------------------------------------------------------
(* install: the handle goes into the table, under mu exclusively. *)

InTable(t) == {PathOf[t][table[t][k].file] : k \in DOMAIN table[t]}   \* pathsInUseLocked

\* what is left of t's table once file i may be added, and what leaves it
Room(t, i) ==
  LET rest == WithoutFile(t, i) IN IF Len(rest) >= MaxOpen THEN Tail(rest) ELSE rest
Leaving(t, i) ==
  {table[t][k].fd : k \in DOMAIN table[t]} \ {Room(t, i)[k].fd : k \in DOMAIN Room(t, i)}

Install(c) ==
  LET t == call[c].t
      i == File(c) IN
  /\ call[c].pc = "install" /\ ~call[c].excl
  /\ ExclusiveFree(t)
  /\ \/ /\ closed[t]
        /\ call' = [call EXCEPT ![c].pc = "discard", ![c].keep = InTable(t)]
        /\ UNCHANGED table
     \/ /\ ~closed[t] /\ Fits(t, i, Write(c))     \* another caller opened it first
        /\ call' = [call EXCEPT ![c].pc = "closeOut", ![c].out = {call[c].fd}]
        /\ UNCHANGED table
     \/ /\ ~closed[t] /\ ~Fits(t, i, Write(c))
        /\ table' = [table EXCEPT ![t] = Append(Room(t, i), [file |-> i, fd |-> call[c].fd])]
        /\ call' = [call EXCEPT ![c].pc = "closeOut", ![c].out = Leaving(t, i)]
  /\ UNCHANGED <<fds, diskVars, openVars, history, recordVars>>

\* closeHandles: what left the table is closed once mu is released
CloseOut(c) ==
  /\ call[c].pc = "closeOut"
  /\ Closing(call[c].out)
  /\ call' = [call EXCEPT ![c].pc = "retry", ![c].out = {}]
  /\ UNCHANGED <<table, diskVars, openVars, history, recordVars>>

(* openLocked: evicted again before it was used, the file is opened and used
   with mu held all along. *)
LastResort(c) ==
  LET t == call[c].t
      i == File(c) IN
  /\ call[c].pc = "lock"
  /\ ExclusiveFree(t)
  /\ \/ closed[t] /\ Fail(c) /\ UNCHANGED <<table, fds>>
     \/ /\ ~closed[t] /\ Fits(t, i, Write(c))
        /\ table' = [table EXCEPT ![t] = Touched(t, i)]
        /\ call' = [call EXCEPT ![c].pc = "op", ![c].excl = TRUE, ![c].fd = Handle(t, i).fd]
        /\ UNCHANGED fds
     \/ /\ ~closed[t] /\ ~Fits(t, i, Write(c))
        /\ table' = [table EXCEPT ![t] = Room(t, i)]
        /\ Closing(Leaving(t, i))
        /\ call' = [call EXCEPT ![c].pc = "open", ![c].excl = TRUE]
  /\ UNCHANGED <<diskVars, openVars, history, recordVars>>

InstallLocked(c) ==
  /\ call[c].pc = "install" /\ call[c].excl
  /\ table' = [table EXCEPT ![call[c].t] = Append(@, [file |-> File(c), fd |-> call[c].fd])]
  /\ Goto(c, "op")
  /\ UNCHANGED <<fds, diskVars, openVars, history, recordVars>>

----------------------------------------------------------------------------
(* discard: Close began while the file was being opened. *)

HoldsAny(p, paths) == \E q \in paths : InsideDir(p, q)
Written(p) == Real(p) \in DOMAIN disk /\ content[InodeOf(p)] # {}
AnySameData(p, paths) ==
  Real(p) \in DOMAIN disk /\ \E q \in paths : Real(q) = Real(p)

OtherFiles(t) == UNION {PathsOf(u) : u \in group \ {t}}

\* the handle is closed and the other torrents' files are listed, once
DiscardList(c) ==
  /\ call[c].pc = "discard"
  /\ Closing({call[c].fd})
  /\ IF call[c].created = <<>> THEN Fail(c)
     ELSE call' = [call EXCEPT ![c].pc = "check", ![c].others = OtherFiles(call[c].t)]
  /\ UNCHANGED <<table, diskVars, openVars, history, recordVars>>

\* mutants: only the handles in the table protect a file; everything is kept
KeepsInUse(c, p) == HoldsAny(p, call[c].keep) \/ HoldsAny(p, call[c].others)
KeepsAll(c, p) == TRUE

Keeps(c, p) ==
  \/ HoldsAny(p, call[c].keep)
  \/ HoldsAny(p, call[c].others)
  \/ p = Path(c) /\ (Written(p) \/ AnySameData(p, call[c].others))

\* one created path after the other, the file first
NextPath(c, kept) ==
  IF Len(call[c].created) = 1 THEN Fail(c)
  ELSE call' = [call EXCEPT ![c].pc = "check", ![c].created = Tail(@), ![c].keep = @ \union kept]

DiscardCheck(c) ==
  LET p == Head(call[c].created) IN
  /\ call[c].pc = "check"
  /\ IF Keeps(c, p) THEN NextPath(c, {p}) ELSE Goto(c, "remove")
  /\ UNCHANGED <<table, fds, diskVars, openVars, history, recordVars>>

Empty(p) ==
  \A f \in DOMAIN disk \union dirs : f # Real(p) => ~InsideDir(Real(p), f)

\* os.Remove: a file, or a directory with nothing in it
DiscardRemove(c) ==
  LET p == Head(call[c].created) IN
  /\ call[c].pc = "remove"
  /\ disk' = [f \in DOMAIN disk \ {Real(p)} |-> disk[f]]
  /\ dirs' = IF Empty(p) THEN dirs \ {Real(p)} ELSE dirs
  /\ NextPath(c, {})
  /\ UNCHANGED <<table, fds, content, late, openVars, history, recordVars>>

----------------------------------------------------------------------------
(* Close of one torrent, by the library's drop of it (k = t) or as part of
   the store's own Close (k = the store). *)

Begun(ks) == {k \in ks : closer[k].pc # "none"}

CloseBegin(k, t, rest) ==
  /\ ExclusiveFree(t)
  /\ closed' = [closed EXCEPT ![t] = TRUE]
  /\ closer' = [closer EXCEPT ![k] = [pc |-> "wait", t |-> t, rest |-> rest, out |-> {}]]
  /\ UNCHANGED <<group, table, fds, call, calls, completion, diskVars, history>>

Drop(t) ==
  /\ closer[t].pc = "none" /\ t \in group
  /\ CloseBegin(t, t, {})

StoreClose(s) ==
  /\ closer[s].pc = "none"
  /\ Cardinality(Begun(Stores)) < MaxCloses
  /\ \E t \in {u \in group : StoreOf(u) = s} :
       CloseBegin(s, t, {u \in group : StoreOf(u) = s} \ {t})

\* inflight.Wait, then the table is taken
CloseTake(k) ==
  LET t == closer[k].t IN
  /\ closer[k].pc = "wait"
  /\ Inflight(t) = {}
  /\ ExclusiveFree(t)
  /\ table' = [table EXCEPT ![t] = <<>>]
  /\ closer' = [closer EXCEPT ![k].pc = "close",
                              ![k].out = {table[t][n].fd : n \in DOMAIN table[t]}]
  /\ UNCHANGED <<fds, call, calls, completion, diskVars, openVars, history>>

\* every handle it took is closed, then the torrent leaves the store and group
CloseHandles(k) ==
  /\ closer[k].pc = "close"
  /\ Closing(closer[k].out)
  /\ group' = group \ {closer[k].t}
  /\ closer' = [closer EXCEPT ![k] =
       IF @.rest = {} THEN [pc |-> "done"] ELSE [@ EXCEPT !.pc = "next"]]
  /\ UNCHANGED <<closed, table, call, calls, completion, diskVars, history>>

CloseNext(s) ==
  /\ closer[s].pc = "next"
  /\ \E t \in closer[s].rest : CloseBegin(s, t, closer[s].rest \ {t})

\* external: the user removes a data file behind the engine's back
UserDeletes(f) ==
  /\ Cardinality(gone) < MaxDeletes
  /\ f \in DOMAIN disk
  /\ disk' = [g \in DOMAIN disk \ {f} |-> disk[g]]
  /\ gone' = gone \union {f}
  /\ acked' = {a \in acked : a[1] # f}
  /\ UNCHANGED <<table, fds, dirs, content, call, late, openVars, recordVars>>

----------------------------------------------------------------------------
CallStep(c) ==
  \/ WithOpenFile(c) \/ Op(c) \/ Mark(c)
  \/ OpenExisting(c) \/ ListMissing(c) \/ MkdirAll(c) \/ CreateExclusive(c) \/ Reopen(c)
  \/ Install(c) \/ CloseOut(c) \/ LastResort(c) \/ InstallLocked(c)
  \/ DiscardList(c) \/ DiscardCheck(c) \/ DiscardRemove(c)

CloserStep(k) == CloseTake(k) \/ CloseHandles(k)

\* every call and every Close is over and nothing more may begin
Over ==
  /\ calls = MaxCalls
  /\ \A c \in Callers : ~Busy(c)
  /\ \A s \in Stores : closer[s].pc \in {"none", "done"}
  /\ \A t \in Torrents : closer[t].pc \in {"none", "done"}
  /\ group \intersect Dropped = {}
  /\ Cardinality(Begun(Stores)) = MaxCloses \/ \A t \in group : StoreOf(t) \in Begun(Stores)
  /\ UNCHANGED vars

Next ==
  \/ \E t \in Torrents : OpenTorrent(t)
  \/ \E c \in Callers, t \in Torrents, kind \in {"write", "check"} :
       \E p \in Pieces(t) : Begin(c, t, p, kind)
  \/ \E c \in Callers : CallStep(c)
  \/ \E t \in Torrents : \E p \in Pieces(t) : Completion(t, p)
  \/ \E t \in Dropped : Drop(t)
  \/ \E s \in Stores : StoreClose(s) \/ CloseNext(s)
  \/ \E k \in Torrents \union Stores : CloserStep(k)
  \/ \E f \in DOMAIN disk : UserDeletes(f)
  \/ Over

Spec == Init /\ [][Next]_vars

----------------------------------------------------------------------------
Phase(t) ==
  IF t \in group THEN IF closed[t] THEN "closing" ELSE "open"
  ELSE IF closed[t] THEN "closed" ELSE "new"

Data == INSTANCE TorrentData WITH
  ChunksOf <- Chunks, phase <- [t \in Torrents |-> Phase(t)],
  acked <- acked, stored <- Stored, gone <- gone

(* The store implements its promise: what a write acknowledged stays readable
   whatever is opened, evicted, closed and discarded around it, and nothing is
   put into a torrent once its Close has begun (the comments of fileTorrent
   and discard, T-9127 and T-9131). *)
DataSpec == Data!Spec

CloseOver(t) ==
  /\ closed[t]
  /\ \A k \in DOMAIN closer : closer[k].pc \in {"wait", "close"} => closer[k].t # t

(* When every Close of a torrent has returned it holds no handle: not one a
   late open, a replacement or an eviction took out of the table. *)
NothingHeld ==
  \A t \in Torrents : CloseOver(t) => \A n \in DOMAIN fds : fds[n].t # t

(* A file created after Close had begun, and still empty, is gone when Close
   has returned, unless another torrent declares it (or the user deleted it while
   a handle for it was in the table). *)
NothingLeft ==
  \A t \in Torrents : CloseOver(t) =>
    \A f \in DOMAIN disk :
      /\ disk[f] \in late /\ content[disk[f]] = {}
      /\ f \in {Real(p) : p \in PathsOf(t)} \ gone
      => \E u \in Torrents \ {t} :
            (u \in group \/ closed[u]) /\ f \in {Real(p) : p \in PathsOf(u)}

(* A Close that has returned leaves nothing of its torrent behind it: no open
   file and no empty one, whatever opens and evictions ran beside it. *)
NothingStays == NothingHeld /\ NothingLeft
==============================================================================

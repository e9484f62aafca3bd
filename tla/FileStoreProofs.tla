--------------------------- MODULE FileStoreProofs ---------------------------
EXTENDS FileStore, FiniteSetTheorems, SequenceTheorems, TLAPS

----------------------------------------------------------------------------
(* The shape of the state. *)

Fds == 1..MaxFd
Inodes == 1..MaxInode
AllPieces == UNION {Pieces(t) : t \in Torrents}
DirsOf(p) == {Above(p)[k] : k \in DOMAIN Above(p)}
AllFiles == UNION {PathsOf(t) : t \in Torrents}
AllDirs == UNION {DirsOf(p) : p \in AllFiles}
AllIndices == UNION {DOMAIN PathOf[t] : t \in Torrents}
Handles(t) == [file : DOMAIN PathOf[t], fd : Fds]

\* The handles of a table, and that no two of them are one.
Entries(s) == {s[k] : k \in DOMAIN s}
Apart(s) == \A j, k \in DOMAIN s : s[j].fd = s[k].fd => j = k

\* Where a call is that has been counted in inflight, and where it may have mu.
EnteredPcs == {"open", "create", "mkdir", "createExcl", "reopen", "install", "closeOut", "retry", "lock",
               "discard", "check", "remove"}
LockedPcs == {"op", "open", "create", "mkdir", "createExcl", "reopen", "install"}
Discarding == {"discard", "check", "remove"}

BusyCalls ==
    [pc : EnteredPcs \cup {"fast", "op", "markComplete", "markNotComplete"},
     t : Torrents, kind : {"write", "check"}, piece : AllPieces, todo : Seq(AllIndices), entered : BOOLEAN,
     excl : BOOLEAN, fd : 0..MaxFd, created : Seq(AllFiles \cup AllDirs), keep : SUBSET (AllFiles \cup AllDirs),
     others : SUBSET AllFiles, out : SUBSET Fds]

OpenFds == [t : Torrents, inode : Inodes, writable : BOOLEAN]
Closers == [pc : {"none", "done"}]
           \cup [pc : {"wait", "close", "next"}, t : Torrents, rest : SUBSET Torrents, out : SUBSET Fds]

\* The file that call x is at, and what it is as long as it runs.
PathIn(x) == PathOf[x.t][Head(x.todo)]
GoodCall(x) ==
    /\ x \in BusyCalls
    /\ x.piece \in Pieces(x.t)
    /\ x.todo \in Seq(DOMAIN PathOf[x.t]) \ {<<>>}
    /\ x.pc \in EnteredPcs => x.entered
    /\ x.excl => x.pc \in LockedPcs
    /\ x.pc = "install" => x.fd \in Fds
    /\ \A k \in DOMAIN x.created : x.created[k] \in DirsOf(PathIn(x)) \/ (k = 1 /\ x.created[k] = PathIn(x))
    /\ x.pc \in {"mkdir", "createExcl", "reopen"} => \A k \in DOMAIN x.created : x.created[k] \in DirsOf(PathIn(x))
    /\ x.pc \in {"check", "remove"} => x.created # <<>>

Types ==
    /\ group \subseteq Torrents /\ closed \in [Torrents -> BOOLEAN]
    /\ DOMAIN table = Torrents /\ \A t \in Torrents : table[t] \in Seq(Handles(t))
    /\ fds \in [Fds -> OpenFds \cup {NoFd}]
    /\ DOMAIN call = Callers /\ \A c \in Callers : Busy(c) => GoodCall(call[c])
    /\ closer \in [Torrents \cup Stores -> Closers]
    /\ dirs \subseteq {Real(d) : d \in AllDirs}

\* What is on disk: the files of torrents that have pieces, each an inode of its own.
DiskInv ==
    /\ content \in [Inodes -> SUBSET AllPieces]
    /\ disk \in [DOMAIN disk -> Inodes]
    /\ \A f \in DOMAIN disk : \E t \in Torrents : Pieces(t) # {} /\ \E p \in PathsOf(t) : f = Real(p)
    /\ \A f, g \in DOMAIN disk : disk[f] = disk[g] => f = g
    /\ \A a \in acked : a[1] \notin gone

\* When a torrent is open, and what of a call that decides.
LiveCall(x) ==
    /\ x.t \in group \/ closed[x.t]
    /\ x.entered => x.t \in group
    /\ (x.pc = "op" \/ x.excl) => ~closed[x.t]
    /\ x.pc \in Discarding => closed[x.t]
    /\ x.pc = "op" => [file |-> Head(x.todo), fd |-> x.fd] \in Entries(table[x.t])

LiveInv ==
    /\ \A c \in Callers : Busy(c) => LiveCall(call[c])
    /\ \A t \in Torrents : Entries(table[t]) # {} => t \in group
    /\ \A k \in DOMAIN closer :
         /\ closer[k].pc \in {"wait", "close"} => closed[closer[k].t]
         /\ closer[k].pc = "close" => Entries(table[closer[k].t]) = {} /\ Inflight(closer[k].t) = {}
         /\ closer[k].pc \in {"wait", "close", "next"} => \A t \in closer[k].rest : t \in group \/ closed[t]

\* Each handle of the process has one holder: a table, a call or a Close.
InTab(t) == {e.fd : e \in Entries(table[t])}
HeldBy(x) == IF x.pc \in {"install", "discard"} THEN {x.fd} ELSE IF x.pc = "closeOut" THEN x.out ELSE {}
TakenBy(x) == IF x.pc = "close" THEN x.out ELSE {}
OpenFor(t) == {n \in Fds : fds[n] # NoFd /\ fds[n].t = t}

FdInv ==
    /\ \A t \in Torrents : InTab(t) \subseteq OpenFor(t)
    /\ \A t \in Torrents : Apart(table[t])
    /\ \A c \in Callers : HeldBy(call[c]) # {} => HeldBy(call[c]) \subseteq OpenFor(call[c].t)
    /\ \A k \in DOMAIN closer : TakenBy(closer[k]) # {} => TakenBy(closer[k]) \subseteq OpenFor(closer[k].t)
    /\ \A c \in Callers, t \in Torrents : HeldBy(call[c]) \cap InTab(t) = {}
    /\ \A k \in DOMAIN closer, t \in Torrents : TakenBy(closer[k]) \cap InTab(t) = {}
    /\ \A c \in Callers, k \in DOMAIN closer : HeldBy(call[c]) \cap TakenBy(closer[k]) = {}
    /\ \A c, d \in Callers : c # d => HeldBy(call[c]) \cap HeldBy(call[d]) = {}
    /\ \A k, l \in DOMAIN closer : k # l => TakenBy(closer[k]) \cap TakenBy(closer[l]) = {}

\* The handle n is on the file at path p, which the user may have deleted.
OnFile(p, n) ==
    /\ \A g \in DOMAIN disk : disk[g] = fds[n].inode => g = Real(p)
    /\ Real(p) \notin gone => Real(p) \in DOMAIN disk /\ disk[Real(p)] = fds[n].inode

TableOn(t) == \A e \in Entries(table[t]) : OnFile(PathOf[t][e.file], e.fd)
CallOn(c) == call[c].pc = "install" /\ ~closed[call[c].t] => OnFile(PathIn(call[c]), call[c].fd)

FileInv ==
    /\ \A t \in Torrents : ~closed[t] => TableOn(t)
    /\ \A c \in Callers : CallOn(c)

\* The call that created the file it has not put in the table yet.
Creator(x) == x.pc \in {"install"} \cup Discarding /\ x.created # <<>> /\ Head(x.created) = PathIn(x)

\* What a discard removes is its own, and nobody else's, nor written.
Sole(x, f) ==
    /\ f \in DOMAIN disk => content[disk[f]] = {}
    /\ \A u \in group \ {x.t} : \A p \in PathsOf(u) : Real(p) # f

DiscardInv ==
    /\ \A c \in Callers : Creator(call[c]) => Real(PathIn(call[c])) \in gone \cup DOMAIN disk
    /\ \A c, d \in Callers :
         /\ c # d /\ Creator(call[c]) /\ Creator(call[d])
         /\ Real(PathIn(call[c])) = Real(PathIn(call[d]))
         => Real(PathIn(call[c])) \in gone
    /\ \A c \in Callers : call[c].pc \in {"check", "remove"} =>
         \A u \in group \ {call[c].t} : PathsOf(u) \subseteq call[c].others
    /\ \A c \in Callers : call[c].pc = "remove" /\ Creator(call[c]) /\ Real(PathIn(call[c])) \notin gone =>
         Sole(call[c], Real(PathIn(call[c])))

IInv == Types /\ DiskInv /\ LiveInv /\ FdInv /\ FileInv /\ DiscardInv

----------------------------------------------------------------------------
(* Tables. *)

LEMMA AppendEntries ==
    ASSUME NEW A, NEW s \in Seq(A), NEW e \in A, Apart(s), e.fd \notin {x.fd : x \in Entries(s)}
    PROVE  /\ Append(s, e) \in Seq(A) /\ Apart(Append(s, e))
           /\ Entries(Append(s, e)) = Entries(s) \cup {e}
<1>. DEFINE w == Append(s, e)
<1>1. /\ Len(s) \in Nat /\ w \in Seq(A) /\ DOMAIN s = 1..Len(s) /\ DOMAIN w = 1..Len(s) + 1
      /\ w[Len(s) + 1] = e /\ \A k \in 1..Len(s) : w[k] = s[k]
  OBVIOUS
<1>. HIDE DEF w
<1>2. \A k \in DOMAIN s : s[k].fd # e.fd
  BY DEF Entries
<1>3. Apart(w)
  BY <1>1, <1>2 DEF Apart
<1>4. Entries(w) = Entries(s) \cup {e}
  BY <1>1 DEF Entries
<1>. QED  BY <1>1, <1>3, <1>4 DEF w

LEMMA TailEntries ==
    ASSUME NEW A, NEW s \in Seq(A), s # <<>>, Apart(s)
    PROVE  Tail(s) \in Seq(A) /\ Apart(Tail(s)) /\ Entries(Tail(s)) \subseteq Entries(s)
<1>. DEFINE w == Tail(s)
<1>1. /\ Len(s) \in Nat \ {0} /\ w \in Seq(A) /\ DOMAIN s = 1..Len(s) /\ DOMAIN w = 1..Len(s) - 1
      /\ \A k \in 1..Len(s) - 1 : w[k] = s[k + 1]
  OBVIOUS
<1>. HIDE DEF w
<1>2. \A k \in DOMAIN w : k + 1 \in DOMAIN s /\ w[k] = s[k + 1]
  BY <1>1
<1>3. Apart(w)
  <2>. SUFFICES ASSUME NEW j \in DOMAIN w, NEW k \in DOMAIN w, w[j].fd = w[k].fd PROVE j = k
    BY DEF Apart
  <2>1. j + 1 = k + 1
    BY <1>2 DEF Apart
  <2>. QED  BY <1>1, <2>1
<1>. QED  BY <1>1, <1>2, <1>3 DEF Entries, w

\* The handle of a file leaves its table alone.
LEMMA WithoutEntries ==
    ASSUME NEW t \in Torrents, NEW A, table[t] \in Seq(A), Apart(table[t]), NEW i
    PROVE  /\ WithoutFile(t, i) \in Seq(A) /\ Apart(WithoutFile(t, i))
           /\ ~Has(t, i) => WithoutFile(t, i) = table[t]
           /\ Has(t, i) => /\ Handle(t, i) \in Entries(table[t]) /\ Handle(t, i).file = i
                           /\ Entries(WithoutFile(t, i)) = Entries(table[t]) \ {Handle(t, i)}
                           /\ Handle(t, i).fd \notin {e.fd : e \in Entries(WithoutFile(t, i))}
<1>. DEFINE s == table[t]
            w == WithoutFile(t, i)
            p == Place(t, i)
<1>1. CASE ~Has(t, i)
  BY <1>1 DEF WithoutFile
<1>2. CASE Has(t, i)
  <2>1. p \in DOMAIN s /\ s[p].file = i
    BY <1>2 DEF Has, Index, Place
  <2>2. w = [n \in 1..Len(s) - 1 |-> s[IF n < p THEN n ELSE n + 1]]
    BY <1>2 DEF WithoutFile
  <2>3. Len(s) \in Nat /\ DOMAIN s = 1..Len(s) /\ s \in Seq(A) /\ Apart(s) /\ Handle(t, i) = s[p]
    BY DEF Handle
  <2>. HIDE DEF s, w, p
  <2>4. /\ DOMAIN w = 1..Len(s) - 1
        /\ \A n \in 1..Len(s) - 1 : (n < p => w[n] = s[n]) /\ (~(n < p) => w[n] = s[n + 1])
    BY <2>1, <2>2, <2>3
  <2>5. w \in Seq(A)
    <3>1. \A n \in 1..Len(s) - 1 : w[n] \in A
      BY <2>1, <2>3, <2>4
    <3>. QED  BY <2>1, <2>2, <2>3, <3>1
  <2>6. Apart(w)
    <3>. SUFFICES ASSUME NEW j \in DOMAIN w, NEW k \in DOMAIN w, w[j].fd = w[k].fd PROVE j = k
      BY DEF Apart
    <3>. DEFINE a == IF j < p THEN j ELSE j + 1
                b == IF k < p THEN k ELSE k + 1
    <3>1. a \in DOMAIN s /\ b \in DOMAIN s /\ w[j] = s[a] /\ w[k] = s[b]
      BY <2>1, <2>3, <2>4
    <3>2. a = b
      BY <2>3, <3>1 DEF Apart
    <3>. QED  BY <2>1, <2>3, <2>4, <3>2
  <2>7. \A n \in DOMAIN w : w[n] \in Entries(s) /\ w[n] # s[p] /\ w[n].fd # s[p].fd
    <3>. SUFFICES ASSUME NEW n \in DOMAIN w
                  PROVE  w[n] \in Entries(s) /\ w[n].fd # s[p].fd
      OBVIOUS
    <3>. DEFINE a == IF n < p THEN n ELSE n + 1
    <3>1. a \in DOMAIN s /\ w[n] = s[a] /\ a # p
      BY <2>1, <2>3, <2>4
    <3>. QED  BY <2>1, <2>3, <3>1 DEF Apart, Entries
  <2>8. \A k \in DOMAIN s : k # p => s[k] \in Entries(w)
    <3>. SUFFICES ASSUME NEW k \in DOMAIN s, k # p PROVE s[k] \in Entries(w)
      OBVIOUS
    <3>. DEFINE n == IF k < p THEN k ELSE k - 1
    <3>1. n \in DOMAIN w /\ w[n] = s[k]
      BY <2>1, <2>3, <2>4
    <3>. QED  BY <3>1 DEF Entries
  <2>9. Entries(w) = Entries(s) \ {s[p]}
    BY <2>1, <2>7, <2>8 DEF Entries
  <2>10. s[p] \in Entries(s) /\ s[p].fd \notin {e.fd : e \in Entries(w)}
    BY <2>1, <2>7 DEF Entries
  <2>. QED  BY <1>2, <2>1, <2>3, <2>5, <2>6, <2>9, <2>10 DEF s, w
<1>. QED  BY <1>1, <1>2

LEMMA TouchedEntries ==
    ASSUME NEW t \in Torrents, NEW A, table[t] \in Seq(A), Apart(table[t]), NEW i, Has(t, i)
    PROVE  /\ Touched(t, i) \in Seq(A) /\ Apart(Touched(t, i))
           /\ Entries(Touched(t, i)) = Entries(table[t])
           /\ Handle(t, i) \in Entries(table[t]) /\ Handle(t, i).file = i
<1>1. Handle(t, i) \in A
  <2>1. Handle(t, i) \in Entries(table[t])
    BY WithoutEntries
  <2>. QED  BY <2>1 DEF Entries
<1>2. /\ WithoutFile(t, i) \in Seq(A) /\ Apart(WithoutFile(t, i))
      /\ Handle(t, i) \in Entries(table[t]) /\ Handle(t, i).file = i
      /\ Entries(WithoutFile(t, i)) = Entries(table[t]) \ {Handle(t, i)}
      /\ Handle(t, i).fd \notin {e.fd : e \in Entries(WithoutFile(t, i))}
  BY WithoutEntries
<1>3. /\ Touched(t, i) \in Seq(A) /\ Apart(Touched(t, i))
      /\ Entries(Touched(t, i)) = Entries(WithoutFile(t, i)) \cup {Handle(t, i)}
  BY <1>1, <1>2, AppendEntries DEF Touched
<1>. QED  BY <1>2, <1>3

\* What leaves a table to make room is what the table has not any more.
LEMMA RoomEntries ==
    ASSUME NEW t \in Torrents, NEW A, table[t] \in Seq(A), Apart(table[t]), NEW i
    PROVE  /\ Room(t, i) \in Seq(A) /\ Apart(Room(t, i))
           /\ Entries(Room(t, i)) \subseteq Entries(table[t])
           /\ Leaving(t, i) = {e.fd : e \in Entries(table[t])} \ {e.fd : e \in Entries(Room(t, i))}
<1>. DEFINE rest == WithoutFile(t, i)
<1>1. rest \in Seq(A) /\ Apart(rest) /\ Entries(rest) \subseteq Entries(table[t])
  BY WithoutEntries
<1>2. Room(t, i) = IF Len(rest) >= MaxOpen THEN Tail(rest) ELSE rest
  BY DEF Room
<1>. HIDE DEF rest
<1>3. Len(rest) >= MaxOpen => rest # <<>>
  BY <1>1, MaxOpenAssumption
<1>4. /\ Room(t, i) \in Seq(A) /\ Apart(Room(t, i))
      /\ Entries(Room(t, i)) \subseteq Entries(table[t])
  BY <1>1, <1>2, <1>3, TailEntries
<1>5. Leaving(t, i) = {e.fd : e \in Entries(table[t])} \ {e.fd : e \in Entries(Room(t, i))}
  BY DEF Leaving, Entries
<1>. QED  BY <1>4, <1>5

----------------------------------------------------------------------------
(* Paths. *)

LEMMA FilesAreNotDirs ==
    ASSUME NEW p \in AllFiles, NEW d \in AllDirs
    PROVE  Real(p) # Real(d) /\ p # d
<1>1. PICK t \in Torrents : \E i \in DOMAIN PathOf[t] : p = PathOf[t][i]
  BY DEF AllFiles, PathsOf
<1>2. PICK q \in AllFiles : d \in DirsOf(q)
  BY DEF AllDirs
<1>3. PICK u \in Torrents : \E j \in DOMAIN PathOf[u] : q = PathOf[u][j]
  BY <1>2 DEF AllFiles, PathsOf
<1>4. PICK k \in DOMAIN Above(q) : d = Above(q)[k]
  BY <1>2 DEF DirsOf
<1>. QED  BY <1>1, <1>3, <1>4, PathsAssumption

LEMMA MissingAreDirs ==
    ASSUME NEW p \in AllFiles
    PROVE  /\ MissingDirs(p) \in Seq(AllFiles \cup AllDirs)
           /\ \A k \in DOMAIN MissingDirs(p) : MissingDirs(p)[k] \in DirsOf(p)
           /\ DirsOf(p) \subseteq AllDirs
<1>. DEFINE up == Above(p)
            missing == {k \in DOMAIN up : \A j \in 1..k : ~Exists(up[j])}
            m == Cardinality(missing)
<1>1. Len(p) \in Nat /\ Len(p) >= 2
  <2>1. PICK t \in Torrents : \E i \in DOMAIN PathOf[t] : p = PathOf[t][i]
    BY DEF AllFiles, PathsOf
  <2>2. p \in Seq(STRING) /\ Len(p) >= 2
    BY <2>1, PathsAssumption
  <2>. QED  BY <2>2
<1>2. up \in [1..Len(p) - 2 -> DirsOf(p)] /\ Len(p) - 2 \in Nat
  BY <1>1 DEF Above, DirsOf
<1>3. up \in Seq(DirsOf(p)) /\ Len(up) = Len(p) - 2
  BY <1>2
<1>4. m \in Nat /\ m <= Len(p) - 2
  <2>1. IsFiniteSet(1..Len(p) - 2) /\ Cardinality(1..Len(p) - 2) = Len(p) - 2
    BY <1>2, FS_Interval
  <2>2. missing \subseteq 1..Len(p) - 2
    BY <1>2
  <2>3. IsFiniteSet(missing) /\ m <= Len(p) - 2
    BY <2>1, <2>2, FS_Subset
  <2>. QED  BY <2>3, FS_CardinalityType
<1>5. MissingDirs(p) = SubSeq(up, 1, m)
  BY DEF MissingDirs
<1>. HIDE DEF up, m
<1>6. SubSeq(up, 1, m) \in Seq(DirsOf(p))
  BY <1>3, <1>4
<1>7. DirsOf(p) \subseteq AllDirs
  BY DEF AllDirs
<1>. HIDE DEF up
<1>8. MissingDirs(p) \in Seq(DirsOf(p))
  BY <1>5, <1>6
<1>9. \A k \in DOMAIN MissingDirs(p) : MissingDirs(p)[k] \in DirsOf(p)
  BY <1>8
<1>10. MissingDirs(p) \in Seq(AllFiles \cup AllDirs)
  BY <1>7, <1>8
<1>. QED  BY <1>7, <1>9, <1>10

LEMMA HeadAndTail ==
    ASSUME NEW A, NEW s \in Seq(A), s # <<>>
    PROVE  /\ Head(s) \in A /\ Tail(s) \in Seq(A)
           /\ Len(s) > 1 => Tail(s) # <<>>
           /\ Len(s) \in Nat \ {0}
<1>1. Len(s) \in Nat /\ Len(s) # 0
  BY EmptySeq
<1>2. Head(s) \in A /\ Tail(s) \in Seq(A) /\ Len(Tail(s)) = Len(s) - 1
  BY HeadTailProperties
<1>3. Len(s) > 1 => Len(Tail(s)) # 0
  BY <1>1, <1>2
<1>4. Len(<<>>) = 0
  OBVIOUS
<1>. QED  BY <1>1, <1>2, <1>3, <1>4

\* The file a call is at is one of its torrent's, and its piece one of that's.
LEMMA PathOfCall ==
    ASSUME NEW x, GoodCall(x)
    PROVE  /\ x.t \in Torrents /\ Head(x.todo) \in DOMAIN PathOf[x.t]
           /\ PathIn(x) \in PathsOf(x.t) /\ PathIn(x) \in AllFiles
           /\ x.piece \in Pieces(x.t) /\ x.piece \in AllPieces
           /\ Tail(x.todo) \in Seq(DOMAIN PathOf[x.t]) /\ DOMAIN PathOf[x.t] \subseteq AllIndices
<1>1. x.t \in Torrents /\ x.todo \in Seq(DOMAIN PathOf[x.t]) \ {<<>>} /\ x.piece \in Pieces(x.t)
  BY DEF GoodCall, BusyCalls
<1>2. Head(x.todo) \in DOMAIN PathOf[x.t] /\ Tail(x.todo) \in Seq(DOMAIN PathOf[x.t])
  BY <1>1, HeadAndTail
<1>. QED  BY <1>1, <1>2 DEF PathIn, PathsOf, AllFiles, AllPieces, AllIndices

----------------------------------------------------------------------------
(* A step of one call. *)

\* Call c takes a step about torrent t.
CallOnly(c, t) ==
    /\ DOMAIN call' = Callers /\ \A d \in Callers \ {c} : call'[d] = call[d]
    /\ DOMAIN table' = Torrents /\ \A u \in Torrents \ {t} : table'[u] = table[u]
    /\ UNCHANGED <<group, closed, closer>>
    /\ Busy(c) => call[c].t = t
    /\ Busy(c)' => call'[c].t = t

\* It holds no handle but those it held, or its torrent's table, or that were
\* free, and changes no other.
FdRule(c, t) ==
    /\ \A n \in Fds : fds'[n] = fds[n] \/ fds[n] = NoFd \/ n \in InTab(t) \cup HeldBy(call[c])
    /\ Apart(table'[t])
    /\ InTab(t)' \subseteq OpenFor(t)' /\ HeldBy(call'[c]) \subseteq OpenFor(t)'
    /\ \A n \in InTab(t)' \cup HeldBy(call'[c]) : n \in InTab(t) \cup HeldBy(call[c]) \/ fds[n] = NoFd
    /\ InTab(t)' \cap HeldBy(call'[c]) = {}

\* What others hold is not free, nor this torrent's: it stays as it is.
LEMMA OthersKeep ==
    ASSUME Types, FdInv, NEW c \in Callers, NEW t \in Torrents, CallOnly(c, t), FdRule(c, t), NEW n,
           \/ \E u \in Torrents \ {t} : n \in InTab(u)
           \/ \E d \in Callers \ {c} : n \in HeldBy(call[d])
           \/ \E k \in DOMAIN closer : n \in TakenBy(closer[k])
    PROVE  /\ n \in Fds /\ fds[n] # NoFd /\ fds'[n] = fds[n]
           /\ n \notin InTab(t) \cup HeldBy(call[c]) /\ n \notin InTab(t)' \cup HeldBy(call'[c])
<1>1. n \in Fds /\ fds[n] # NoFd /\ n \notin InTab(t) \cup HeldBy(call[c])
  <2>1. CASE \E u \in Torrents \ {t} : n \in InTab(u)
    <3>1. PICK u \in Torrents \ {t} : n \in InTab(u)
      BY <2>1
    <3>2. n \in OpenFor(u) /\ n \notin HeldBy(call[c])
      BY <3>1 DEF FdInv
    <3>3. n \notin InTab(t)
      BY <3>2 DEF FdInv, OpenFor
    <3>. QED  BY <3>2, <3>3 DEF OpenFor
  <2>2. CASE \E d \in Callers \ {c} : n \in HeldBy(call[d])
    <3>1. PICK d \in Callers \ {c} : n \in HeldBy(call[d])
      BY <2>2
    <3>2. n \in OpenFor(call[d].t) /\ n \notin HeldBy(call[c]) /\ n \notin InTab(t)
      BY <3>1 DEF FdInv
    <3>. QED  BY <3>2 DEF OpenFor
  <2>3. CASE \E k \in DOMAIN closer : n \in TakenBy(closer[k])
    <3>1. PICK k \in DOMAIN closer : n \in TakenBy(closer[k])
      BY <2>3
    <3>2. n \in OpenFor(closer[k].t) /\ n \notin HeldBy(call[c]) /\ n \notin InTab(t)
      BY <3>1 DEF FdInv
    <3>. QED  BY <3>2 DEF OpenFor
  <2>. QED  BY <2>1, <2>2, <2>3
<1>. QED  BY <1>1 DEF FdRule

LEMMA FdKept ==
    ASSUME Types, FdInv, NEW c \in Callers, NEW t \in Torrents, CallOnly(c, t), FdRule(c, t)
    PROVE  FdInv'
<1>1. /\ \A d \in Callers \ {c} : call'[d] = call[d]
      /\ \A u \in Torrents \ {t} : InTab(u)' = InTab(u) /\ table'[u] = table[u]
      /\ closer' = closer
  BY DEF CallOnly, InTab
<1>3. HeldBy(call'[c]) # {} => call'[c].t = t
  BY DEF CallOnly, HeldBy, Busy
<1>. DEFINE Others(n) == \/ \E u \in Torrents \ {t} : n \in InTab(u)
                         \/ \E d \in Callers \ {c} : n \in HeldBy(call[d])
                         \/ \E k \in DOMAIN closer : n \in TakenBy(closer[k])
<1>4. ASSUME NEW n, Others(n)
      PROVE  n \in Fds /\ fds[n] # NoFd /\ fds'[n] = fds[n] /\ n \notin InTab(t)' \cup HeldBy(call'[c])
  BY <1>4, OthersKeep
<1>5. \A n \in InTab(t)' \cup HeldBy(call'[c]) : ~Others(n)
  BY <1>4
<1>6. \A u \in Torrents : InTab(u)' \subseteq OpenFor(u)'
  <2>. SUFFICES ASSUME NEW u \in Torrents \ {t}, NEW n \in InTab(u) PROVE n \in OpenFor(u)'
    BY <1>1 DEF FdRule
  <2>1. n \in OpenFor(u) /\ fds'[n] = fds[n]
    BY <1>4 DEF FdInv
  <2>. QED  BY <2>1 DEF OpenFor
<1>7. \A u \in Torrents : Apart(table'[u])
  BY <1>1 DEF FdRule, FdInv
<1>8. \A d \in Callers : (HeldBy(call[d]) # {} => HeldBy(call[d]) \subseteq OpenFor(call[d].t))'
  <2>. SUFFICES ASSUME NEW d \in Callers \ {c}, NEW n \in HeldBy(call[d]) PROVE n \in OpenFor(call[d].t)'
    BY <1>1, <1>3 DEF FdRule
  <2>1. n \in OpenFor(call[d].t) /\ fds'[n] = fds[n]
    BY <1>4 DEF FdInv
  <2>. QED  BY <1>1, <2>1 DEF OpenFor
<1>9. \A k \in DOMAIN closer : TakenBy(closer[k]) # {} => TakenBy(closer[k]) \subseteq OpenFor(closer[k].t)'
  <2>. SUFFICES ASSUME NEW k \in DOMAIN closer, NEW n \in TakenBy(closer[k]) PROVE n \in OpenFor(closer[k].t)'
    OBVIOUS
  <2>1. n \in OpenFor(closer[k].t) /\ fds'[n] = fds[n]
    BY <1>4 DEF FdInv
  <2>. QED  BY <1>1, <2>1 DEF OpenFor
<1>10. \A d \in Callers, u \in Torrents : HeldBy(call'[d]) \cap InTab(u)' = {}
  <2>. SUFFICES ASSUME NEW d \in Callers, NEW u \in Torrents, NEW n \in HeldBy(call'[d]), n \in InTab(u)' PROVE FALSE
    BY Zenon
  <2>1. CASE d = c /\ u = t
    BY <2>1 DEF FdRule
  <2>2. CASE d = c /\ u # t
    BY <2>2, <1>1, <1>5
  <2>3. CASE d # c /\ u = t
    BY <2>3, <1>1, <1>5
  <2>4. CASE d # c /\ u # t
    BY <2>4, <1>1 DEF FdInv
  <2>. QED  BY <2>1, <2>2, <2>3, <2>4
<1>11. \A k \in DOMAIN closer, u \in Torrents : TakenBy(closer[k]) \cap InTab(u)' = {}
  <2>. SUFFICES ASSUME NEW k \in DOMAIN closer, NEW u \in Torrents, NEW n \in TakenBy(closer[k]), n \in InTab(u)' PROVE FALSE
    BY Zenon
  <2>1. CASE u = t
    BY <2>1, <1>5
  <2>2. CASE u # t
    BY <2>2, <1>1 DEF FdInv
  <2>. QED  BY <2>1, <2>2
<1>12. \A d \in Callers, k \in DOMAIN closer : HeldBy(call'[d]) \cap TakenBy(closer[k]) = {}
  <2>. SUFFICES ASSUME NEW d \in Callers, NEW k \in DOMAIN closer, NEW n \in HeldBy(call'[d]), n \in TakenBy(closer[k]) PROVE FALSE
    BY Zenon
  <2>1. CASE d = c
    BY <2>1, <1>5
  <2>2. CASE d # c
    BY <2>2, <1>1 DEF FdInv
  <2>. QED  BY <2>1, <2>2
<1>13. \A d, e \in Callers : d # e => HeldBy(call'[d]) \cap HeldBy(call'[e]) = {}
  <2>. SUFFICES ASSUME NEW d \in Callers, NEW e \in Callers, d # e, NEW n \in HeldBy(call'[d]), n \in HeldBy(call'[e]) PROVE FALSE
    BY Zenon
  <2>1. CASE d = c
    BY <2>1, <1>1, <1>5
  <2>2. CASE e = c
    BY <2>2, <1>1, <1>5
  <2>3. CASE d # c /\ e # c
    BY <2>3, <1>1 DEF FdInv
  <2>. QED  BY <2>1, <2>2, <2>3
<1>14. \A k, l \in DOMAIN closer : k # l => TakenBy(closer[k]) \cap TakenBy(closer[l]) = {}
  BY DEF FdInv
<1>. QED
  BY <1>1, <1>6, <1>7, <1>8, <1>9, <1>10, <1>11, <1>12, <1>13, <1>14 DEF FdInv

\* What a step may make of the table, and of the call itself.
TableRule(c, t) ==
    /\ table'[t] \in Seq(Handles(t))
    /\ Entries(table'[t]) # {} => t \in group
    /\ closed[t] => Entries(table'[t]) \subseteq Entries(table[t])
    /\ \/ Entries(table[t]) \subseteq Entries(table'[t])
       \/ \A d \in Callers \ {c} : On(d, t) => call[d].pc # "op"
CallRule(c, t) ==
    Busy(c)' => /\ GoodCall(call'[c]) /\ LiveCall(call[c])'
                /\ call'[c].entered /\ closed[t] => Busy(c) /\ call[c].entered

LEMMA TypesKept ==
    ASSUME Types, NEW c \in Callers, NEW t \in Torrents, CallOnly(c, t), TableRule(c, t), CallRule(c, t),
           fds' \in [Fds -> OpenFds \cup {NoFd}], dirs' \subseteq {Real(d) : d \in AllDirs}
    PROVE  Types'
BY DEF Types, CallOnly, TableRule, CallRule, Busy

LEMMA LiveKept ==
    ASSUME Types, LiveInv, NEW c \in Callers, NEW t \in Torrents, CallOnly(c, t), TableRule(c, t), CallRule(c, t)
    PROVE  LiveInv'
<1>1. \A d \in Callers : Busy(d)' => LiveCall(call[d])'
  <2>. SUFFICES ASSUME NEW d \in Callers \ {c}, Busy(d)' PROVE LiveCall(call[d])'
    BY DEF CallRule
  <2>1. call'[d] = call[d] /\ Busy(d) /\ LiveCall(call[d])
    BY DEF CallOnly, Busy, LiveInv
  <2>2. call[d].pc = "op" =>
          [file |-> Head(call[d].todo), fd |-> call[d].fd] \in Entries(table'[call[d].t])
    <3>1. CASE call[d].t = t
      BY <2>1, <3>1 DEF TableRule, LiveCall, On
    <3>2. CASE call[d].t # t
      <4>1. call[d].t \in Torrents
        BY <2>1 DEF Types, GoodCall, BusyCalls
      <4>. QED  BY <2>1, <3>2, <4>1 DEF CallOnly, LiveCall
    <3>. QED  BY <3>1, <3>2
  <2>. QED  BY <2>1, <2>2 DEF LiveCall, CallOnly
<1>2. \A u \in Torrents : Entries(table'[u]) # {} => u \in group'
  BY DEF CallOnly, TableRule, LiveInv
<1>3. ASSUME NEW k \in DOMAIN closer, closer[k].pc = "close"
      PROVE  Entries(table'[closer[k].t]) = {} /\ Inflight(closer[k].t)' = {}
  <2>1. /\ closed[closer[k].t] /\ closer[k].t \in Torrents
        /\ Entries(table[closer[k].t]) = {} /\ Inflight(closer[k].t) = {}
    BY <1>3 DEF LiveInv, Types, Closers
  <2>2. Entries(table'[closer[k].t]) = {}
    BY <2>1 DEF CallOnly, TableRule
  <2>3. ASSUME NEW d \in Callers, On(d, closer[k].t)', call'[d].entered PROVE FALSE
    <3>1. Busy(d) /\ call[d].t = closer[k].t /\ call[d].entered
      <4>1. CASE d # c
        BY <2>3, <4>1 DEF CallOnly, Busy, On
      <4>2. CASE d = c
        BY <2>1, <2>3, <4>2 DEF CallOnly, CallRule, On
      <4>. QED  BY <4>1, <4>2
    <3>. QED  BY <2>1, <3>1 DEF Inflight, On
  <2>. QED  BY <2>2, <2>3 DEF Inflight, On
<1>. QED  BY <1>1, <1>2, <1>3 DEF LiveInv, CallOnly

\* A handle of an open torrent that was on its file and stays open is on it still.
FilesRule ==
    \A u \in group : \A q \in PathsOf(u) : \A n \in Fds :
        ~closed[u] /\ fds[n] # NoFd /\ fds'[n] = fds[n] /\ OnFile(q, n) => OnFile(q, n)'

LEMMA FilesKept ==
    ASSUME Types, LiveInv, FdInv, FileInv, NEW c \in Callers, NEW t \in Torrents, CallOnly(c, t), FdRule(c, t),
           FilesRule,
           ~closed[t] => TableOn(t)', CallOn(c)'
    PROVE  FileInv'
<1>1. ASSUME NEW u \in Torrents, ~closed[u], NEW e \in Entries(table'[u])
      PROVE  OnFile(PathOf[u][e.file], e.fd)'
  <2>1. CASE u = t
    BY <1>1, <2>1 DEF TableOn
  <2>2. CASE u # t
    <3>1. e \in Entries(table[u]) /\ e.fd \in InTab(u)
      BY <1>1, <2>2 DEF CallOnly, InTab
    <3>2. e.fd \in Fds /\ fds[e.fd] # NoFd /\ fds'[e.fd] = fds[e.fd]
      BY <2>2, <3>1, OthersKeep
    <3>3. u \in group /\ ~closed[u] /\ OnFile(PathOf[u][e.file], e.fd)
      BY <1>1, <3>1 DEF FileInv, TableOn, LiveInv, CallOnly
    <3>4. PathOf[u][e.file] \in PathsOf(u)
      <4>1. e \in Handles(u)
        BY <3>1 DEF Types, Entries
      <4>. QED  BY <4>1 DEF Handles, PathsOf
    <3>. QED  BY <3>2, <3>3, <3>4 DEF FilesRule
  <2>. QED  BY <2>1, <2>2
<1>2. ASSUME NEW d \in Callers, call'[d].pc = "install", ~closed[call'[d].t]
      PROVE  OnFile(PathIn(call[d]), call[d].fd)'
  <2>1. CASE d = c
    BY <1>2, <2>1 DEF CallOn, CallOnly
  <2>2. CASE d # c
    <3>1. call'[d] = call[d] /\ call[d].fd \in HeldBy(call[d])
      BY <1>2, <2>2 DEF CallOnly, HeldBy
    <3>. DEFINE n == call[d].fd
    <3>2. n \in Fds /\ fds[n] # NoFd /\ fds'[n] = fds[n]
      BY <2>2, <3>1, OthersKeep
    <3>3. GoodCall(call[d]) /\ LiveCall(call[d])
      BY <1>2, <3>1 DEF Types, LiveInv, Busy
    <3>4. call[d].t \in group /\ ~closed[call[d].t] /\ OnFile(PathIn(call[d]), n)
      BY <1>2, <3>1, <3>3 DEF GoodCall, EnteredPcs, LiveCall, FileInv, CallOn, CallOnly
    <3>5. PathIn(call[d]) \in PathsOf(call[d].t)
      BY <3>3, PathOfCall
    <3>6. OnFile(PathIn(call[d]), n)'
          <=> (/\ \A g \in DOMAIN disk' : disk'[g] = fds'[n].inode => g = Real(PathIn(call[d]))
               /\ Real(PathIn(call[d])) \notin gone' => /\ Real(PathIn(call[d])) \in DOMAIN disk'
                                                       /\ disk'[Real(PathIn(call[d]))] = fds'[n].inode)
      BY <3>1 DEF OnFile
    <3>. QED  BY <3>2, <3>4, <3>5, <3>6 DEF FilesRule, OnFile
  <2>. QED  BY <2>1, <2>2
<1>. QED  BY <1>1, <1>2 DEF FileInv, TableOn, CallOn, CallOnly

\* What a step may make of a call that discards, or will.
DiscardRule(c, t) ==
    /\ Creator(call'[c]) => Creator(call[c]) /\ PathIn(call'[c]) = PathIn(call[c])
    /\ call'[c].pc \in {"check", "remove"} => \A u \in group \ {t} : PathsOf(u) \subseteq call'[c].others
    /\ call'[c].pc = "remove" /\ Creator(call'[c]) /\ Real(PathIn(call'[c])) \notin gone =>
         Sole(call'[c], Real(PathIn(call'[c])))

\* What it may write: nothing into a file that another call is about to remove.
WriteRule(c) ==
    \/ content' = content
    \/ /\ call'[c].pc # "remove"
       /\ \A d \in Callers \ {c} :
            LET f == Real(PathIn(call[d])) IN
            call[d].pc = "remove" /\ Creator(call[d]) /\ f \in DOMAIN disk \ gone
              => content'[disk[f]] = content[disk[f]]

LEMMA DiscardKept ==
    ASSUME Types, DiscardInv, NEW c \in Callers, NEW t \in Torrents, CallOnly(c, t), DiscardRule(c, t),
           UNCHANGED <<disk, gone>>, WriteRule(c)
    PROVE  DiscardInv'
<1>1. /\ \A d \in Callers \ {c} : call'[d] = call[d]
      /\ group' = group /\ disk' = disk /\ gone' = gone
      /\ call'[c].pc \in {"check", "remove"} => call'[c].t = t
  BY DEF CallOnly, Busy
<1>2. \A d \in Callers : Creator(call'[d]) => Creator(call[d]) /\ PathIn(call'[d]) = PathIn(call[d])
  BY <1>1 DEF DiscardRule
<1>3. \A d \in Callers : Creator(call'[d]) => Real(PathIn(call'[d])) \in gone \cup DOMAIN disk
  BY <1>2 DEF DiscardInv
<1>4. \A d, e \in Callers :
         /\ d # e /\ Creator(call'[d]) /\ Creator(call'[e])
         /\ Real(PathIn(call'[d])) = Real(PathIn(call'[e]))
         => Real(PathIn(call'[d])) \in gone
  BY <1>2 DEF DiscardInv
<1>5. \A d \in Callers : call'[d].pc \in {"check", "remove"} =>
         \A u \in group \ {call'[d].t} : PathsOf(u) \subseteq call'[d].others
  BY <1>1 DEF DiscardInv, DiscardRule
<1>6. ASSUME NEW d \in Callers, call'[d].pc = "remove", Creator(call'[d]), Real(PathIn(call'[d])) \notin gone
      PROVE  Sole(call[d], Real(PathIn(call[d])))'
  <2>1. CASE d = c
    BY <1>1, <1>6, <2>1 DEF DiscardRule, WriteRule, Sole
  <2>2. CASE d # c
    <3>. DEFINE f == Real(PathIn(call[d]))
    <3>1. call'[d] = call[d] /\ Sole(call[d], f) /\ f \notin gone
      BY <1>1, <1>6, <2>2 DEF DiscardInv
    <3>2. f \in DOMAIN disk => content'[disk[f]] = content[disk[f]]
      BY <1>1, <1>6, <2>2, <3>1 DEF WriteRule
    <3>. QED  BY <1>1, <3>1, <3>2 DEF Sole
  <2>. QED  BY <2>1, <2>2
<1>. QED  BY <1>1, <1>3, <1>4, <1>5, <1>6 DEF DiscardInv

\* Most steps write nothing.
LEMMA NothingWritten ==
    ASSUME IInv, NEW c, UNCHANGED <<disk, content, acked, gone>>
    PROVE  DiskInv' /\ WriteRule(c)
BY DEF IInv, DiskInv, WriteRule

LEMMA OwnStep ==
    ASSUME IInv, NEW c \in Callers, NEW t \in Torrents, CallOnly(c, t),
           TableRule(c, t), CallRule(c, t), FdRule(c, t), DiscardRule(c, t),
           UNCHANGED <<disk, gone>>, DiskInv', WriteRule(c),
           fds' \in [Fds -> OpenFds \cup {NoFd}], dirs' \subseteq {Real(d) : d \in AllDirs},
           ~closed[t] => TableOn(t)', CallOn(c)'
    PROVE  IInv'
<1>1. Types'
  BY TypesKept DEF IInv
<1>3. LiveInv'
  BY LiveKept DEF IInv
<1>4. FdInv'
  BY FdKept DEF IInv
<1>5. FileInv'
  <2>1. FilesRule
    BY DEF FilesRule, OnFile
  <2>. QED  BY <2>1, FilesKept DEF IInv
<1>6. DiscardInv'
  BY DiscardKept DEF IInv
<1>. QED  BY <1>1, <1>3, <1>4, <1>5, <1>6 DEF IInv

\* A step that changes nothing but the call, and opens and closes nothing.
LEMMA QuietStep ==
    ASSUME IInv, NEW c \in Callers, NEW t \in Torrents, CallOnly(c, t), CallRule(c, t), DiscardRule(c, t),
           UNCHANGED <<table, fds, disk, gone>>, DiskInv', WriteRule(c), dirs' \subseteq {Real(d) : d \in AllDirs},
           HeldBy(call'[c]) \subseteq HeldBy(call[c]), call'[c].pc # "install"
    PROVE  IInv'
<1>1. UNCHANGED InTab(t) /\ UNCHANGED OpenFor(t) /\ UNCHANGED Entries(table[t])
  BY DEF InTab, OpenFor
<1>2. TableRule(c, t)
  BY <1>1 DEF TableRule, IInv, Types, LiveInv
<1>3. HeldBy(call[c]) # {} => HeldBy(call[c]) \subseteq OpenFor(t)
  BY DEF IInv, FdInv, CallOnly, HeldBy, Busy
<1>4. FdRule(c, t)
  <2>1. InTab(t) \subseteq OpenFor(t) /\ Apart(table[t]) /\ HeldBy(call[c]) \cap InTab(t) = {}
    BY DEF IInv, FdInv
  <2>. QED  BY <1>1, <1>3, <2>1 DEF FdRule
<1>5. CallOn(c)' /\ (~closed[t] => TableOn(t)')
  BY <1>1 DEF IInv, FileInv, TableOn, CallOn, OnFile
<1>. QED  BY <1>2, <1>4, <1>5, OwnStep DEF IInv, Types

\* What is known of a call under way, and of the others when it takes a step.
LEMMA CallFacts ==
    ASSUME IInv, NEW c \in Callers, Busy(c)
    PROVE  /\ GoodCall(call[c]) /\ LiveCall(call[c]) /\ call[c].t \in Torrents /\ call[c] \in BusyCalls
           /\ Path(c) = PathIn(call[c]) /\ Path(c) \in AllFiles /\ File(c) = Head(call[c].todo)
           /\ File(c) \in DOMAIN PathOf[call[c].t] /\ DOMAIN call = Callers
           /\ DOMAIN table = Torrents /\ table[call[c].t] \in Seq(Handles(call[c].t)) /\ Apart(table[call[c].t])
           /\ InTab(call[c].t) \subseteq OpenFor(call[c].t)
           /\ HeldBy(call[c]) \subseteq OpenFor(call[c].t) /\ HeldBy(call[c]) \cap InTab(call[c].t) = {}
<1>1. GoodCall(call[c]) /\ LiveCall(call[c]) /\ DOMAIN call = Callers /\ DOMAIN table = Torrents
  BY DEF IInv, Types, LiveInv
<1>2. call[c].t \in Torrents /\ PathIn(call[c]) \in AllFiles /\ Head(call[c].todo) \in DOMAIN PathOf[call[c].t]
  BY <1>1, PathOfCall
<1>3. table[call[c].t] \in Seq(Handles(call[c].t))
  BY <1>2 DEF IInv, Types
<1>4. /\ Apart(table[call[c].t]) /\ InTab(call[c].t) \subseteq OpenFor(call[c].t)
      /\ HeldBy(call[c]) \subseteq OpenFor(call[c].t) /\ HeldBy(call[c]) \cap InTab(call[c].t) = {}
  BY <1>2 DEF IInv, FdInv
<1>. QED  BY <1>1, <1>2, <1>3, <1>4 DEF Path, File, PathIn, GoodCall

\* A call that has ended, or has not begun, holds nothing.
LEMMA EndStep ==
    ASSUME IInv, NEW c \in Callers, Busy(c), Fail(c),
           UNCHANGED <<group, closed, closer, table, fds, disk, gone, dirs>>, DiskInv', WriteRule(c)
    PROVE  IInv'
<1>1. call'[c] = Idle /\ DOMAIN call' = Callers /\ \A d \in Callers \ {c} : call'[d] = call[d]
  BY DEF Fail, IInv, Types
<1>2. call'[c].pc = "idle"
  BY <1>1 DEF Idle
<1>3. CallOnly(c, call[c].t) /\ CallRule(c, call[c].t) /\ DiscardRule(c, call[c].t)
  BY <1>1, <1>2 DEF CallOnly, CallRule, DiscardRule, Busy, Creator, Discarding, IInv, Types
<1>4. HeldBy(call'[c]) = {}
  BY <1>2 DEF HeldBy
<1>. QED  BY <1>2, <1>3, <1>4, CallFacts, QuietStep DEF IInv, Types

\* A call that goes to a place where it holds nothing and discards nothing.
LEMMA GotoStep ==
    ASSUME IInv, NEW c \in Callers, NEW t \in Torrents, Busy(c) => call[c].t = t,
           DOMAIN call' = Callers, \A d \in Callers \ {c} : call'[d] = call[d],
           UNCHANGED <<group, closed, closer, table, fds, disk, gone>>, DiskInv', WriteRule(c),
           dirs' \subseteq {Real(d) : d \in AllDirs},
           GoodCall(call'[c]), call'[c].t = t, LiveCall(call[c])',
           call'[c].entered /\ closed[t] => Busy(c) /\ call[c].entered,
           call'[c].pc \notin {"install", "closeOut"} \cup Discarding
    PROVE  IInv'
<1>1. CallOnly(c, t) /\ CallRule(c, t) /\ DiscardRule(c, t)
  BY DEF CallOnly, CallRule, DiscardRule, Creator, Discarding, IInv, Types
<1>2. HeldBy(call'[c]) = {}
  BY DEF HeldBy, Discarding
<1>. QED  BY <1>1, <1>2, QuietStep DEF IInv, Types

----------------------------------------------------------------------------
(* The steps that open, close and remove nothing. *)

LEMMA WiderSeq == ASSUME NEW A, NEW B, A \subseteq B, NEW s \in Seq(A) PROVE s \in Seq(B)
OBVIOUS

Pcs == EnteredPcs \cup {"fast", "op", "markComplete", "markNotComplete"}

LEMMA BeginStep ==
    ASSUME IInv, NEW c \in Callers, NEW t \in Torrents, NEW p \in Pieces(t), NEW kind \in {"write", "check"},
           Begin(c, t, p, kind)
    PROVE  IInv'
<1>. DEFINE y == [pc |-> "fast", t |-> t, kind |-> kind, piece |-> p, todo |-> Extent[t][p],
                  entered |-> FALSE, excl |-> FALSE, fd |-> 0, created |-> <<>>,
                  keep |-> {}, others |-> {}, out |-> {}]
<1>1. /\ ~Busy(c) /\ (t \in group \/ closed[t]) /\ call' = [call EXCEPT ![c] = y]
      /\ UNCHANGED <<table, fds, closer, completion, diskVars, openVars, history>>
  BY DEF Begin
<1>2. Extent[t][p] \in Seq(DOMAIN PathOf[t]) \ {<<>>} /\ Extent[t][p] \in Seq(AllIndices)
  <2>1. Extent[t][p] \in Seq(DOMAIN PathOf[t]) \ {<<>>}
    BY ExtentAssumption
  <2>2. DOMAIN PathOf[t] \subseteq AllIndices
    BY DEF AllIndices
  <2>. QED  BY <2>1, <2>2, WiderSeq
<1>3. y \in BusyCalls
  <2>1. MaxFd \in Nat /\ p \in AllPieces
    BY BoundsAssumption DEF AllPieces
  <2>2. <<>> \in Seq(AllFiles \cup AllDirs)
    OBVIOUS
  <2>. QED  BY <1>2, <2>1, <2>2 DEF BusyCalls
<1>4. GoodCall(y)
  BY <1>2, <1>3 DEF GoodCall, EnteredPcs
<1>5. DOMAIN call' = Callers /\ call'[c] = y /\ \A d \in Callers \ {c} : call'[d] = call[d]
  BY <1>1 DEF IInv, Types
<1>6. LiveCall(call[c])'
  BY <1>1, <1>5 DEF LiveCall, openVars, Discarding
<1>7. /\ UNCHANGED <<group, closed, closer, table, fds, disk, content, acked, gone, dirs>>
  BY <1>1 DEF openVars, diskVars, history
<1>. QED
  BY <1>1, <1>4, <1>5, <1>6, <1>7, NothingWritten, GotoStep DEF Discarding, IInv, Types

\* The file is in the table: it is the last used now, and the call operates on it.
LEMMA UseStep ==
    ASSUME IInv, NEW c \in Callers, NEW t \in Torrents, Busy(c), t = call[c].t, call[c].pc \in {"fast", "retry", "lock"},
           ~closed[t], Has(t, File(c)),
           table' = [table EXCEPT ![t] = Touched(t, File(c))],
           NEW excl \in BOOLEAN,
           call' = [call EXCEPT ![c] = [@ EXCEPT !.pc = "op", !.excl = excl,
                                                 !.fd = Handle(t, File(c)).fd]],
           UNCHANGED <<group, closed, closer, fds, disk, content, acked, gone, dirs>>
    PROVE  IInv'
<1>. DEFINE x == call[c]
            h == Handle(t, File(c))
<1>0. GoodCall(x) /\ LiveCall(x) /\ t \in Torrents /\ x \in BusyCalls /\ File(c) = Head(x.todo)
  BY CallFacts
<1>1. /\ Touched(t, File(c)) \in Seq(Handles(t)) /\ Apart(Touched(t, File(c)))
      /\ Entries(Touched(t, File(c))) = Entries(table[t]) /\ h \in Entries(table[t]) /\ h.file = File(c)
  BY CallFacts, TouchedEntries
<1>2. /\ table'[t] = Touched(t, File(c)) /\ \A u \in Torrents \ {t} : table'[u] = table[u]
      /\ DOMAIN table' = Torrents
  BY <1>0 DEF IInv, Types
<1>3. Entries(table'[t]) = Entries(table[t]) /\ UNCHANGED InTab(t) /\ UNCHANGED OpenFor(t)
  BY <1>1, <1>2 DEF InTab, OpenFor
<1>4. h \in Handles(t) /\ h = [file |-> File(c), fd |-> h.fd] /\ h.fd \in Fds
  <2>1. h \in Handles(t)
    BY <1>1, CallFacts DEF Entries
  <2>. QED  BY <1>1, <2>1 DEF Handles
<1>. DEFINE y == [x EXCEPT !.pc = "op", !.excl = excl, !.fd = h.fd]
<1>5. DOMAIN call' = Callers /\ call'[c] = y /\ \A d \in Callers \ {c} : call'[d] = call[d]
  BY DEF IInv, Types
<1>6. /\ y \in BusyCalls /\ PathIn(y) = PathIn(x) /\ y.pc = "op"
      /\ y.t = x.t /\ y.piece = x.piece /\ y.todo = x.todo /\ y.entered = x.entered /\ y.excl = excl
      /\ y.fd = h.fd /\ y.created = x.created
  <2>1. h.fd \in 0..MaxFd /\ "op" \in Pcs
    BY <1>4, BoundsAssumption DEF Fds, Pcs
  <2>. HIDE DEF x, h
  <2>2. x \in BusyCalls /\ excl \in BOOLEAN
    BY <1>0
  <2>. QED  BY <2>1, <2>2 DEF BusyCalls, PathIn, Pcs
<1>7. GoodCall(y)
  BY <1>0, <1>6 DEF GoodCall, EnteredPcs, LockedPcs
<1>8. LiveCall(call[c])'
  BY <1>0, <1>1, <1>3, <1>4, <1>5, <1>6 DEF LiveCall, BusyCalls, Discarding
<1>9. CallOnly(c, t) /\ CallRule(c, t) /\ DiscardRule(c, t)
  BY <1>2, <1>5, <1>6, <1>7, <1>8 DEF CallOnly, CallRule, DiscardRule, Creator, Discarding
<1>10. TableRule(c, t)
  BY <1>0, <1>1, <1>2, <1>3 DEF TableRule, IInv, LiveInv
<1>11. HeldBy(call'[c]) = {}
  BY <1>5, <1>6 DEF HeldBy
<1>12. FdRule(c, t)
  <2>1. InTab(t) \subseteq OpenFor(t) /\ UNCHANGED fds
    BY CallFacts
  <2>. QED  BY <1>1, <1>2, <1>3, <1>11, <2>1 DEF FdRule
<1>13. TableOn(t)'
  BY <1>0, <1>3 DEF IInv, FileInv, TableOn, OnFile
<1>14. CallOn(c)' /\ UNCHANGED <<disk, content, acked, gone>>
  BY <1>5, <1>6 DEF CallOn
<1>15. fds' \in [Fds -> OpenFds \cup {NoFd}] /\ dirs' \subseteq {Real(d) : d \in AllDirs}
  BY DEF IInv, Types
<1>. HIDE DEF x, h, y
<1>. QED
  BY <1>0, <1>9, <1>10, <1>12, <1>13, <1>14, <1>15, NothingWritten, OwnStep

LEMMA WithOpenFileStep == ASSUME IInv, NEW c \in Callers, WithOpenFile(c) PROVE IInv'
<1>. DEFINE t == call[c].t
            x == call[c]
<1>0. /\ x.pc \in {"fast", "retry"} /\ Busy(c)
      /\ UNCHANGED <<fds, diskVars, openVars, history, recordVars>>
      /\ UNCHANGED <<group, closed, closer, fds, disk, content, acked, gone, dirs>>
  BY DEF WithOpenFile, Busy, diskVars, openVars, history, recordVars
<1>1. CASE closed[t] /\ Fail(c) /\ UNCHANGED table
  BY <1>0, <1>1, NothingWritten, EndStep
<1>2. CASE /\ ~closed[t] /\ Fits(t, File(c), Write(c))
           /\ table' = [table EXCEPT ![t] = Touched(t, File(c))]
           /\ call' = [call EXCEPT ![c].pc = "op", ![c].fd = Handle(t, File(c)).fd]
  <2>1. x.excl = FALSE /\ x \in BusyCalls
    BY <1>0, CallFacts DEF GoodCall, LockedPcs, BusyCalls
  <2>2. [x EXCEPT !.pc = "op", !.excl = FALSE, !.fd = Handle(t, File(c)).fd]
          = [x EXCEPT !.pc = "op", !.fd = Handle(t, File(c)).fd]
    BY <2>1 DEF BusyCalls
  <2>3. call' = [call EXCEPT ![c] = [@ EXCEPT !.pc = "op", !.excl = FALSE, !.fd = Handle(t, File(c)).fd]]
    BY <1>2, <2>2
  <2>4. t \in Torrents
    BY <1>0, CallFacts
  <2>. QED  BY <1>0, <1>2, <2>3, <2>4, UseStep DEF Fits
<1>3. CASE /\ ~closed[t] /\ UNCHANGED table
           /\ IF x.pc = "fast"
                THEN call' = [call EXCEPT ![c].pc = "open", ![c].entered = TRUE]
                ELSE Goto(c, "lock")
  <2>1. GoodCall(x) /\ LiveCall(x) /\ t \in Torrents /\ x \in BusyCalls /\ x.t = t
    BY <1>0, CallFacts
  <2>5. /\ DOMAIN call' = Callers /\ \A d \in Callers \ {c} : call'[d] = call[d]
        /\ x.pc = "fast" => call'[c] = [x EXCEPT !.pc = "open", !.entered = TRUE]
        /\ x.pc # "fast" => call'[c] = [x EXCEPT !.pc = "lock"] /\ x.entered = TRUE
    <3>1. DOMAIN call = Callers
      BY DEF IInv, Types
    <3>2. x.pc # "fast" => x.entered = TRUE
      BY <1>0, <2>1 DEF GoodCall, EnteredPcs, BusyCalls
    <3>. QED  BY <1>3, <3>1, <3>2 DEF Goto
  <2>6. x.excl = FALSE /\ {"open", "lock"} \subseteq Pcs
    BY <1>0, <2>1 DEF GoodCall, LockedPcs, BusyCalls, Pcs, EnteredPcs
  <2>2. /\ DOMAIN call' = Callers /\ \A d \in Callers \ {c} : call'[d] = call[d]
        /\ call'[c].pc \in {"open", "lock"}
        /\ call'[c] \in BusyCalls /\ call'[c].t = t /\ call'[c].entered = TRUE
        /\ call'[c].piece = x.piece /\ call'[c].todo = x.todo /\ call'[c].created = x.created
        /\ call'[c].excl = x.excl /\ x.excl = FALSE
    <3>. HIDE DEF x
    <3>1. CASE x.pc = "fast"
      BY <2>1, <2>5, <2>6, <3>1 DEF BusyCalls, Pcs
    <3>2. CASE x.pc # "fast"
      BY <2>1, <2>5, <2>6, <3>2 DEF BusyCalls, Pcs
    <3>. QED  BY <3>1, <3>2
  <2>3. GoodCall(call'[c])
    BY <2>1, <2>2 DEF GoodCall, PathIn
  <2>4. LiveCall(call[c])'
    BY <1>0, <1>3, <2>1, <2>2 DEF LiveCall, Discarding
  <2>. QED
    BY <1>0, <1>3, <2>1, <2>2, <2>3, <2>4, NothingWritten, GotoStep DEF Discarding, IInv, Types
<1>. QED  BY <1>0, <1>1, <1>2, <1>3 DEF WithOpenFile

\* The call goes on to its next file, to the mark of its piece, or ends.
LEMMA OnwardCall ==
    ASSUME IInv, NEW c \in Callers, NEW t \in Torrents, Busy(c), t = call[c].t, NEW found \in BOOLEAN, Onward(c, found)
    PROVE  /\ DOMAIN call' = Callers /\ \A d \in Callers \ {c} : call'[d] = call[d]
           /\ \/ Fail(c)
              \/ /\ GoodCall(call'[c]) /\ call'[c].t = t /\ call'[c].pc \in {"fast", "markComplete", "markNotComplete"}
                 /\ call'[c].entered = FALSE /\ call'[c].excl = FALSE
           /\ call'[c].pc \in {"idle", "fast", "markComplete", "markNotComplete"}
<1>. DEFINE x == call[c]
<1>1. GoodCall(x) /\ x \in BusyCalls /\ DOMAIN call = Callers /\ x.t = t
  BY CallFacts
<1>2. 0 \in 0..MaxFd /\ <<>> \in Seq(AllFiles \cup AllDirs)
  BY BoundsAssumption
<1>3. CASE found /\ Len(x.todo) > 1
  <2>. DEFINE y == [x EXCEPT !.pc = "fast", !.todo = Tail(x.todo), !.entered = FALSE, !.excl = FALSE,
                             !.fd = 0, !.created = <<>>]
  <2>1. call' = [call EXCEPT ![c] = y]
    BY <1>3 DEF Onward
  <2>2. Tail(x.todo) \in Seq(DOMAIN PathOf[t]) \ {<<>>} /\ Tail(x.todo) \in Seq(AllIndices)
    <3>1. Tail(x.todo) \in Seq(DOMAIN PathOf[t]) /\ DOMAIN PathOf[t] \subseteq AllIndices
      BY <1>1, PathOfCall
    <3>2. Tail(x.todo) # <<>>
      BY <1>1, <1>3, HeadAndTail DEF GoodCall
    <3>. QED  BY <3>1, <3>2, WiderSeq
  <2>. HIDE DEF x
  <2>3. /\ y \in BusyCalls /\ y.pc = "fast" /\ y.t = t /\ y.piece = x.piece /\ y.todo = Tail(x.todo)
        /\ y.entered = FALSE /\ y.excl = FALSE /\ y.created = <<>>
    BY <1>1, <1>2, <2>2 DEF BusyCalls
  <2>. HIDE DEF y
  <2>4. GoodCall(y)
    BY <1>1, <2>2, <2>3 DEF GoodCall, EnteredPcs
  <2>. QED  BY <1>1, <2>1, <2>3, <2>4
<1>4. CASE ~(found /\ Len(x.todo) > 1) /\ Write(c)
  BY <1>1, <1>4 DEF Onward, Fail, Idle
<1>5. CASE ~(found /\ Len(x.todo) > 1) /\ ~Write(c)
  <2>. DEFINE pc == IF found THEN "markComplete" ELSE "markNotComplete"
              y == [x EXCEPT !.pc = pc, !.entered = FALSE, !.excl = FALSE, !.fd = 0, !.created = <<>>]
  <2>1. call' = [call EXCEPT ![c] = y]
    BY <1>5 DEF Onward
  <2>2. pc \in {"markComplete", "markNotComplete"}
    OBVIOUS
  <2>. HIDE DEF x, pc
  <2>3. /\ y \in BusyCalls /\ y.pc = pc /\ y.t = t /\ y.piece = x.piece /\ y.todo = x.todo
        /\ y.entered = FALSE /\ y.excl = FALSE /\ y.created = <<>>
    BY <1>1, <1>2, <2>2 DEF BusyCalls
  <2>. HIDE DEF y
  <2>4. GoodCall(y)
    BY <1>1, <2>2, <2>3 DEF GoodCall, EnteredPcs
  <2>. QED  BY <1>1, <2>1, <2>2, <2>3, <2>4
<1>. QED  BY <1>3, <1>4, <1>5

LEMMA OnwardStep ==
    ASSUME IInv, NEW c \in Callers, Busy(c), NEW found \in BOOLEAN, Onward(c, found),
           UNCHANGED <<group, closed, closer, table, fds, disk, gone, dirs>>, DiskInv', WriteRule(c)
    PROVE  IInv'
<1>1. PICK t \in Torrents : t = call[c].t
  BY CallFacts
<1>2. CASE Fail(c)
  BY <1>2, EndStep
<1>3. CASE ~Fail(c)
  <2>1. /\ DOMAIN call' = Callers /\ \A d \in Callers \ {c} : call'[d] = call[d]
        /\ GoodCall(call'[c]) /\ call'[c].t = t /\ call'[c].pc \in {"fast", "markComplete", "markNotComplete"}
        /\ call'[c].entered = FALSE /\ call'[c].excl = FALSE
    BY <1>1, <1>3, OnwardCall
  <2>2. t \in group \/ closed[t]
    BY <1>1, CallFacts DEF LiveCall
  <2>3. LiveCall(call[c])'
    BY <2>1, <2>2 DEF LiveCall, Discarding
  <2>. QED  BY <1>1, <2>1, <2>3, GotoStep DEF Discarding, IInv, Types
<1>. QED  BY <1>2, <1>3

\* The handle a call operates on is on its file.
LEMMA HandleInUse ==
    ASSUME IInv, NEW c \in Callers, call[c].pc = "op"
    PROVE  /\ Busy(c) /\ call[c].t \in group /\ ~closed[call[c].t] /\ call[c].fd \in InTab(call[c].t)
           /\ OnFile(Path(c), call[c].fd)
<1>. DEFINE t == call[c].t
            e == [file |-> File(c), fd |-> call[c].fd]
<1>1. Busy(c)
  BY DEF Busy
<1>2. t \in Torrents /\ ~closed[t] /\ e \in Entries(table[t]) /\ t \in group
  BY <1>1, CallFacts DEF LiveCall, IInv, LiveInv
<1>3. e.fd = call[c].fd /\ e.file = File(c)
  OBVIOUS
<1>4. OnFile(PathOf[t][e.file], e.fd)
  BY <1>2 DEF IInv, FileInv, TableOn
<1>5. e.fd \in InTab(t)
  BY <1>2 DEF InTab
<1>. QED  BY <1>1, <1>2, <1>3, <1>4, <1>5 DEF Path

\* No call is about to remove the file another one writes to.
LEMMA WritesOnlyItsFile ==
    ASSUME IInv, NEW c \in Callers, call[c].pc = "op", NEW d \in Callers \ {c},
           call[d].pc = "remove", Creator(call[d]),
           NEW f, f = Real(PathIn(call[d])), f \in DOMAIN disk \ gone
    PROVE  disk[f] # fds[call[c].fd].inode
<1>1. call[c].t \in group /\ ~closed[call[c].t] /\ OnFile(Path(c), call[c].fd)
  BY HandleInUse
<1>2. Busy(d) /\ Sole(call[d], f)
  BY DEF Busy, IInv, DiscardInv
<1>3. closed[call[d].t]
  BY <1>2, CallFacts DEF LiveCall, Discarding
<1>4. Path(c) \in PathsOf(call[c].t)
  BY CallFacts, PathOfCall DEF Busy
<1>5. Real(Path(c)) # f
  BY <1>1, <1>2, <1>3, <1>4 DEF Sole
<1>. QED  BY <1>1, <1>5 DEF OnFile

LEMMA OpStep == ASSUME IInv, NEW c \in Callers, Op(c) PROVE IInv'
<1>. DEFINE n == fds[call[c].fd].inode
            chunk == <<Real(Path(c)), call[c].piece>>
<1>1. /\ call[c].pc = "op" /\ Busy(c)
      /\ UNCHANGED <<group, closed, closer, table, fds, disk, gone, dirs>>
  BY DEF Op, Busy, openVars, recordVars
<1>2. CASE Write(c)
  <2>1. /\ content' = [content EXCEPT ![n] = @ \cup {call[c].piece}]
        /\ acked' = IF chunk[1] \in gone THEN acked ELSE acked \cup {chunk}
        /\ Onward(c, TRUE)
    BY <1>2 DEF Op
  <2>2. call[c].piece \in AllPieces
    BY <1>1, CallFacts, PathOfCall
  <2>3. content' \in [Inodes -> SUBSET AllPieces]
    BY <2>1, <2>2 DEF IInv, DiskInv
  <2>4. DiskInv'
    BY <1>1, <2>1, <2>3 DEF IInv, DiskInv
  <2>5. call'[c].pc # "remove"
    BY <1>1, <2>1, CallFacts, OnwardCall
  <2>6. WriteRule(c)
    <3>1. ASSUME NEW d \in Callers \ {c}, NEW f, f = Real(PathIn(call[d])),
                 call[d].pc = "remove", Creator(call[d]), f \in DOMAIN disk \ gone
          PROVE  content'[disk[f]] = content[disk[f]]
      <4>1. disk[f] # n
        BY <1>1, <3>1, WritesOnlyItsFile
      <4>2. disk[f] \in Inodes
        BY <3>1 DEF IInv, DiskInv
      <4>. HIDE DEF n
      <4>. QED  BY <2>1, <4>1, <4>2 DEF IInv, DiskInv
    <3>. QED  BY <2>5, <3>1 DEF WriteRule
  <2>. QED  BY <1>1, <2>1, <2>4, <2>6, OnwardStep
<1>3. CASE ~Write(c)
  <2>1. Onward(c, call[c].piece \in content[n]) /\ UNCHANGED <<content, acked>>
    BY <1>3 DEF Op
  <2>2. (call[c].piece \in content[n]) \in BOOLEAN
    OBVIOUS
  <2>. QED  BY <1>1, <2>1, <2>2, NothingWritten, OnwardStep
<1>. QED  BY <1>2, <1>3

LEMMA MarkStep == ASSUME IInv, NEW c \in Callers, Mark(c) PROVE IInv'
<1>1. /\ Busy(c) /\ Fail(c)
      /\ UNCHANGED <<group, closed, closer, table, fds, disk, content, acked, gone, dirs>>
  BY DEF Mark, Busy, openVars, diskVars, history
<1>. QED  BY <1>1, NothingWritten, EndStep

----------------------------------------------------------------------------
(* The steps that open a handle. *)

\* The step leaves the torrent's table as it is.
LEMMA SameTable ==
    ASSUME IInv, NEW t \in Torrents, UNCHANGED table, NEW c
    PROVE  TableRule(c, t) /\ UNCHANGED InTab(t)
<1>1. UNCHANGED Entries(table[t])
  OBVIOUS
<1>. QED  BY <1>1 DEF TableRule, InTab, IInv, Types, LiveInv

\* A free handle is opened and held by the call that opens it.
LEMMA OneMoreFd ==
    ASSUME IInv, NEW c \in Callers, NEW t \in Torrents, UNCHANGED table, FreeFds # {}, NEW e \in OpenFds, e.t = t,
           fds' = [fds EXCEPT ![FreeFd] = e], HeldBy(call'[c]) = {FreeFd}
    PROVE  /\ FreeFd \in Fds /\ fds[FreeFd] = NoFd /\ fds'[FreeFd] = e
           /\ \A m \in Fds \ {FreeFd} : fds'[m] = fds[m]
           /\ FdRule(c, t) /\ fds' \in [Fds -> OpenFds \cup {NoFd}]
<1>. DEFINE n == FreeFd
<1>1. n \in Fds /\ fds[n] = NoFd
  BY DEF FreeFds, FreeFd, Fds
<1>2. e # NoFd
  BY TorrentsAssumption DEF NoFd
<1>. HIDE DEF n
<1>3. /\ fds' \in [Fds -> OpenFds \cup {NoFd}] /\ fds'[n] = e /\ \A m \in Fds \ {n} : fds'[m] = fds[m]
  BY <1>1 DEF IInv, Types, n
<1>4. UNCHANGED InTab(t) /\ InTab(t) \subseteq OpenFor(t) /\ Apart(table[t])
  BY SameTable DEF IInv, FdInv
<1>5. OpenFor(t)' = OpenFor(t) \cup {n} /\ n \notin OpenFor(t)
  BY <1>1, <1>2, <1>3 DEF OpenFor
<1>6. HeldBy(call'[c]) = {n}
  BY DEF n
<1>7. FdRule(c, t)
  BY <1>1, <1>3, <1>4, <1>5, <1>6 DEF FdRule
<1>. QED  BY <1>1, <1>3, <1>7 DEF n


\* The call x has its handle n on the file and goes to install it: it is y now.
Installing(x, y, n, created) ==
    /\ GoodCall(y) /\ y.t = x.t /\ PathIn(y) = PathIn(x) /\ y.pc = "install" /\ y.fd = n /\ y.created = created
    /\ y.entered = TRUE /\ x.entered = TRUE /\ y.excl = x.excl /\ HeldBy(y) = {n}

LEMMA InstallNext ==
    ASSUME NEW x \in BusyCalls, GoodCall(x), x.pc \in {"open", "createExcl", "reopen"}, NEW n \in Fds, NEW created \in Seq(AllFiles \cup AllDirs),
           \A k \in DOMAIN created : created[k] \in DirsOf(PathIn(x)) \/ (k = 1 /\ created[k] = PathIn(x)),
           NEW y, y = [x EXCEPT !.pc = "install", !.fd = n, !.created = created]
    PROVE  Installing(x, y, n, created)
<1>1. x.entered = TRUE
  BY DEF GoodCall, EnteredPcs, BusyCalls
<1>2. n \in 0..MaxFd
  BY BoundsAssumption DEF Fds
<1>3. /\ y \in BusyCalls /\ y.t = x.t /\ y.piece = x.piece /\ y.todo = x.todo /\ y.pc = "install" /\ y.fd = n
      /\ y.created = created /\ y.entered = x.entered /\ y.excl = x.excl
  BY <1>2 DEF BusyCalls, EnteredPcs
<1>4. PathIn(y) = PathIn(x) /\ HeldBy(y) = {n}
  BY <1>3 DEF PathIn, HeldBy
<1>5. GoodCall(y)
  BY <1>1, <1>3, <1>4 DEF GoodCall, LockedPcs
<1>. QED  BY <1>1, <1>3, <1>4, <1>5 DEF Installing

LEMMA OpenedStep ==
    ASSUME IInv, NEW c \in Callers, Busy(c), call[c].pc \in {"open", "reopen"}, Exists(Path(c)),
           NEW created \in Seq(AllFiles \cup AllDirs), \A k \in DOMAIN created : created[k] \in DirsOf(Path(c)),
           Opened(c, Path(c), created),
           UNCHANGED <<group, closed, closer, table, disk, content, acked, gone, dirs>>
    PROVE  IInv'
<1>0. PICK t \in Torrents : t = call[c].t
  BY CallFacts
<1>. DEFINE x == call[c]
            n == FreeFd
            e == OpenOn(c, Path(c), Write(c))
<1>1. /\ GoodCall(x) /\ LiveCall(x) /\ x \in BusyCalls /\ x.t = t /\ DOMAIN call = Callers
      /\ Path(c) = PathIn(x) /\ Path(c) \in AllFiles
  BY <1>0, CallFacts
<1>2. Real(Path(c)) \in DOMAIN disk
  <2>1. Real(Path(c)) \notin dirs
    BY <1>1, FilesAreNotDirs DEF IInv, Types
  <2>. QED  BY <2>1 DEF Exists
<1>3. e \in OpenFds /\ e.t = t /\ e.inode = disk[Real(Path(c))]
  <2>1. Write(c) \in BOOLEAN /\ InodeOf(Path(c)) \in Inodes /\ InodeOf(Path(c)) = disk[Real(Path(c))]
    BY <1>2 DEF Write, IInv, DiskInv, InodeOf
  <2>2. e = [t |-> t, inode |-> InodeOf(Path(c)), writable |-> Write(c)]
    BY <1>0 DEF OpenOn
  <2>. HIDE DEF e
  <2>. QED  BY <2>1, <2>2 DEF OpenFds
<1>4. /\ FreeFds # {} /\ fds' = [fds EXCEPT ![n] = e]
      /\ call' = [call EXCEPT ![c] = [x EXCEPT !.pc = "install", !.fd = n, !.created = created]]
  BY <1>1 DEF Opened
<1>5. n \in Fds
  BY <1>4 DEF FreeFds, FreeFd, Fds
<1>6. /\ DOMAIN call' = Callers /\ \A d \in Callers \ {c} : call'[d] = call[d]
      /\ call'[c] = [x EXCEPT !.pc = "install", !.fd = n, !.created = created]
  BY <1>1, <1>4
<1>. DEFINE y == call'[c]
<1>7. /\ GoodCall(y) /\ y.t = t /\ PathIn(y) = PathIn(x) /\ y.pc = "install" /\ y.fd = n /\ y.created = created
      /\ y.entered = TRUE /\ x.entered = TRUE /\ y.excl = x.excl /\ HeldBy(y) = {n}
  <2>1. \A k \in DOMAIN created : created[k] \in DirsOf(PathIn(x)) \/ (k = 1 /\ created[k] = PathIn(x))
    BY <1>1
  <2>2. y = [x EXCEPT !.pc = "install", !.fd = n, !.created = created] /\ x.pc \in {"open", "createExcl", "reopen"}
    BY <1>6
  <2>3. GoodCall(x) /\ x \in BusyCalls /\ x.t = t
    BY <1>1
  <2>. HIDE DEF x, n, y
  <2>4. Installing(x, y, n, created)
    BY <1>5, <2>1, <2>2, <2>3, InstallNext
  <2>. QED  BY <2>3, <2>4 DEF Installing
<1>8. /\ fds'[n] = e /\ fds[n] = NoFd /\ \A m \in Fds \ {n} : fds'[m] = fds[m]
      /\ FdRule(c, t) /\ fds' \in [Fds -> OpenFds \cup {NoFd}]
  <2>. HIDE DEF e
  <2>. QED  BY <1>3, <1>4, <1>7, OneMoreFd DEF n
<1>9. TableRule(c, t) /\ UNCHANGED InTab(t)
  BY SameTable
<1>. HIDE DEF x, n, y, e
<1>10. LiveCall(call[c])'
  BY <1>1, <1>7 DEF LiveCall, Discarding, y
<1>11. CallOnly(c, t) /\ CallRule(c, t)
  <2>1. DOMAIN table = Torrents
    BY DEF IInv, Types
  <2>. QED  BY <1>0, <1>6, <1>7, <1>10, <2>1 DEF CallOnly, CallRule, y, x
<1>12. DiscardRule(c, t)
  <2>1. ~Creator(y)
    <3>1. ASSUME created # <<>>, Head(created) = PathIn(x) PROVE FALSE
      <4>1. 1 \in DOMAIN created /\ Head(created) = created[1]
        BY <3>1, EmptySeq
      <4>2. Head(created) \in AllDirs
        BY <1>1, <4>1, MissingAreDirs
      <4>. QED  BY <1>1, <3>1, <4>2, FilesAreNotDirs
    <3>. QED  BY <1>7, <3>1 DEF Creator
  <2>. QED  BY <1>7, <2>1 DEF DiscardRule, y
<1>13. ~closed[t] => TableOn(t)'
  <2>1. ASSUME ~closed[t], NEW a \in Entries(table[t]) PROVE OnFile(PathOf[t][a.file], a.fd)'
    <3>1. OnFile(PathOf[t][a.file], a.fd)
      BY <2>1 DEF IInv, FileInv, TableOn
    <3>2. a.fd \in OpenFor(t)
      BY DEF IInv, FdInv, InTab
    <3>3. fds'[a.fd] = fds[a.fd]
      BY <1>8, <3>2 DEF OpenFor
    <3>. QED  BY <3>1, <3>3 DEF OnFile
  <2>. QED  BY <2>1 DEF TableOn
<1>14. CallOn(c)'
  <2>1. PathIn(y) = Path(c)
    BY <1>1, <1>7
  <2>2. \A g \in DOMAIN disk : disk[g] = fds'[n].inode => g = Real(Path(c))
    BY <1>2, <1>3, <1>8 DEF IInv, DiskInv
  <2>. QED  BY <1>2, <1>3, <1>7, <1>8, <2>1, <2>2 DEF CallOn, OnFile, y
<1>15. dirs' \subseteq {Real(d) : d \in AllDirs}
  BY DEF IInv, Types
<1>. QED
  BY <1>8, <1>9, <1>11, <1>12, <1>13, <1>14, <1>15, NothingWritten, OwnStep

LEMMA OpenExistingStep == ASSUME IInv, NEW c \in Callers, OpenExisting(c) PROVE IInv'
<1>0. PICK t \in Torrents : t = call[c].t
  BY CallFacts DEF OpenExisting, Busy
<1>. DEFINE x == call[c]
<1>1. /\ x.pc = "open" /\ Busy(c)
      /\ UNCHANGED <<group, closed, closer, table, disk, content, acked, gone, dirs>>
  BY DEF OpenExisting, Busy, diskVars, openVars, history, recordVars
<1>2. CASE Exists(Path(c)) /\ Opened(c, Path(c), <<>>)
  <2>1. <<>> \in Seq(AllFiles \cup AllDirs) /\ DOMAIN <<>> = {}
    OBVIOUS
  <2>. QED  BY <1>1, <1>2, <2>1, OpenedStep
<1>3. CASE /\ UNCHANGED fds
           /\ IF ~Write(c) THEN Onward(c, FALSE) ELSE IF closed[t] THEN Fail(c) ELSE Goto(c, "create")
  <2>1. CASE Onward(c, FALSE)
    BY <1>1, <1>3, <2>1, NothingWritten, OnwardStep
  <2>2. CASE Fail(c)
    BY <1>1, <1>3, <2>2, NothingWritten, EndStep
  <2>3. CASE Goto(c, "create") /\ ~closed[t]
    <3>1. GoodCall(x) /\ LiveCall(x) /\ x \in BusyCalls /\ x.t = t /\ DOMAIN call = Callers
      BY <1>0, <1>1, CallFacts
    <3>2. /\ DOMAIN call' = Callers /\ \A d \in Callers \ {c} : call'[d] = call[d]
          /\ call'[c] = [x EXCEPT !.pc = "create"]
      BY <2>3, <3>1 DEF Goto
    <3>3. /\ call'[c].pc = "create" /\ call'[c] \in BusyCalls /\ call'[c].t = t /\ call'[c].piece = x.piece
          /\ call'[c].todo = x.todo /\ call'[c].entered = x.entered /\ call'[c].excl = x.excl
          /\ call'[c].created = x.created
      <4>. HIDE DEF x
      <4>. QED  BY <3>1, <3>2 DEF BusyCalls, EnteredPcs
    <3>4. GoodCall(call'[c])
      BY <1>1, <3>1, <3>3 DEF GoodCall, EnteredPcs, LockedPcs, PathIn
    <3>5. LiveCall(call[c])'
      BY <1>1, <3>1, <3>3 DEF LiveCall, Discarding
    <3>6. call'[c].entered /\ closed[t] => Busy(c) /\ x.entered
      BY <1>1, <3>3
    <3>7. dirs' \subseteq {Real(d) : d \in AllDirs}
      BY <1>1 DEF IInv, Types
    <3>. QED
      BY <1>0, <1>1, <1>3, <3>2, <3>3, <3>4, <3>5, <3>6, <3>7, NothingWritten, GotoStep DEF Discarding
  <2>. QED  BY <1>3, <2>1, <2>2, <2>3
<1>4. \/ Exists(Path(c)) /\ Opened(c, Path(c), <<>>)
      \/ /\ UNCHANGED fds
         /\ IF ~Write(c) THEN Onward(c, FALSE) ELSE IF closed[call[c].t] THEN Fail(c) ELSE Goto(c, "create")
  BY DEF OpenExisting
<1>. QED  BY <1>0, <1>2, <1>3, <1>4

LEMMA ListMissingStep == ASSUME IInv, NEW c \in Callers, ListMissing(c) PROVE IInv'
<1>0. PICK t \in Torrents : t = call[c].t
  BY CallFacts DEF ListMissing, Busy
<1>. DEFINE x == call[c]
            m == MissingDirs(Path(c))
<1>1. /\ x.pc = "create" /\ Busy(c)
      /\ UNCHANGED <<group, closed, closer, table, fds, disk, content, acked, gone, dirs>>
  BY DEF ListMissing, Busy, diskVars, openVars, history, recordVars
<1>2. GoodCall(x) /\ LiveCall(x) /\ x \in BusyCalls /\ x.t = t /\ DOMAIN call = Callers /\ Path(c) = PathIn(x)
  BY <1>0, <1>1, CallFacts
<1>3. m \in Seq(AllFiles \cup AllDirs) /\ \A k \in DOMAIN m : m[k] \in DirsOf(PathIn(x))
  BY <1>1, <1>2, CallFacts, MissingAreDirs
<1>4. /\ DOMAIN call' = Callers /\ \A d \in Callers \ {c} : call'[d] = call[d]
      /\ call'[c] = [x EXCEPT !.pc = "mkdir", !.created = m]
  BY <1>2 DEF ListMissing
<1>5. /\ call'[c].pc = "mkdir" /\ call'[c] \in BusyCalls /\ call'[c].t = t /\ call'[c].piece = x.piece
      /\ call'[c].todo = x.todo /\ call'[c].entered = x.entered /\ call'[c].excl = x.excl
      /\ call'[c].created = m
  <2>. HIDE DEF x, m
  <2>. QED  BY <1>2, <1>3, <1>4 DEF BusyCalls, EnteredPcs
<1>. HIDE DEF m
<1>6. GoodCall(call'[c])
  BY <1>1, <1>2, <1>3, <1>5 DEF GoodCall, EnteredPcs, LockedPcs, PathIn
<1>7. LiveCall(call[c])'
  BY <1>1, <1>2, <1>5 DEF LiveCall, Discarding
<1>8. call'[c].entered /\ closed[t] => Busy(c) /\ x.entered
  BY <1>1, <1>5
<1>9. dirs' \subseteq {Real(d) : d \in AllDirs}
  BY <1>1 DEF IInv, Types
<1>. QED
  BY <1>0, <1>1, <1>4, <1>5, <1>6, <1>7, <1>8, <1>9, NothingWritten, GotoStep DEF Discarding

\* A call goes on, having created directories or found its file there already.
LEMMA NextPcStep ==
    ASSUME IInv, NEW c \in Callers, Busy(c), call[c].pc \in {"mkdir", "createExcl"}, NEW pc \in {"createExcl", "reopen"},
           Goto(c, pc), UNCHANGED <<group, closed, closer, table, fds, disk, content, acked, gone>>,
           dirs' \subseteq {Real(d) : d \in AllDirs}
    PROVE  IInv'
<1>0. PICK t \in Torrents : t = call[c].t
  BY CallFacts
<1>. DEFINE x == call[c]
<1>2. GoodCall(x) /\ LiveCall(x) /\ x \in BusyCalls /\ x.t = t /\ DOMAIN call = Callers
  BY <1>0, CallFacts
<1>4. /\ DOMAIN call' = Callers /\ \A d \in Callers \ {c} : call'[d] = call[d]
      /\ call'[c] = [x EXCEPT !.pc = pc]
  BY <1>2 DEF Goto
<1>5. /\ call'[c].pc = pc /\ call'[c] \in BusyCalls /\ call'[c].t = t /\ call'[c].piece = x.piece
      /\ call'[c].todo = x.todo /\ call'[c].entered = x.entered /\ call'[c].excl = x.excl
      /\ call'[c].created = x.created
  <2>. HIDE DEF x
  <2>. QED  BY <1>2, <1>4 DEF BusyCalls, EnteredPcs
<1>6. GoodCall(call'[c])
  BY <1>2, <1>5 DEF GoodCall, EnteredPcs, LockedPcs, PathIn
<1>7. LiveCall(call[c])'
  BY <1>2, <1>5 DEF LiveCall, Discarding
<1>8. call'[c].entered /\ closed[t] => Busy(c) /\ x.entered
  BY <1>5
<1>. QED
  BY <1>0, <1>4, <1>5, <1>6, <1>7, <1>8, NothingWritten, GotoStep DEF Discarding

LEMMA MkdirAllStep == ASSUME IInv, NEW c \in Callers, MkdirAll(c) PROVE IInv'
<1>1. /\ call[c].pc = "mkdir" /\ Busy(c) /\ Goto(c, "createExcl")
      /\ UNCHANGED <<group, closed, closer, table, fds, disk, content, acked, gone>>
  BY DEF MkdirAll, Busy, openVars, history, recordVars
<1>2. \A k \in DOMAIN Above(Path(c)) : Above(Path(c))[k] \in AllDirs
  BY <1>1, CallFacts DEF AllDirs, DirsOf
<1>3. dirs' \subseteq {Real(d) : d \in AllDirs}
  BY <1>2 DEF MkdirAll, IInv, Types
<1>. QED  BY <1>1, <1>3, NextPcStep

LEMMA ReopenStep == ASSUME IInv, NEW c \in Callers, Reopen(c) PROVE IInv'
<1>1. /\ call[c].pc = "reopen" /\ Busy(c)
      /\ UNCHANGED <<group, closed, closer, table, disk, content, acked, gone, dirs>>
  BY DEF Reopen, Busy, diskVars, openVars, history, recordVars
<1>2. CASE Exists(Path(c)) /\ Opened(c, Path(c), call[c].created)
  <2>1. /\ call[c].created \in Seq(AllFiles \cup AllDirs)
        /\ \A k \in DOMAIN call[c].created : call[c].created[k] \in DirsOf(Path(c))
    BY <1>1, CallFacts DEF GoodCall, BusyCalls
  <2>. QED  BY <1>1, <1>2, <2>1, OpenedStep
<1>3. CASE Fail(c) /\ UNCHANGED fds
  BY <1>1, <1>3, NothingWritten, EndStep
<1>. QED  BY <1>2, <1>3 DEF Reopen

----------------------------------------------------------------------------
(* The steps that put a handle in the table, and those that close one. *)

\* A call closes what it holds.
LEMMA ReleaseStep ==
    ASSUME IInv, NEW c \in Callers, NEW t \in Torrents, t = call[c].t, Busy(c),
           CallOnly(c, t), CallRule(c, t), DiscardRule(c, t),
           UNCHANGED <<table, disk, content, acked, gone, dirs>>, Closing(HeldBy(call[c])),
           HeldBy(call'[c]) = {}, call'[c].pc # "install"
    PROVE  IInv'
<1>. DEFINE H == HeldBy(call[c])
<1>1. TableRule(c, t) /\ UNCHANGED InTab(t)
  BY SameTable
<1>2. H \subseteq OpenFor(t) /\ H \cap InTab(t) = {} /\ InTab(t) \subseteq OpenFor(t) /\ Apart(table[t])
  BY CallFacts DEF IInv, FdInv
<1>. HIDE DEF H
<1>3. fds' = [n \in DOMAIN fds |-> IF n \in H THEN NoFd ELSE fds[n]] /\ DOMAIN fds = Fds
  BY DEF H, Closing, IInv, Types
<1>4. fds' \in [Fds -> OpenFds \cup {NoFd}] /\ \A n \in Fds : fds'[n] = fds[n] \/ n \in H
  BY <1>3 DEF IInv, Types
<1>5. \A n \in InTab(t) : n \in OpenFor(t)'
  BY <1>2, <1>4 DEF OpenFor
<1>6. FdRule(c, t)
  BY <1>1, <1>2, <1>4, <1>5 DEF FdRule, H
<1>7. ~closed[t] => TableOn(t)'
  <2>1. ASSUME ~closed[t], NEW a \in Entries(table[t]) PROVE OnFile(PathOf[t][a.file], a.fd)'
    <3>1. OnFile(PathOf[t][a.file], a.fd)
      BY <2>1 DEF IInv, FileInv, TableOn
    <3>2. a.fd \in InTab(t)
      BY DEF InTab
    <3>3. fds'[a.fd] = fds[a.fd]
      BY <1>2, <1>4, <3>2 DEF OpenFor
    <3>. QED  BY <3>1, <3>3 DEF OnFile
  <2>. QED  BY <2>1 DEF TableOn
<1>8. CallOn(c)'
  BY DEF CallOn
<1>9. dirs' \subseteq {Real(d) : d \in AllDirs}
  BY DEF IInv, Types
<1>. QED  BY <1>1, <1>4, <1>6, <1>7, <1>8, <1>9, NothingWritten, OwnStep

\* A call that has the lock to itself: no operation uses the table.
LEMMA Alone ==
    ASSUME NEW t \in Torrents, ExclusiveFree(t), NEW d \in Callers, On(d, t)
    PROVE  call[d].pc # "op"
BY DEF ExclusiveFree

\* The table makes room for a handle: what leaves it is held by the call, or closed.
LEMMA RoomFds ==
    ASSUME IInv, NEW t \in Torrents, NEW i
    PROVE  /\ Room(t, i) \in Seq(Handles(t)) /\ Apart(Room(t, i)) /\ Entries(Room(t, i)) \subseteq Entries(table[t])
           /\ {e.fd : e \in Entries(Room(t, i))} \subseteq InTab(t)
           /\ Leaving(t, i) = InTab(t) \ {e.fd : e \in Entries(Room(t, i))} /\ InTab(t) \subseteq OpenFor(t)
<1>1. table[t] \in Seq(Handles(t)) /\ Apart(table[t]) /\ InTab(t) \subseteq OpenFor(t)
  BY DEF IInv, Types, FdInv
<1>2. /\ Room(t, i) \in Seq(Handles(t)) /\ Apart(Room(t, i)) /\ Entries(Room(t, i)) \subseteq Entries(table[t])
      /\ Leaving(t, i) = {e.fd : e \in Entries(table[t])} \ {e.fd : e \in Entries(Room(t, i))}
  BY <1>1, RoomEntries
<1>. QED  BY <1>1, <1>2 DEF InTab

LEMMA CloseOutStep == ASSUME IInv, NEW c \in Callers, CloseOut(c) PROVE IInv'
<1>0. PICK t \in Torrents : t = call[c].t
  BY CallFacts DEF CloseOut, Busy
<1>. DEFINE x == call[c]
            y == [x EXCEPT !.pc = "retry", !.out = {}]
<1>1. /\ x.pc = "closeOut" /\ Busy(c) /\ HeldBy(x) = x.out
      /\ UNCHANGED <<group, closed, closer, table, disk, content, acked, gone, dirs>>
  BY DEF CloseOut, Busy, HeldBy, diskVars, openVars, history, recordVars
<1>2. GoodCall(x) /\ LiveCall(x) /\ x \in BusyCalls /\ x.t = t /\ DOMAIN call = Callers /\ DOMAIN table = Torrents
  BY <1>0, <1>1, CallFacts
<1>3. DOMAIN call' = Callers /\ (\A d \in Callers \ {c} : call'[d] = call[d]) /\ call'[c] = y /\ Closing(HeldBy(x))
  BY <1>1, <1>2 DEF CloseOut
<1>. HIDE DEF x
<1>4. /\ y.pc = "retry" /\ y \in BusyCalls /\ y.t = t /\ y.piece = x.piece
      /\ y.todo = x.todo /\ y.entered = x.entered /\ y.excl = x.excl /\ y.created = x.created
  BY <1>2 DEF BusyCalls, EnteredPcs
<1>. HIDE DEF y
<1>5. GoodCall(y)
  BY <1>1, <1>2, <1>4 DEF GoodCall, EnteredPcs, LockedPcs, PathIn
<1>6. LiveCall(call[c])'
  BY <1>1, <1>2, <1>3, <1>4 DEF LiveCall, Discarding
<1>7. CallOnly(c, t) /\ CallRule(c, t)
  BY <1>1, <1>2, <1>3, <1>4, <1>5, <1>6 DEF CallOnly, CallRule, x
<1>8. DiscardRule(c, t) /\ HeldBy(call'[c]) = {}
  BY <1>3, <1>4 DEF DiscardRule, Creator, Discarding, HeldBy
<1>. QED  BY <1>0, <1>1, <1>3, <1>4, <1>7, <1>8, ReleaseStep DEF x

LEMMA DiscardListStep == ASSUME IInv, NEW c \in Callers, DiscardList(c) PROVE IInv'
<1>0. PICK t \in Torrents : t = call[c].t
  BY CallFacts DEF DiscardList, Busy
<1>. DEFINE x == call[c]
            y == [x EXCEPT !.pc = "check", !.others = OtherFiles(t)]
<1>1. /\ x.pc = "discard" /\ Busy(c) /\ HeldBy(x) = {x.fd} /\ Closing({x.fd})
      /\ UNCHANGED <<group, closed, closer, table, disk, content, acked, gone, dirs>>
  BY DEF DiscardList, Busy, HeldBy, diskVars, openVars, history, recordVars
<1>2. GoodCall(x) /\ LiveCall(x) /\ x \in BusyCalls /\ x.t = t /\ DOMAIN call = Callers /\ DOMAIN table = Torrents
  BY <1>0, <1>1, CallFacts
<1>3. CASE Fail(c)
  <2>1. call'[c] = Idle /\ DOMAIN call' = Callers /\ \A d \in Callers \ {c} : call'[d] = call[d]
    BY <1>2, <1>3 DEF Fail
  <2>2. call'[c].pc = "idle"
    BY <2>1 DEF Idle
  <2>3. CallOnly(c, t) /\ CallRule(c, t) /\ DiscardRule(c, t)
    BY <1>1, <1>2, <2>1, <2>2 DEF CallOnly, CallRule, DiscardRule, Busy, Creator, Discarding
  <2>. QED  BY <1>0, <1>1, <2>2, <2>3, ReleaseStep DEF HeldBy
<1>4. CASE x.created # <<>> /\ call' = [call EXCEPT ![c].pc = "check", ![c].others = OtherFiles(x.t)]
  <2>1. DOMAIN call' = Callers /\ (\A d \in Callers \ {c} : call'[d] = call[d]) /\ call'[c] = y
    BY <1>2, <1>4
  <2>2. OtherFiles(t) \subseteq AllFiles /\ \A u \in group \ {t} : PathsOf(u) \subseteq OtherFiles(t)
    BY DEF OtherFiles, AllFiles, IInv, Types
  <2>. HIDE DEF x
  <2>3. /\ y.pc = "check" /\ y \in BusyCalls /\ y.t = t /\ y.piece = x.piece
        /\ y.todo = x.todo /\ y.entered = x.entered /\ y.excl = x.excl /\ y.created = x.created
        /\ y.others = OtherFiles(t)
    BY <1>2, <2>2 DEF BusyCalls, EnteredPcs
  <2>. HIDE DEF y
  <2>4. GoodCall(y) /\ PathIn(y) = PathIn(x)
    BY <1>1, <1>2, <1>4, <2>3 DEF GoodCall, EnteredPcs, LockedPcs, PathIn
  <2>5. LiveCall(call[c])'
    BY <1>1, <1>2, <2>1, <2>3 DEF LiveCall, Discarding
  <2>6. CallOnly(c, t) /\ CallRule(c, t)
    BY <1>1, <1>2, <2>1, <2>3, <2>4, <2>5 DEF CallOnly, CallRule, x
  <2>7. DiscardRule(c, t) /\ HeldBy(call'[c]) = {}
    BY <1>1, <2>1, <2>2, <2>3, <2>4 DEF DiscardRule, Creator, Discarding, HeldBy, x
  <2>. QED  BY <1>0, <1>1, <2>1, <2>3, <2>6, <2>7, ReleaseStep DEF x
<1>. QED  BY <1>3, <1>4 DEF DiscardList

\* install gives up: Close has begun, and what was created is to be discarded.
LEMMA InstallLateStep ==
    ASSUME IInv, NEW c \in Callers, Install(c), closed[call[c].t], UNCHANGED table,
           call' = [call EXCEPT ![c].pc = "discard", ![c].keep = InTable(call[c].t)]
    PROVE  IInv'
<1>0. PICK t \in Torrents : t = call[c].t
  BY CallFacts DEF Install, Busy
<1>. DEFINE x == call[c]
            y == [x EXCEPT !.pc = "discard", !.keep = InTable(t)]
<1>1. /\ x.pc = "install" /\ Busy(c) /\ HeldBy(x) = {x.fd}
      /\ UNCHANGED <<group, closed, closer, table, fds, disk, content, acked, gone, dirs>>
  BY DEF Install, Busy, HeldBy, diskVars, openVars, history, recordVars
<1>2. GoodCall(x) /\ LiveCall(x) /\ x \in BusyCalls /\ x.t = t /\ DOMAIN call = Callers /\ DOMAIN table = Torrents
  BY <1>0, <1>1, CallFacts
<1>3. DOMAIN call' = Callers /\ (\A d \in Callers \ {c} : call'[d] = call[d]) /\ call'[c] = y
  BY <1>0, <1>2
<1>4. InTable(t) \subseteq AllFiles
  <2>1. table[t] \in Seq(Handles(t))
    BY DEF IInv, Types
  <2>2. \A k \in DOMAIN table[t] : table[t][k].file \in DOMAIN PathOf[t]
    <3>1. \A k \in DOMAIN table[t] : table[t][k] \in Handles(t)
      BY <2>1
    <3>. QED  BY <3>1 DEF Handles
  <2>. QED  BY <2>2 DEF InTable, AllFiles, PathsOf
<1>5. closed[t]
  BY <1>0
<1>. HIDE DEF x
<1>6. /\ y.pc = "discard" /\ y \in BusyCalls /\ y.t = t /\ y.piece = x.piece
      /\ y.todo = x.todo /\ y.entered = x.entered /\ y.excl = x.excl /\ y.created = x.created /\ y.fd = x.fd
  BY <1>2, <1>4 DEF BusyCalls, EnteredPcs
<1>7. x.excl = FALSE /\ x.entered = TRUE
  BY <1>1, <1>2, <1>5 DEF LiveCall, GoodCall, BusyCalls, EnteredPcs
<1>. HIDE DEF y
<1>8. GoodCall(y) /\ PathIn(y) = PathIn(x)
  BY <1>1, <1>2, <1>6, <1>7 DEF GoodCall, EnteredPcs, LockedPcs, PathIn
<1>9. LiveCall(call[c])'
  <2>1. t \in group /\ closed'[t] /\ group' = group
    BY <1>1, <1>2, <1>5, <1>7 DEF LiveCall
  <2>. QED  BY <1>3, <1>6, <1>7, <2>1 DEF LiveCall
<1>10. CallOnly(c, t) /\ CallRule(c, t)
  BY <1>1, <1>2, <1>3, <1>6, <1>7, <1>8, <1>9 DEF CallOnly, CallRule, x
<1>11. DiscardRule(c, t) /\ HeldBy(call'[c]) \subseteq HeldBy(call[c]) /\ call'[c].pc # "install"
  BY <1>1, <1>3, <1>6, <1>8 DEF DiscardRule, Creator, Discarding, HeldBy, x
<1>12. dirs' \subseteq {Real(d) : d \in AllDirs}
  BY <1>1 DEF IInv, Types
<1>. QED  BY <1>1, <1>10, <1>11, <1>12, NothingWritten, QuietStep

\* install goes to close what left the table, or its own handle if it was beaten.
Evicting(x, y, out) ==
    /\ GoodCall(y) /\ y.pc = "closeOut" /\ y.t = x.t /\ y.entered = TRUE /\ x.entered = TRUE
    /\ y.excl = FALSE /\ HeldBy(y) = out

LEMMA ClosingOut ==
    ASSUME NEW x \in BusyCalls, GoodCall(x), x.pc = "install", ~x.excl, NEW out \in SUBSET Fds,
           NEW y, y = [x EXCEPT !.pc = "closeOut", !.out = out]
    PROVE  Evicting(x, y, out)
<1>1. /\ y.pc = "closeOut" /\ y \in BusyCalls /\ y.t = x.t /\ y.piece = x.piece
      /\ y.todo = x.todo /\ y.entered = x.entered /\ y.excl = x.excl /\ y.created = x.created /\ y.out = out
  BY DEF BusyCalls, EnteredPcs
<1>2. x.excl = FALSE /\ x.entered = TRUE
  BY DEF GoodCall, BusyCalls, EnteredPcs
<1>3. GoodCall(y)
  BY <1>1, <1>2 DEF GoodCall, EnteredPcs, LockedPcs, PathIn
<1>4. HeldBy(y) = out
  BY <1>1 DEF HeldBy
<1>. QED  BY <1>1, <1>2, <1>3, <1>4 DEF Evicting

LEMMA InstallStep == ASSUME IInv, NEW c \in Callers, Install(c) PROVE IInv'
<1>0. PICK t \in Torrents : t = call[c].t
  BY CallFacts DEF Install, Busy
<1>. DEFINE x == call[c]
            i == File(c)
            n == x.fd
            y == call'[c]
<1>1. /\ x.pc = "install" /\ ~x.excl /\ Busy(c) /\ HeldBy(x) = {n} /\ ExclusiveFree(t)
      /\ UNCHANGED <<group, closed, closer, fds, disk, content, acked, gone, dirs>>
  BY <1>0 DEF Install, Busy, HeldBy, diskVars, openVars, history, recordVars
<1>2. /\ GoodCall(x) /\ LiveCall(x) /\ x \in BusyCalls /\ x.t = t /\ DOMAIN call = Callers /\ DOMAIN table = Torrents
      /\ Path(c) = PathIn(x) /\ i \in DOMAIN PathOf[t]
  BY <1>0, <1>1, CallFacts
<1>3. n \in OpenFor(t) /\ n \notin InTab(t) /\ n \in Fds /\ t \in group
  BY <1>0, <1>1, <1>2, CallFacts DEF GoodCall, EnteredPcs, LiveCall
<1>4. dirs' \subseteq {Real(d) : d \in AllDirs}
  BY <1>1 DEF IInv, Types
<1>5. CASE /\ closed[t] /\ UNCHANGED table
           /\ call' = [call EXCEPT ![c].pc = "discard", ![c].keep = InTable(t)]
  BY <1>0, <1>5, InstallLateStep
<1>6. ASSUME ~closed[t], NEW out \in SUBSET Fds, call' = [call EXCEPT ![c].pc = "closeOut", ![c].out = out]
      PROVE  /\ CallRule(c, t) /\ DiscardRule(c, t) /\ HeldBy(call'[c]) = out /\ call'[c].pc # "install" /\ call'[c].t = t
             /\ DOMAIN call' = Callers /\ \A d \in Callers \ {c} : call'[d] = call[d]
  <2>1. /\ DOMAIN call' = Callers /\ \A d \in Callers \ {c} : call'[d] = call[d]
        /\ y = [x EXCEPT !.pc = "closeOut", !.out = out]
    BY <1>2, <1>6
  <2>2. /\ GoodCall(y) /\ y.pc = "closeOut" /\ y.t = x.t /\ y.entered = TRUE /\ x.entered = TRUE
        /\ y.excl = FALSE /\ HeldBy(y) = out
    <3>. HIDE DEF x, y, n, i
    <3>1. Evicting(x, y, out)
      BY <1>1, <1>2, <2>1, ClosingOut
    <3>. QED  BY <3>1 DEF Evicting
  <2>. HIDE DEF y
  <2>3. LiveCall(call[c])'
    BY <1>1, <1>2, <1>3, <2>2 DEF LiveCall, Discarding, y
  <2>. QED
    BY <1>1, <1>2, <2>1, <2>2, <2>3 DEF CallRule, DiscardRule, Creator, Discarding, y
<1>7. CASE /\ ~closed[t] /\ UNCHANGED table
           /\ call' = [call EXCEPT ![c].pc = "closeOut", ![c].out = {n}]
  <2>1. {n} \in SUBSET Fds
    BY <1>3
  <2>2. /\ CallRule(c, t) /\ DiscardRule(c, t) /\ HeldBy(call'[c]) = {n} /\ call'[c].pc # "install" /\ call'[c].t = t
        /\ DOMAIN call' = Callers /\ \A d \in Callers \ {c} : call'[d] = call[d]
    BY <1>6, <1>7, <2>1
  <2>3. CallOnly(c, t)
    BY <1>1, <1>2, <1>7, <2>2 DEF CallOnly
  <2>. QED  BY <1>1, <1>4, <1>7, <2>2, <2>3, NothingWritten, QuietStep
<1>8. CASE /\ ~closed[t]
           /\ table' = [table EXCEPT ![t] = Append(Room(t, i), [file |-> i, fd |-> n])]
           /\ call' = [call EXCEPT ![c].pc = "closeOut", ![c].out = Leaving(t, i)]
  <2>. DEFINE e == [file |-> i, fd |-> n]
              r == Room(t, i)
              R == {a.fd : a \in Entries(r)}
              out == Leaving(t, i)
  <2>1. /\ r \in Seq(Handles(t)) /\ Apart(r) /\ Entries(r) \subseteq Entries(table[t])
        /\ R \subseteq InTab(t) /\ out = InTab(t) \ R /\ InTab(t) \subseteq OpenFor(t)
    BY RoomFds
  <2>2. e \in Handles(t) /\ e.fd \notin R
    BY <1>2, <1>3, <2>1 DEF Handles
  <2>3. /\ Append(r, e) \in Seq(Handles(t)) /\ Apart(Append(r, e)) /\ Entries(Append(r, e)) = Entries(r) \cup {e}
    BY <2>1, <2>2, AppendEntries
  <2>4. /\ table'[t] = Append(r, e) /\ \A u \in Torrents \ {t} : table'[u] = table[u]
        /\ DOMAIN table' = Torrents
    BY <1>2, <1>8
  <2>5. out \in SUBSET Fds
    BY <2>1 DEF OpenFor
  <2>6. /\ CallRule(c, t) /\ DiscardRule(c, t) /\ HeldBy(call'[c]) = out /\ call'[c].pc # "install" /\ call'[c].t = t
        /\ DOMAIN call' = Callers /\ \A d \in Callers \ {c} : call'[d] = call[d]
    BY <1>6, <1>8, <2>5
  <2>. HIDE DEF r, out, x, i, n
  <2>7. CallOnly(c, t)
    BY <1>1, <1>2, <2>4, <2>6 DEF CallOnly, x
  <2>8. TableRule(c, t)
    BY <1>1, <1>3, <1>8, <2>3, <2>4, Alone DEF TableRule
  <2>9. InTab(t)' = R \cup {n} /\ OpenFor(t)' = OpenFor(t)
    BY <1>1, <2>3, <2>4 DEF InTab, OpenFor
  <2>10. FdRule(c, t)
    BY <1>1, <1>3, <2>1, <2>3, <2>4, <2>6, <2>9 DEF FdRule, x
  <2>11. TableOn(t)'
    <3>1. \A a \in Entries(table[t]) : OnFile(PathOf[t][a.file], a.fd)
      BY <1>8 DEF IInv, FileInv, TableOn
    <3>2. OnFile(PathOf[t][i], n)
      <4>1. PathOf[t][i] = PathIn(x)
        BY <1>2 DEF Path, i, x
      <4>. QED  BY <1>1, <1>2, <1>8, <4>1 DEF IInv, FileInv, CallOn, x, n
    <3>3. \A a \in Entries(table'[t]) : OnFile(PathOf[t][a.file], a.fd)
      BY <2>1, <2>3, <2>4, <3>1, <3>2
    <3>. QED  BY <1>1, <3>3 DEF TableOn, OnFile
  <2>12. CallOn(c)'
    BY <2>6 DEF CallOn
  <2>13. fds' \in [Fds -> OpenFds \cup {NoFd}]
    BY <1>1 DEF IInv, Types
  <2>. QED  BY <1>1, <1>4, <2>6, <2>7, <2>8, <2>10, <2>11, <2>12, <2>13, NothingWritten, OwnStep
<1>9. \/ /\ closed[call[c].t] /\ UNCHANGED table
         /\ call' = [call EXCEPT ![c].pc = "discard", ![c].keep = InTable(call[c].t)]
      \/ /\ ~closed[call[c].t] /\ UNCHANGED table
         /\ call' = [call EXCEPT ![c].pc = "closeOut", ![c].out = {call[c].fd}]
      \/ /\ ~closed[call[c].t]
         /\ table' = [table EXCEPT ![call[c].t] = Append(Room(call[c].t, File(c)), [file |-> File(c), fd |-> call[c].fd])]
         /\ call' = [call EXCEPT ![c].pc = "closeOut", ![c].out = Leaving(call[c].t, File(c))]
  BY DEF Install
<1>. QED  BY <1>0, <1>5, <1>7, <1>8, <1>9

LEMMA LastResortStep == ASSUME IInv, NEW c \in Callers, LastResort(c) PROVE IInv'
<1>0. PICK t \in Torrents : t = call[c].t
  BY CallFacts DEF LastResort, Busy
<1>. DEFINE x == call[c]
            i == File(c)
            y == call'[c]
<1>1. /\ x.pc = "lock" /\ Busy(c) /\ HeldBy(x) = {} /\ ExclusiveFree(t)
      /\ UNCHANGED <<group, closed, closer, disk, content, acked, gone, dirs>>
  BY <1>0 DEF LastResort, Busy, HeldBy, diskVars, openVars, history, recordVars
<1>2. /\ GoodCall(x) /\ LiveCall(x) /\ x \in BusyCalls /\ x.t = t /\ DOMAIN call = Callers /\ DOMAIN table = Torrents
  BY <1>0, <1>1, CallFacts
<1>3. dirs' \subseteq {Real(d) : d \in AllDirs}
  BY <1>1 DEF IInv, Types
<1>4. CASE Fail(c) /\ UNCHANGED <<table, fds>>
  BY <1>1, <1>4, NothingWritten, EndStep
<1>5. CASE /\ ~closed[t] /\ Fits(t, i, Write(c)) /\ UNCHANGED fds
           /\ table' = [table EXCEPT ![t] = Touched(t, i)]
           /\ call' = [call EXCEPT ![c].pc = "op", ![c].excl = TRUE, ![c].fd = Handle(t, i).fd]
  <2>1. call' = [call EXCEPT ![c] = [@ EXCEPT !.pc = "op", !.excl = TRUE, !.fd = Handle(t, i).fd]]
    BY <1>2, <1>5
  <2>. QED  BY <1>0, <1>1, <1>5, <2>1, UseStep DEF Fits
<1>6. CASE /\ ~closed[t]
           /\ table' = [table EXCEPT ![t] = Room(t, i)]
           /\ Closing(Leaving(t, i))
           /\ call' = [call EXCEPT ![c].pc = "open", ![c].excl = TRUE]
  <2>. DEFINE r == Room(t, i)
              R == {a.fd : a \in Entries(r)}
              out == Leaving(t, i)
  <2>1. /\ r \in Seq(Handles(t)) /\ Apart(r) /\ Entries(r) \subseteq Entries(table[t])
        /\ R \subseteq InTab(t) /\ out = InTab(t) \ R /\ InTab(t) \subseteq OpenFor(t)
    BY RoomFds
  <2>2. /\ table'[t] = r /\ \A u \in Torrents \ {t} : table'[u] = table[u]
        /\ DOMAIN table' = Torrents
    BY <1>2, <1>6
  <2>3. /\ DOMAIN call' = Callers /\ \A d \in Callers \ {c} : call'[d] = call[d]
        /\ y = [x EXCEPT !.pc = "open", !.excl = TRUE]
    BY <1>2, <1>6
  <2>. HIDE DEF r, out
  <2>4. /\ fds' = [n \in Fds |-> IF n \in out THEN NoFd ELSE fds[n]]
        /\ fds' \in [Fds -> OpenFds \cup {NoFd}]
    BY <1>6 DEF Closing, out, IInv, Types
  <2>. HIDE DEF x, y, i
  <2>5. /\ y.pc = "open" /\ y \in BusyCalls /\ y.t = t /\ y.piece = x.piece
        /\ y.todo = x.todo /\ y.entered = x.entered /\ y.excl = TRUE /\ y.created = x.created
    BY <1>2, <2>3 DEF BusyCalls, EnteredPcs
  <2>6. x.entered = TRUE /\ t \in group
    BY <1>1, <1>2 DEF GoodCall, EnteredPcs, LiveCall, BusyCalls
  <2>7. GoodCall(y)
    BY <1>1, <1>2, <2>5, <2>6 DEF GoodCall, LockedPcs, PathIn
  <2>8. LiveCall(call[c])'
    BY <1>1, <1>6, <2>5, <2>6 DEF LiveCall, Discarding, y
  <2>9. CallOnly(c, t) /\ CallRule(c, t)
    BY <1>1, <1>2, <2>2, <2>3, <2>5, <2>6, <2>7, <2>8 DEF CallOnly, CallRule, x, y
  <2>10. DiscardRule(c, t) /\ HeldBy(y) = {}
    BY <2>5 DEF DiscardRule, Creator, Discarding, HeldBy, y
  <2>11. TableRule(c, t)
    BY <1>1, <1>6, <2>1, <2>2, <2>6, Alone DEF TableRule
  <2>12. InTab(t)' = R
    BY <2>2 DEF InTab
  <2>13. \A n \in R : n \in Fds /\ n \notin out /\ fds'[n] = fds[n]
    BY <2>1, <2>4 DEF OpenFor
  <2>14. R \subseteq OpenFor(t)'
    BY <2>1, <2>13 DEF OpenFor
  <2>15. FdRule(c, t)
    <3>1. \A n \in Fds : fds'[n] = fds[n] \/ n \in InTab(t)
      BY <2>1, <2>4
    <3>. QED  BY <2>1, <2>2, <2>10, <2>12, <2>14, <3>1 DEF FdRule, y
  <2>16. TableOn(t)'
    <3>1. \A a \in Entries(r) : OnFile(PathOf[t][a.file], a.fd) /\ fds'[a.fd] = fds[a.fd]
      BY <1>6, <2>1, <2>13 DEF IInv, FileInv, TableOn
    <3>. QED  BY <1>1, <2>2, <3>1 DEF TableOn, OnFile
  <2>17. CallOn(c)'
    BY <2>5 DEF CallOn, y
  <2>. QED  BY <1>1, <1>3, <2>4, <2>9, <2>10, <2>11, <2>15, <2>16, <2>17, NothingWritten, OwnStep
<1>7. \/ Fail(c) /\ UNCHANGED <<table, fds>>
      \/ /\ ~closed[call[c].t] /\ Fits(call[c].t, File(c), Write(c)) /\ UNCHANGED fds
         /\ table' = [table EXCEPT ![call[c].t] = Touched(call[c].t, File(c))]
         /\ call' = [call EXCEPT ![c].pc = "op", ![c].excl = TRUE, ![c].fd = Handle(call[c].t, File(c)).fd]
      \/ /\ ~closed[call[c].t]
         /\ table' = [table EXCEPT ![call[c].t] = Room(call[c].t, File(c))]
         /\ Closing(Leaving(call[c].t, File(c)))
         /\ call' = [call EXCEPT ![c].pc = "open", ![c].excl = TRUE]
  BY DEF LastResort
<1>. QED  BY <1>0, <1>4, <1>5, <1>6, <1>7

LEMMA InstallLockedStep == ASSUME IInv, NEW c \in Callers, InstallLocked(c) PROVE IInv'
<1>0. PICK t \in Torrents : t = call[c].t
  BY CallFacts DEF InstallLocked, Busy
<1>. DEFINE x == call[c]
            i == File(c)
            n == x.fd
            e == [file |-> i, fd |-> n]
            y == call'[c]
<1>1. /\ x.pc = "install" /\ x.excl /\ Busy(c) /\ HeldBy(x) = {n}
      /\ UNCHANGED <<group, closed, closer, fds, disk, content, acked, gone, dirs>>
  BY DEF InstallLocked, Busy, HeldBy, diskVars, openVars, history, recordVars
<1>2. /\ GoodCall(x) /\ LiveCall(x) /\ x \in BusyCalls /\ x.t = t /\ DOMAIN call = Callers /\ DOMAIN table = Torrents
      /\ Path(c) = PathIn(x) /\ i \in DOMAIN PathOf[t] /\ i = Head(x.todo)
  BY <1>0, <1>1, CallFacts
<1>3. n \in OpenFor(t) /\ n \notin InTab(t) /\ n \in Fds
  BY <1>0, <1>1, <1>2, CallFacts DEF GoodCall
<1>4. dirs' \subseteq {Real(d) : d \in AllDirs} /\ fds' \in [Fds -> OpenFds \cup {NoFd}]
  BY <1>1 DEF IInv, Types
<1>5. ~closed[t] /\ t \in group /\ x.entered = TRUE
  BY <1>1, <1>2 DEF LiveCall, GoodCall, EnteredPcs, BusyCalls
<1>6. table[t] \in Seq(Handles(t)) /\ Apart(table[t]) /\ InTab(t) \subseteq OpenFor(t)
  BY DEF IInv, Types, FdInv
<1>7. e \in Handles(t) /\ e.fd \notin {a.fd : a \in Entries(table[t])}
  BY <1>2, <1>3 DEF Handles, InTab
<1>8. LET w == Append(table[t], e)
      IN w \in Seq(Handles(t)) /\ Apart(w) /\ Entries(w) = Entries(table[t]) \cup {e}
  BY <1>6, <1>7, AppendEntries
<1>9. /\ table'[t] = Append(table[t], e) /\ \A u \in Torrents \ {t} : table'[u] = table[u]
      /\ DOMAIN table' = Torrents
  BY <1>0, <1>2 DEF InstallLocked
<1>10. /\ DOMAIN call' = Callers /\ \A d \in Callers \ {c} : call'[d] = call[d]
       /\ y = [x EXCEPT !.pc = "op"]
  BY <1>2 DEF InstallLocked, Goto
<1>. HIDE DEF x, y, i, n
<1>11. /\ y.pc = "op" /\ y \in BusyCalls /\ y.t = t /\ y.piece = x.piece /\ y.fd = n
       /\ y.todo = x.todo /\ y.entered = x.entered /\ y.excl = x.excl /\ y.created = x.created
  BY <1>2, <1>10 DEF BusyCalls, EnteredPcs, n
<1>12. GoodCall(y)
  BY <1>1, <1>2, <1>11 DEF GoodCall, EnteredPcs, LockedPcs, PathIn
<1>13. Entries(table'[t]) = Entries(table[t]) \cup {e}
  BY <1>8, <1>9
<1>14. LiveCall(call[c])'
  BY <1>1, <1>2, <1>5, <1>11, <1>13 DEF LiveCall, Discarding, y
<1>15. CallOnly(c, t) /\ CallRule(c, t)
  BY <1>1, <1>2, <1>5, <1>9, <1>10, <1>11, <1>12, <1>14 DEF CallOnly, CallRule, x, y
<1>16. DiscardRule(c, t) /\ HeldBy(y) = {}
  BY <1>11 DEF DiscardRule, Creator, Discarding, HeldBy, y
<1>17. TableRule(c, t)
  BY <1>5, <1>8, <1>9, <1>13 DEF TableRule
<1>18. InTab(t)' = InTab(t) \cup {n} /\ OpenFor(t)' = OpenFor(t)
  <2>1. OpenFor(t)' = OpenFor(t)
    BY <1>1 DEF OpenFor
  <2>2. InTab(t)' = {a.fd : a \in Entries(table[t]) \cup {e}}
    BY <1>13 DEF InTab
  <2>3. e.fd = n
    OBVIOUS
  <2>. HIDE DEF e
  <2>. QED  BY <2>1, <2>2, <2>3 DEF InTab
<1>19. FdRule(c, t)
  BY <1>1, <1>3, <1>6, <1>8, <1>9, <1>16, <1>18 DEF FdRule, x, y
<1>20. TableOn(t)'
  <2>1. \A a \in Entries(table[t]) : OnFile(PathOf[t][a.file], a.fd)
    BY <1>5 DEF IInv, FileInv, TableOn
  <2>2. OnFile(PathOf[t][i], n)
    <3>1. PathOf[t][i] = PathIn(x)
      BY <1>2 DEF PathIn
    <3>. QED  BY <1>1, <1>2, <1>5, <3>1 DEF IInv, FileInv, CallOn, x, n
  <2>3. \A a \in Entries(table'[t]) : OnFile(PathOf[t][a.file], a.fd)
    BY <1>13, <2>1, <2>2
  <2>. QED  BY <1>1, <2>3 DEF TableOn, OnFile
<1>21. CallOn(c)'
  BY <1>11 DEF CallOn, y
<1>. QED  BY <1>1, <1>4, <1>15, <1>16, <1>17, <1>19, <1>20, <1>21, NothingWritten, OwnStep

----------------------------------------------------------------------------
(* The discard of what a late open created. *)

\* What is created after the file itself is a directory above it.
LEMMA OnlyFirstIsFile ==
    ASSUME NEW x, GoodCall(x), x.created # <<>>
    PROVE  /\ x.created \in Seq(AllFiles \cup AllDirs) /\ Head(x.created) = x.created[1] /\ 1 \in DOMAIN x.created
           /\ Head(x.created) = PathIn(x) \/ Head(x.created) \in DirsOf(PathIn(x))
           /\ DirsOf(PathIn(x)) \subseteq AllDirs /\ PathIn(x) \in AllFiles /\ PathIn(x) \notin DirsOf(PathIn(x))
           /\ Tail(x.created) \in Seq(AllFiles \cup AllDirs)
           /\ \A k \in DOMAIN Tail(x.created) : Tail(x.created)[k] \in DirsOf(PathIn(x))
           /\ Len(x.created) # 1 => Tail(x.created) # <<>> /\ Head(Tail(x.created)) \in DirsOf(PathIn(x))
<1>. DEFINE s == x.created
<1>1. s \in Seq(AllFiles \cup AllDirs) /\ s # <<>>
  BY DEF GoodCall, BusyCalls
<1>2. \A k \in DOMAIN s : s[k] \in DirsOf(PathIn(x)) \/ (k = 1 /\ s[k] = PathIn(x))
  BY DEF GoodCall
<1>3. PathIn(x) \in AllFiles /\ DirsOf(PathIn(x)) \subseteq AllDirs
  <2>1. PathIn(x) \in AllFiles
    BY PathOfCall
  <2>. QED  BY <2>1, MissingAreDirs
<1>4. PathIn(x) \notin DirsOf(PathIn(x))
  BY <1>3, FilesAreNotDirs
<1>. HIDE DEF s
<1>5. Head(s) = s[1] /\ 1 \in DOMAIN s /\ Len(s) \in Nat \ {0} /\ DOMAIN s = 1..Len(s)
  BY <1>1, HeadAndTail, EmptySeq
<1>. DEFINE w == Tail(s)
<1>6. w \in Seq(AllFiles \cup AllDirs) /\ DOMAIN w = 1..Len(s) - 1 /\ \A k \in 1..Len(s) - 1 : w[k] = s[k + 1]
  BY <1>1, <1>5
<1>. HIDE DEF w
<1>7. \A k \in DOMAIN w : k + 1 \in DOMAIN s /\ k + 1 # 1 /\ w[k] = s[k + 1]
  BY <1>5, <1>6
<1>8. \A k \in DOMAIN w : w[k] \in DirsOf(PathIn(x))
  BY <1>2, <1>7
<1>9. ASSUME Len(s) # 1 PROVE w # <<>> /\ Head(w) \in DirsOf(PathIn(x))
  <2>1. 1 \in DOMAIN w
    BY <1>5, <1>6, <1>9
  <2>2. w # <<>>
    BY <2>1
  <2>3. Head(w) = w[1]
    BY <1>6, <2>2
  <2>. QED  BY <1>8, <2>1, <2>2, <2>3
<1>10. Head(s) = PathIn(x) \/ Head(s) \in DirsOf(PathIn(x))
  BY <1>2, <1>5
<1>. QED  BY <1>1, <1>3, <1>4, <1>5, <1>6, <1>8, <1>9, <1>10 DEF s, w

LEMMA NextPathCall ==
    ASSUME IInv, NEW c \in Callers, NEW t \in Torrents, t = call[c].t, call[c].pc \in {"check", "remove"},
           NEW kept \in SUBSET (AllFiles \cup AllDirs), NextPath(c, kept), UNCHANGED <<group, closed, closer, table>>
    PROVE  /\ CallOnly(c, t) /\ CallRule(c, t) /\ DiscardRule(c, t) /\ HeldBy(call'[c]) = {}
           /\ ~Creator(call'[c]) /\ call'[c].pc \in {"idle", "check"}
<1>. DEFINE x == call[c]
            y == [x EXCEPT !.pc = "check", !.created = Tail(x.created), !.keep = x.keep \cup kept]
<1>0. Busy(c)
  BY DEF Busy
<1>1. GoodCall(x) /\ LiveCall(x) /\ x \in BusyCalls /\ x.t = t /\ DOMAIN call = Callers /\ DOMAIN table = Torrents
  BY <1>0, CallFacts
<1>2. x.created # <<>>
  BY <1>1 DEF GoodCall
<1>3. CASE Fail(c)
  <2>1. call'[c] = Idle /\ DOMAIN call' = Callers /\ \A d \in Callers \ {c} : call'[d] = call[d]
    BY <1>1, <1>3 DEF Fail
  <2>2. call'[c].pc = "idle"
    BY <2>1 DEF Idle
  <2>. QED
    BY <1>0, <1>1, <2>1, <2>2 DEF CallOnly, CallRule, DiscardRule, Busy, Creator, Discarding, HeldBy
<1>4. CASE Len(x.created) # 1 /\ ~Fail(c)
  <2>1. DOMAIN call' = Callers /\ (\A d \in Callers \ {c} : call'[d] = call[d]) /\ call'[c] = y
    BY <1>1, <1>4 DEF NextPath
  <2>2. /\ Tail(x.created) \in Seq(AllFiles \cup AllDirs) /\ PathIn(x) \notin DirsOf(PathIn(x))
        /\ \A k \in DOMAIN Tail(x.created) : Tail(x.created)[k] \in DirsOf(PathIn(x))
        /\ Tail(x.created) # <<>> /\ Head(Tail(x.created)) \in DirsOf(PathIn(x))
    BY <1>1, <1>2, <1>4, OnlyFirstIsFile
  <2>3. x.entered = TRUE /\ x.excl = FALSE /\ closed[t]
    BY <1>1 DEF GoodCall, LockedPcs, EnteredPcs, BusyCalls, LiveCall, Discarding
  <2>4. x.pc \in {"check", "remove"}
    OBVIOUS
  <2>. HIDE DEF x
  <2>5. /\ y.pc = "check" /\ y \in BusyCalls /\ y.t = t /\ y.piece = x.piece
        /\ y.todo = x.todo /\ y.entered = TRUE /\ y.excl = FALSE /\ y.created = Tail(x.created) /\ y.others = x.others
    BY <1>1, <2>2, <2>3 DEF BusyCalls, EnteredPcs
  <2>. HIDE DEF y
  <2>6. PathIn(y) = PathIn(x)
    BY <1>1, <2>5 DEF PathIn
  <2>7. GoodCall(y)
    BY <1>1, <2>2, <2>5, <2>6 DEF GoodCall, EnteredPcs
  <2>8. LiveCall(call[c])'
    BY <1>1, <2>1, <2>3, <2>5 DEF LiveCall, Discarding
  <2>9. ~Creator(y)
    BY <2>2, <2>5, <2>6 DEF Creator
  <2>10. CallOnly(c, t) /\ CallRule(c, t)
    BY <1>0, <1>1, <2>1, <2>3, <2>5, <2>7, <2>8 DEF CallOnly, CallRule, x
  <2>11. \A u \in group \ {t} : PathsOf(u) \subseteq x.others
    BY <1>1, <2>4 DEF IInv, DiscardInv, x
  <2>12. DiscardRule(c, t) /\ HeldBy(y) = {}
    BY <2>1, <2>5, <2>9, <2>11 DEF DiscardRule, HeldBy
  <2>. QED  BY <2>1, <2>5, <2>9, <2>10, <2>12
<1>. QED  BY <1>3, <1>4 DEF NextPath

LEMMA DiscardCheckStep == ASSUME IInv, NEW c \in Callers, DiscardCheck(c) PROVE IInv'
<1>0. PICK t \in Torrents : t = call[c].t
  BY CallFacts DEF DiscardCheck, Busy
<1>. DEFINE x == call[c]
            p == Head(x.created)
            y == [x EXCEPT !.pc = "remove"]
<1>1. /\ x.pc = "check" /\ Busy(c) /\ HeldBy(x) = {}
      /\ UNCHANGED <<group, closed, closer, table, fds, disk, content, acked, gone, dirs>>
  BY DEF DiscardCheck, Busy, HeldBy, diskVars, openVars, history, recordVars
<1>2. /\ GoodCall(x) /\ LiveCall(x) /\ x \in BusyCalls /\ x.t = t /\ DOMAIN call = Callers /\ DOMAIN table = Torrents
      /\ Path(c) = PathIn(x)
  BY <1>0, <1>1, CallFacts
<1>3. dirs' \subseteq {Real(d) : d \in AllDirs}
  BY <1>1 DEF IInv, Types
<1>4. x.created # <<>>
  BY <1>1, <1>2 DEF GoodCall
<1>5. p \in AllFiles \cup AllDirs
  BY <1>2, <1>4, OnlyFirstIsFile
<1>6. CASE NextPath(c, {p})
  <2>1. {p} \in SUBSET (AllFiles \cup AllDirs) /\ x.pc \in {"check", "remove"}
    BY <1>1, <1>5
  <2>2. /\ CallOnly(c, t) /\ CallRule(c, t) /\ DiscardRule(c, t) /\ HeldBy(call'[c]) = {}
        /\ ~Creator(call'[c]) /\ call'[c].pc \in {"idle", "check"}
    <3>. HIDE DEF p
    <3>. QED  BY <1>0, <1>1, <1>6, <2>1, NextPathCall
  <2>. QED  BY <1>1, <1>3, <2>2, NothingWritten, QuietStep
<1>7. CASE ~Keeps(c, p) /\ Goto(c, "remove")
  <2>1. DOMAIN call' = Callers /\ (\A d \in Callers \ {c} : call'[d] = call[d]) /\ call'[c] = y
    BY <1>2, <1>7 DEF Goto
  <2>2. x.entered = TRUE /\ x.excl = FALSE /\ closed[t]
    BY <1>1, <1>2 DEF GoodCall, LockedPcs, EnteredPcs, BusyCalls, LiveCall, Discarding
  <2>3. \A u \in group \ {t} : PathsOf(u) \subseteq x.others
    BY <1>1, <1>2 DEF IInv, DiscardInv
  <2>4. ASSUME Creator(x), Real(PathIn(x)) \notin gone
        PROVE  Sole(x, Real(PathIn(x)))
    <3>1. p = Path(c) /\ Real(p) \in DOMAIN disk
      BY <1>2, <2>4 DEF Creator, IInv, DiscardInv
    <3>2. ~Written(p) /\ ~AnySameData(p, x.others)
      BY <1>7, <3>1 DEF Keeps
    <3>. QED  BY <1>2, <2>3, <3>1, <3>2 DEF Sole, Written, AnySameData, InodeOf
  <2>. HIDE DEF x
  <2>5. /\ y.pc = "remove" /\ y \in BusyCalls /\ y.t = t /\ y.piece = x.piece
        /\ y.todo = x.todo /\ y.entered = TRUE /\ y.excl = FALSE /\ y.created = x.created /\ y.others = x.others
    BY <1>2, <2>2 DEF BusyCalls, EnteredPcs
  <2>. HIDE DEF y
  <2>6. PathIn(y) = PathIn(x)
    BY <1>2, <2>5 DEF PathIn
  <2>7. GoodCall(y)
    BY <1>1, <1>2, <1>4, <2>5, <2>6 DEF GoodCall, EnteredPcs
  <2>8. LiveCall(call[c])'
    BY <1>1, <1>2, <2>1, <2>2, <2>5 DEF LiveCall, Discarding
  <2>10. CallOnly(c, t) /\ CallRule(c, t)
    BY <1>1, <1>2, <2>1, <2>2, <2>5, <2>7, <2>8 DEF CallOnly, CallRule, x
  <2>11. Creator(y) = Creator(x)
    BY <1>1, <2>5, <2>6 DEF Creator, Discarding
  <2>12. DiscardRule(c, t) /\ HeldBy(y) = {}
    BY <1>2, <2>1, <2>3, <2>4, <2>5, <2>6, <2>11 DEF DiscardRule, HeldBy, Sole, x
  <2>. QED  BY <1>1, <1>3, <2>1, <2>5, <2>10, <2>12, NothingWritten, QuietStep
<1>. QED  BY <1>6, <1>7 DEF DiscardCheck

----------------------------------------------------------------------------
(* The steps that create and remove a file. *)

\* A handle that was not opened by the step and is in the table is as it was.
LEMMA DiskStep ==
    ASSUME IInv, NEW c \in Callers, NEW t \in Torrents, CallOnly(c, t),
           TableRule(c, t), CallRule(c, t), FdRule(c, t), FilesRule, DiskInv', DiscardInv',
           fds' \in [Fds -> OpenFds \cup {NoFd}], dirs' \subseteq {Real(d) : d \in AllDirs},
           ~closed[t] => TableOn(t)', CallOn(c)'
    PROVE  IInv'
<1>1. Types'
  BY TypesKept DEF IInv
<1>2. LiveInv'
  BY LiveKept DEF IInv
<1>3. FdInv'
  BY FdKept DEF IInv
<1>4. FileInv'
  BY FilesKept DEF IInv
<1>. QED  BY <1>1, <1>2, <1>3, <1>4 DEF IInv

\* A handle of an open torrent's table stays on its file, when open handles do.
LEMMA TableStaysOn ==
    ASSUME IInv, NEW t \in Torrents, ~closed[t], FilesRule, UNCHANGED table,
           \A n \in InTab(t) : fds'[n] = fds[n]
    PROVE  TableOn(t)'
<1>. SUFFICES ASSUME NEW a \in Entries(table[t]) PROVE OnFile(PathOf[t][a.file], a.fd)'
  BY DEF TableOn
<1>1. OnFile(PathOf[t][a.file], a.fd) /\ a.fd \in InTab(t) /\ t \in group
  BY DEF IInv, FileInv, TableOn, InTab, LiveInv
<1>2. a.fd \in Fds /\ fds[a.fd] # NoFd
  BY <1>1 DEF IInv, FdInv, OpenFor
<1>3. PathOf[t][a.file] \in PathsOf(t)
  <2>1. table[t] \in Seq(Handles(t))
    BY DEF IInv, Types
  <2>2. a \in Handles(t)
    BY <2>1 DEF Entries
  <2>. QED  BY <2>2 DEF Handles, PathsOf
<1>. QED  BY <1>1, <1>2, <1>3 DEF FilesRule

\* The file f is created as inode n, and the call that created it has the handle.
Creates(c, t, f, n) ==
    /\ disk' = [g \in DOMAIN disk \cup {f} |-> IF g = f THEN n ELSE disk[g]]
    /\ fds' = [fds EXCEPT ![FreeFd] = [t |-> t, inode |-> n, writable |-> TRUE]]
    /\ call' = [call EXCEPT ![c] = [@ EXCEPT !.pc = "install", !.fd = FreeFd,
                                             !.created = <<Path(c)>> \o call[c].created]]

LEMMA CreatedStep ==
    ASSUME IInv, NEW c \in Callers, NEW t \in Torrents, t = call[c].t, call[c].pc = "createExcl",
           NEW f, f = Real(Path(c)), f \notin DOMAIN disk, NEW n \in FreshInodes, FreeFds # {},
           Creates(c, t, f, n),
           UNCHANGED <<group, closed, closer, table, content, acked, gone, dirs>>
    PROVE  IInv'
<1>. DEFINE x == call[c]
            m == FreeFd
            e == [t |-> t, inode |-> n, writable |-> TRUE]
            y == call'[c]
            new == <<Path(c)>> \o x.created
<1>0. Busy(c) /\ x.pc \in {"open", "createExcl", "reopen"}
  BY DEF Busy
<1>1. /\ GoodCall(x) /\ LiveCall(x) /\ x \in BusyCalls /\ x.t = t /\ DOMAIN call = Callers /\ DOMAIN table = Torrents
      /\ Path(c) = PathIn(x) /\ Path(c) \in AllFiles
  BY <1>0, CallFacts
<1>2. /\ n \in Inodes /\ content[n] = {} /\ \A g \in DOMAIN disk : disk[g] # n
      /\ \A k \in Fds : fds[k] # NoFd => fds[k].inode # n
  BY DEF FreshInodes, Inodes, Fds
<1>3. /\ new \in Seq(AllFiles \cup AllDirs) /\ new # <<>> /\ Head(new) = PathIn(x)
      /\ \A k \in DOMAIN new : new[k] \in DirsOf(PathIn(x)) \/ (k = 1 /\ new[k] = PathIn(x))
  <2>. DEFINE s == x.created
  <2>1. s \in Seq(AllFiles \cup AllDirs) /\ \A k \in DOMAIN s : s[k] \in DirsOf(PathIn(x))
    BY <1>1 DEF GoodCall, BusyCalls
  <2>. HIDE DEF s
  <2>. DEFINE w == <<Path(c)>> \o s
  <2>2. /\ w \in Seq(AllFiles \cup AllDirs) /\ Len(w) = Len(s) + 1 /\ Len(s) \in Nat /\ DOMAIN w = 1..Len(s) + 1
        /\ w[1] = Path(c) /\ \A k \in 1..Len(s) + 1 : k # 1 => w[k] = s[k - 1]
    BY <1>1, <2>1
  <2>3. DOMAIN s = 1..Len(s)
    BY <2>1
  <2>. HIDE DEF w
  <2>4. \A k \in DOMAIN w : k # 1 => w[k] \in DirsOf(PathIn(x))
    BY <2>1, <2>2, <2>3
  <2>5. w # <<>> /\ Head(w) = w[1]
    BY <2>2
  <2>. QED  BY <1>1, <2>2, <2>4, <2>5 DEF w, s
<1>4. e \in OpenFds /\ e.t = t
  BY <1>2 DEF OpenFds
<1>5. m \in Fds
  BY DEF FreeFds, FreeFd, Fds
<1>6. /\ DOMAIN call' = Callers /\ \A d \in Callers \ {c} : call'[d] = call[d]
      /\ y = [x EXCEPT !.pc = "install", !.fd = m, !.created = new]
  BY <1>1 DEF Creates
<1>. HIDE DEF x, m, y, e, new
<1>7. /\ GoodCall(y) /\ y.t = t /\ PathIn(y) = PathIn(x) /\ y.pc = "install" /\ y.fd = m /\ y.created = new
      /\ y.entered = TRUE /\ x.entered = TRUE /\ y.excl = x.excl /\ HeldBy(y) = {m}
  <2>1. Installing(x, y, m, new)
    BY <1>0, <1>1, <1>3, <1>5, <1>6, InstallNext DEF x
  <2>. QED  BY <1>1, <2>1 DEF Installing
<1>8. /\ fds'[m] = e /\ fds[m] = NoFd /\ \A k \in Fds \ {m} : fds'[k] = fds[k]
      /\ FdRule(c, t) /\ fds' \in [Fds -> OpenFds \cup {NoFd}]
  BY <1>4, <1>7, OneMoreFd DEF Creates, m, y, e
<1>9. TableRule(c, t) /\ UNCHANGED InTab(t)
  BY SameTable
<1>10. LiveCall(call[c])'
  BY <1>1, <1>7 DEF LiveCall, Discarding, y
<1>11. CallOnly(c, t) /\ CallRule(c, t)
  BY <1>0, <1>1, <1>6, <1>7, <1>10 DEF CallOnly, CallRule, y, x
<1>12. /\ DOMAIN disk' = DOMAIN disk \cup {f} /\ disk'[f] = n /\ \A g \in DOMAIN disk : disk'[g] = disk[g]
  BY DEF Creates
<1>13. DiskInv'
  <2>1. \A g \in DOMAIN disk' : \E u \in Torrents : Pieces(u) # {} /\ \E p \in PathsOf(u) : g = Real(p)
    <3>1. Pieces(t) # {} /\ Path(c) \in PathsOf(t)
      BY <1>1, PathOfCall
    <3>. QED  BY <1>12, <3>1 DEF IInv, DiskInv
  <2>2. disk' \in [DOMAIN disk' -> Inodes]
    <3>1. \A g \in DOMAIN disk : disk[g] \in Inodes
      BY DEF IInv, DiskInv
    <3>2. \A g \in DOMAIN disk \cup {f} : (IF g = f THEN n ELSE disk[g]) \in Inodes
      BY <1>2, <3>1
    <3>. QED  BY <3>2 DEF Creates
  <2>3. \A g, h \in DOMAIN disk' : disk'[g] = disk'[h] => g = h
    BY <1>2, <1>12 DEF IInv, DiskInv
  <2>. QED  BY <2>1, <2>2, <2>3 DEF IInv, DiskInv
<1>14. FilesRule
  BY <1>2, <1>12 DEF FilesRule, OnFile
<1>15. DiscardInv'
  <2>1. Creator(y) /\ Real(PathIn(y)) = f /\ y.pc \notin {"check", "remove"}
    BY <1>1, <1>3, <1>7 DEF Creator
  <2>2. \A d \in Callers : d # c => call'[d] = call[d]
    BY <1>6
  <2>3. \A d \in Callers : Creator(call'[d]) => Real(PathIn(call'[d])) \in gone \cup DOMAIN disk'
    BY <1>12, <2>1, <2>2 DEF IInv, DiscardInv, y
  <2>4. ASSUME NEW d \in Callers, NEW b \in Callers, d # b, Creator(call'[d]), Creator(call'[b]),
               Real(PathIn(call'[d])) = Real(PathIn(call'[b])), Real(PathIn(call'[d])) \notin gone
        PROVE  FALSE
    <3>1. CASE d # c /\ b # c
      BY <2>2, <2>4, <3>1 DEF IInv, DiscardInv
    <3>2. CASE d = c
      BY <2>1, <2>2, <2>4, <3>2 DEF IInv, DiscardInv, y
    <3>3. CASE b = c
      BY <2>1, <2>2, <2>4, <3>3 DEF IInv, DiscardInv, y
    <3>. QED  BY <3>1, <3>2, <3>3
  <2>5. \A d \in Callers : call'[d].pc \in {"check", "remove"} =>
          \A u \in group \ {call'[d].t} : PathsOf(u) \subseteq call'[d].others
    BY <2>1, <2>2 DEF IInv, DiscardInv, y
  <2>6. ASSUME NEW d \in Callers, call'[d].pc = "remove", Creator(call'[d]), Real(PathIn(call'[d])) \notin gone
        PROVE  Sole(call[d], Real(PathIn(call[d])))'
    <3>. DEFINE g == Real(PathIn(call[d]))
    <3>1. d # c
      BY <2>1, <2>6 DEF y
    <3>2. call'[d] = call[d] /\ Sole(call[d], g)
      BY <2>2, <2>6, <3>1 DEF IInv, DiscardInv
    <3>3. g \in DOMAIN disk' => content[disk'[g]] = {}
      BY <1>2, <1>12, <3>2 DEF Sole
    <3>. HIDE DEF g
    <3>4. Sole(call[d], g)'
          <=> (/\ g' \in DOMAIN disk' => content'[disk'[g']] = {}
               /\ \A u \in group' \ {call'[d].t} : \A p \in PathsOf(u) : Real(p) # g')
      BY DEF Sole
    <3>5. g' = g
      BY <3>2 DEF g
    <3>. QED  BY <3>2, <3>3, <3>4, <3>5 DEF Sole, g
  <2>. QED  BY <2>3, <2>4, <2>5, <2>6 DEF DiscardInv
<1>16. ~closed[t] => TableOn(t)'
  <2>1. \A k \in InTab(t) : fds'[k] = fds[k]
    <3>1. InTab(t) \subseteq OpenFor(t)
      BY DEF IInv, FdInv
    <3>. QED  BY <1>8, <3>1 DEF OpenFor
  <2>. QED  BY <1>14, <2>1, TableStaysOn
<1>17. CallOn(c)'
  <2>1. Real(PathIn(y)) = f
    BY <1>1, <1>7
  <2>2. fds'[m].inode = n
    BY <1>8 DEF e
  <2>3. \A g \in DOMAIN disk' : disk'[g] = n => g = f
    BY <1>2, <1>12
  <2>. QED  BY <1>7, <1>12, <2>1, <2>2, <2>3 DEF CallOn, OnFile, y
<1>18. dirs' \subseteq {Real(d) : d \in AllDirs}
  BY DEF IInv, Types
<1>. QED  BY <1>8, <1>9, <1>11, <1>13, <1>14, <1>15, <1>16, <1>17, <1>18, DiskStep

LEMMA CreateExclusiveStep == ASSUME IInv, NEW c \in Callers, CreateExclusive(c) PROVE IInv'
<1>0. PICK t \in Torrents : t = call[c].t
  BY CallFacts DEF CreateExclusive, Busy
<1>1. /\ call[c].pc = "createExcl" /\ Busy(c)
      /\ UNCHANGED <<group, closed, closer, table, content, acked, gone, dirs>>
  BY DEF CreateExclusive, Busy, openVars, history, recordVars
<1>2. CASE Fail(c) /\ UNCHANGED <<disk, fds>>
  BY <1>1, <1>2, NothingWritten, EndStep
<1>3. CASE Goto(c, "reopen") /\ UNCHANGED <<disk, fds>>
  <2>1. dirs' \subseteq {Real(d) : d \in AllDirs}
    BY <1>1 DEF IInv, Types
  <2>. QED  BY <1>1, <1>3, <2>1, NextPcStep
<1>4. ASSUME ~Exists(Path(c)), FreshInodes # {}, FreeFds # {},
             NEW n, n = CHOOSE m \in FreshInodes : TRUE,
             disk' = [f \in DOMAIN disk \cup {Real(Path(c))} |-> IF f = Real(Path(c)) THEN n ELSE disk[f]],
             fds' = [fds EXCEPT ![FreeFd] = [t |-> call[c].t, inode |-> n, writable |-> TRUE]],
             call' = [call EXCEPT ![c].pc = "install", ![c].fd = FreeFd, ![c].created = <<Path(c)>> \o @]
      PROVE  IInv'
  <2>1. n \in FreshInodes
    BY <1>4
  <2>2. PICK f : f = Real(Path(c))
    OBVIOUS
  <2>3. f \notin DOMAIN disk
    BY <1>4, <2>2 DEF Exists
  <2>4. call' = [call EXCEPT ![c] = [@ EXCEPT !.pc = "install", !.fd = FreeFd,
                                              !.created = <<Path(c)>> \o call[c].created]]
    <3>1. DOMAIN call = Callers /\ call[c] \in BusyCalls
      BY <1>1, CallFacts
    <3>. QED  BY <1>4, <3>1 DEF BusyCalls
  <2>5. fds' = [fds EXCEPT ![FreeFd] = [t |-> t, inode |-> n, writable |-> TRUE]]
    BY <1>0, <1>4
  <2>6. disk' = [g \in DOMAIN disk \cup {f} |-> IF g = f THEN n ELSE disk[g]]
    BY <1>4, <2>2
  <2>7. Creates(c, t, f, n)
    BY <2>4, <2>5, <2>6 DEF Creates
  <2>. QED  BY <1>0, <1>1, <1>4, <2>1, <2>2, <2>3, <2>7, CreatedStep
<1>5. \/ Fail(c) /\ UNCHANGED <<disk, fds>>
      \/ Goto(c, "reopen") /\ UNCHANGED <<disk, fds>>
      \/ /\ ~Exists(Path(c)) /\ FreshInodes # {} /\ FreeFds # {}
         /\ \E n : /\ n = CHOOSE m \in FreshInodes : TRUE
                   /\ disk' = [f \in DOMAIN disk \cup {Real(Path(c))} |-> IF f = Real(Path(c)) THEN n ELSE disk[f]]
                   /\ fds' = [fds EXCEPT ![FreeFd] = [t |-> call[c].t, inode |-> n, writable |-> TRUE]]
                   /\ call' = [call EXCEPT ![c].pc = "install", ![c].fd = FreeFd, ![c].created = <<Path(c)>> \o @]
  BY DEF CreateExclusive
<1>. QED  BY <1>2, <1>3, <1>4, <1>5

\* A file goes that is its remover's own, or that the user deleted before.
LEMMA RemovedStep ==
    ASSUME IInv, NEW c \in Callers, NEW t \in Torrents, t = call[c].t, call[c].pc = "remove", Creator(call[c]),
           NEW f, f = Real(PathIn(call[c])), disk' = [g \in DOMAIN disk \ {f} |-> disk[g]],
           CallOnly(c, t), CallRule(c, t), HeldBy(call'[c]) = {}, ~Creator(call'[c]), DiscardRule(c, t),
           UNCHANGED <<table, fds, content, acked, gone>>, dirs' \subseteq {Real(d) : d \in AllDirs},
           call'[c].pc \in {"idle", "check"}
    PROVE  IInv'
<1>1. /\ DOMAIN disk' = DOMAIN disk \ {f} /\ \A g \in DOMAIN disk' : disk'[g] = disk[g]
      /\ \A d \in Callers : d # c => call'[d] = call[d]
      /\ UNCHANGED <<group, closed, closer>>
  BY DEF CallOnly
<1>2. f \notin gone => Sole(call[c], f)
  BY DEF IInv, DiscardInv
<1>3. closed[t]
  BY CallFacts DEF LiveCall, Discarding, Busy
<1>4. FilesRule
  <2>. SUFFICES ASSUME NEW u \in group, NEW q \in PathsOf(u), NEW n \in Fds, ~closed[u], OnFile(q, n)
                PROVE  OnFile(q, n)'
    BY DEF FilesRule
  <2>1. f \notin gone => Real(q) # f
    BY <1>2, <1>3 DEF Sole
  <2>. QED  BY <1>1, <2>1 DEF OnFile
<1>5. DiskInv'
  BY <1>1 DEF IInv, DiskInv
<1>6. DiscardInv'
  <2>1. \A d \in Callers : Creator(call'[d]) => d # c /\ call'[d] = call[d] /\ Creator(call[d])
    BY <1>1
  <2>2. \A d \in Callers : Creator(call'[d]) => Real(PathIn(call'[d])) \in gone \cup DOMAIN disk'
    BY <1>1, <2>1 DEF IInv, DiscardInv
  <2>3. \A d, b \in Callers :
          /\ d # b /\ Creator(call'[d]) /\ Creator(call'[b])
          /\ Real(PathIn(call'[d])) = Real(PathIn(call'[b]))
          => Real(PathIn(call'[d])) \in gone
    BY <2>1 DEF IInv, DiscardInv
  <2>4. \A d \in Callers : call'[d].pc \in {"check", "remove"} =>
          \A u \in group \ {call'[d].t} : PathsOf(u) \subseteq call'[d].others
    <3>1. call'[c].pc = "check" => call'[c].t = t
      BY DEF CallOnly, Busy
    <3>. QED  BY <1>1, <3>1 DEF IInv, DiscardInv, DiscardRule
  <2>5. ASSUME NEW d \in Callers, call'[d].pc = "remove", Creator(call'[d]), Real(PathIn(call'[d])) \notin gone
        PROVE  Sole(call[d], Real(PathIn(call[d])))'
    <3>. DEFINE g == Real(PathIn(call[d]))
    <3>1. call'[d] = call[d] /\ Sole(call[d], g)
      BY <2>1, <2>5 DEF IInv, DiscardInv
    <3>2. g \in DOMAIN disk' => content[disk'[g]] = {}
      BY <1>1, <3>1 DEF Sole
    <3>. HIDE DEF g
    <3>3. Sole(call[d], g)'
          <=> (/\ g' \in DOMAIN disk' => content'[disk'[g']] = {}
               /\ \A u \in group' \ {call'[d].t} : \A p \in PathsOf(u) : Real(p) # g')
      BY DEF Sole
    <3>4. g' = g
      BY <3>1 DEF g
    <3>. QED  BY <1>1, <3>1, <3>2, <3>3, <3>4 DEF Sole, g
  <2>. QED  BY <1>1, <2>2, <2>3, <2>4, <2>5 DEF DiscardInv
<1>7. TableRule(c, t) /\ UNCHANGED InTab(t)
  BY SameTable
<1>8. FdRule(c, t) /\ fds' \in [Fds -> OpenFds \cup {NoFd}]
  <2>1. InTab(t) \subseteq OpenFor(t) /\ Apart(table[t]) /\ UNCHANGED OpenFor(t)
    BY DEF IInv, FdInv, OpenFor
  <2>. QED  BY <1>7, <2>1 DEF FdRule, IInv, Types
<1>9. (~closed[t] => TableOn(t)') /\ CallOn(c)'
  BY <1>3 DEF CallOn
<1>. QED  BY <1>4, <1>5, <1>6, <1>7, <1>8, <1>9, DiskStep

LEMMA DiscardRemoveStep == ASSUME IInv, NEW c \in Callers, DiscardRemove(c) PROVE IInv'
<1>0. PICK t \in Torrents : t = call[c].t
  BY CallFacts DEF DiscardRemove, Busy
<1>. DEFINE x == call[c]
            p == Head(x.created)
<1>1. /\ x.pc = "remove" /\ Busy(c) /\ NextPath(c, {})
      /\ UNCHANGED <<group, closed, closer, table, fds, content, acked, gone>>
      /\ disk' = [f \in DOMAIN disk \ {Real(p)} |-> disk[f]] /\ dirs' \subseteq dirs
  BY DEF DiscardRemove, Busy, openVars, history, recordVars
<1>2. GoodCall(x) /\ x.created # <<>> /\ x.pc \in {"check", "remove"}
  BY <1>1, CallFacts DEF GoodCall
<1>3. dirs' \subseteq {Real(d) : d \in AllDirs}
  BY <1>1 DEF IInv, Types
<1>4. /\ CallOnly(c, t) /\ CallRule(c, t) /\ DiscardRule(c, t) /\ HeldBy(call'[c]) = {}
      /\ ~Creator(call'[c]) /\ call'[c].pc \in {"idle", "check"}
  BY <1>0, <1>1, <1>2, NextPathCall
<1>5. CASE p = PathIn(x)
  <2>1. Creator(x)
    BY <1>1, <1>2, <1>5 DEF Creator, Discarding
  <2>2. PICK f : f = Real(PathIn(x))
    OBVIOUS
  <2>3. disk' = [g \in DOMAIN disk \ {f} |-> disk[g]]
    BY <1>1, <1>5, <2>2
  <2>. QED  BY <1>0, <1>1, <1>3, <1>4, <2>1, <2>2, <2>3, RemovedStep
<1>6. CASE p \in DirsOf(PathIn(x))
  <2>1. p \in AllDirs
    BY <1>2, <1>6, OnlyFirstIsFile
  <2>2. Real(p) \notin DOMAIN disk
    <3>. SUFFICES ASSUME Real(p) \in DOMAIN disk PROVE FALSE
      OBVIOUS
    <3>1. PICK u \in Torrents : \E q \in PathsOf(u) : Real(p) = Real(q)
      BY DEF IInv, DiskInv
    <3>2. PICK q \in AllFiles : Real(p) = Real(q)
      BY <3>1 DEF AllFiles
    <3>. QED  BY <2>1, <3>2, FilesAreNotDirs
  <2>3. disk' = disk
    BY <1>1, <2>2 DEF IInv, DiskInv
  <2>. QED  BY <1>1, <1>3, <1>4, <2>3, NothingWritten, QuietStep
<1>. QED  BY <1>2, <1>5, <1>6, OnlyFirstIsFile

----------------------------------------------------------------------------
(* The steps of the torrents, of the Closes and of the user. *)

\* Every call and what it is about stay as they are.
LEMMA OpenTorrentStep ==
    ASSUME IInv, ~LateOpens, NEW t \in Torrents, OpenTorrent(t)
    PROVE  IInv'
<1>1. /\ group' = group \cup {t} /\ \A u \in group : ~closed[u]
      /\ UNCHANGED <<closed, table, fds, call, closer, disk, dirs, content, acked, gone>>
  BY DEF OpenTorrent, diskVars, history, recordVars
<1>2. Types' /\ DiskInv' /\ FdInv' /\ FileInv'
  <2>1. Types'
    BY <1>1 DEF IInv, Types, Busy
  <2>2. DiskInv'
    BY <1>1 DEF IInv, DiskInv
  <2>3. \A u \in Torrents : UNCHANGED InTab(u) /\ UNCHANGED OpenFor(u)
    BY <1>1 DEF InTab, OpenFor
  <2>4. FdInv'
    <3>1. FdInv /\ UNCHANGED <<table, call, closer>>
      BY <1>1 DEF IInv
    <3>2. \A u \in Torrents : InTab(u)' \subseteq OpenFor(u)' /\ Apart(table'[u])
      BY <2>3, <3>1 DEF FdInv
    <3>3. \A c \in Callers : HeldBy(call[c]) # {} => HeldBy(call[c]) \subseteq OpenFor(call[c].t)'
      BY <1>1, <3>1 DEF FdInv, OpenFor
    <3>4. \A k \in DOMAIN closer : TakenBy(closer[k]) # {} => TakenBy(closer[k]) \subseteq OpenFor(closer[k].t)'
      BY <1>1, <3>1 DEF FdInv, OpenFor
    <3>5. /\ \A c \in Callers, u \in Torrents : HeldBy(call[c]) \cap InTab(u)' = {}
          /\ \A k \in DOMAIN closer, u \in Torrents : TakenBy(closer[k]) \cap InTab(u)' = {}
      BY <2>3, <3>1 DEF FdInv
    <3>. QED  BY <3>1, <3>2, <3>3, <3>4, <3>5 DEF FdInv
  <2>5. FileInv'
    BY <1>1 DEF IInv, FileInv, TableOn, CallOn, OnFile
  <2>. QED  BY <2>1, <2>2, <2>4, <2>5
<1>3. LiveInv'
  <2>1. \A c \in Callers : Busy(c)' => LiveCall(call[c])'
    BY <1>1 DEF IInv, LiveInv, LiveCall, Busy
  <2>2. \A k \in DOMAIN closer : UNCHANGED Inflight(closer[k].t)
    BY <1>1 DEF Inflight, On, Busy
  <2>. QED  BY <1>1, <2>1, <2>2 DEF IInv, LiveInv
<1>4. \A c \in Callers : call[c].pc \notin Discarding
  <2>. SUFFICES ASSUME NEW c \in Callers, call[c].pc \in Discarding PROVE FALSE
    OBVIOUS
  <2>1. Busy(c) /\ call[c].pc \in EnteredPcs
    BY DEF Busy, Discarding, EnteredPcs
  <2>. QED  BY <1>1, <2>1, CallFacts DEF LiveCall, GoodCall
<1>5. DiscardInv'
  BY <1>1, <1>4 DEF IInv, DiscardInv, Discarding
<1>. QED  BY <1>2, <1>3, <1>5 DEF IInv

\* Nothing the invariant speaks of changes.
LEMMA NothingStep ==
    ASSUME IInv, UNCHANGED <<group, closed, table, fds, call, closer, disk, dirs, content, acked, gone>>
    PROVE  IInv'
<1>1. Types'
  BY DEF IInv, Types, Busy
<1>2. DiskInv'
  BY DEF IInv, DiskInv
<1>3. \A u \in Torrents : UNCHANGED InTab(u) /\ UNCHANGED OpenFor(u)
  BY DEF InTab, OpenFor
<1>4. FdInv'
  BY <1>3 DEF IInv, FdInv, OpenFor
<1>5. FileInv'
  BY DEF IInv, FileInv, TableOn, CallOn, OnFile
<1>6. \A c \in Callers : Busy(c)' => LiveCall(call[c])'
  BY DEF IInv, LiveInv, LiveCall, Busy
<1>7. \A k \in DOMAIN closer : UNCHANGED Inflight(closer[k].t)
  BY DEF Inflight, On, Busy
<1>8. LiveInv'
  BY <1>6, <1>7 DEF IInv, LiveInv
<1>9. DiscardInv'
  BY DEF IInv, DiscardInv, Sole
<1>. QED  BY <1>1, <1>2, <1>4, <1>5, <1>8, <1>9 DEF IInv

LEMMA CompletionStep == ASSUME IInv, NEW t \in Torrents, NEW p, Completion(t, p) PROVE IInv'
BY NothingStep DEF Completion, diskVars, openVars, history

\* The user deletes a file: whoever had it open has it open still.
LEMMA UserDeletesStep == ASSUME IInv, NEW f \in DOMAIN disk, UserDeletes(f) PROVE IInv'
<1>1. /\ DOMAIN disk' = DOMAIN disk \ {f} /\ \A g \in DOMAIN disk' : disk'[g] = disk[g]
      /\ disk' = [g \in DOMAIN disk \ {f} |-> disk[g]]
      /\ gone' = gone \cup {f} /\ acked' = {a \in acked : a[1] # f}
      /\ UNCHANGED <<group, closed, table, fds, call, closer, dirs, content>>
  BY DEF UserDeletes, openVars, recordVars
<1>2. Types'
  BY <1>1 DEF IInv, Types, Busy
<1>3. DiskInv'
  BY <1>1 DEF IInv, DiskInv
<1>4. \A u \in Torrents : UNCHANGED InTab(u) /\ UNCHANGED OpenFor(u)
  BY <1>1 DEF InTab, OpenFor
<1>5. FdInv'
  BY <1>1, <1>4 DEF IInv, FdInv, OpenFor
<1>6. FileInv'
  <2>1. \A p, n : OnFile(p, n) => /\ \A g \in DOMAIN disk' : disk'[g] = fds'[n].inode => g = Real(p)
                                  /\ Real(p) \notin gone' => Real(p) \in DOMAIN disk' /\ disk'[Real(p)] = fds'[n].inode
    BY <1>1 DEF OnFile
  <2>. QED  BY <1>1, <2>1 DEF IInv, FileInv, TableOn, CallOn, OnFile
<1>7. \A c \in Callers : Busy(c)' => LiveCall(call[c])'
  BY <1>1 DEF IInv, LiveInv, LiveCall, Busy
<1>8. \A k \in DOMAIN closer : UNCHANGED Inflight(closer[k].t)
  BY <1>1 DEF Inflight, On, Busy
<1>9. LiveInv'
  BY <1>1, <1>7, <1>8 DEF IInv, LiveInv
<1>10. DiscardInv'
  <2>1. \A c \in Callers : Creator(call[c]) => Real(PathIn(call[c])) \in gone' \cup DOMAIN disk'
    BY <1>1 DEF IInv, DiscardInv
  <2>2. \A x, g : Sole(x, g) => /\ g \in DOMAIN disk' => content[disk'[g]] = {}
                                /\ \A u \in group \ {x.t} : \A p \in PathsOf(u) : Real(p) # g
    BY <1>1 DEF Sole
  <2>. QED  BY <1>1, <2>1, <2>2 DEF IInv, DiscardInv, Sole
<1>. QED  BY <1>2, <1>3, <1>5, <1>6, <1>9, <1>10 DEF IInv

\* A Close begins: the torrent is closed while nobody uses its table.
LEMMA CloseBeginStep ==
    ASSUME IInv, NEW k \in DOMAIN closer, closer[k].pc \in {"none", "next"}, NEW t \in Torrents,
           NEW rest \in SUBSET Torrents, \A u \in rest : u \in group \/ closed[u], CloseBegin(k, t, rest)
    PROVE  IInv'
<1>. DEFINE z == [pc |-> "wait", t |-> t, rest |-> rest, out |-> {}]
<1>1. /\ ExclusiveFree(t) /\ closed' = [closed EXCEPT ![t] = TRUE] /\ closer' = [closer EXCEPT ![k] = z]
      /\ UNCHANGED <<group, table, fds, call, disk, dirs, content, acked, gone>>
  BY DEF CloseBegin, diskVars, history
<1>2. /\ closed' \in [Torrents -> BOOLEAN] /\ closed'[t] = TRUE /\ \A u \in Torrents : closed[u] => closed'[u]
      /\ \A u \in Torrents : u # t => closed'[u] = closed[u]
  BY <1>1 DEF IInv, Types
<1>3. /\ DOMAIN closer' = DOMAIN closer /\ closer'[k] = z /\ \A l \in DOMAIN closer : l # k => closer'[l] = closer[l]
  BY <1>1
<1>4. Types'
  <2>1. z \in Closers
    BY DEF Closers
  <2>. QED  BY <1>1, <1>2, <2>1 DEF IInv, Types, Busy
<1>5. DiskInv'
  BY <1>1 DEF IInv, DiskInv
<1>6. \A u \in Torrents : UNCHANGED InTab(u) /\ UNCHANGED OpenFor(u)
  BY <1>1 DEF InTab, OpenFor
<1>7. FdInv'
  <2>1. TakenBy(z) = {}
    BY DEF TakenBy
  <2>. HIDE DEF z
  <2>2. \A l \in DOMAIN closer : TakenBy(closer'[l]) = {} \/ closer'[l] = closer[l]
    BY <1>3, <2>1
  <2>3. \A l \in DOMAIN closer : TakenBy(closer'[l]) # {} => TakenBy(closer'[l]) \subseteq OpenFor(closer'[l].t)
    BY <2>2 DEF IInv, FdInv
  <2>4. \A l \in DOMAIN closer, u \in Torrents : TakenBy(closer'[l]) \cap InTab(u) = {}
    BY <2>2 DEF IInv, FdInv
  <2>5. \A c \in Callers, l \in DOMAIN closer : HeldBy(call[c]) \cap TakenBy(closer'[l]) = {}
    BY <2>2 DEF IInv, FdInv
  <2>6. \A l, j \in DOMAIN closer : l # j => TakenBy(closer'[l]) \cap TakenBy(closer'[j]) = {}
    BY <2>2 DEF IInv, FdInv
  <2>7. /\ \A u \in Torrents : InTab(u)' \subseteq OpenFor(u)' /\ Apart(table'[u])
        /\ \A c \in Callers : (HeldBy(call[c]) # {} => HeldBy(call[c]) \subseteq OpenFor(call[c].t))'
        /\ \A c \in Callers, u \in Torrents : HeldBy(call'[c]) \cap InTab(u)' = {}
        /\ \A c, d \in Callers : c # d => HeldBy(call'[c]) \cap HeldBy(call'[d]) = {}
    <3>1. \A u : UNCHANGED OpenFor(u)
      BY <1>1 DEF OpenFor
    <3>. QED  BY <1>1, <1>6, <3>1 DEF IInv, FdInv, OpenFor
  <2>8. \A l \in DOMAIN closer : (TakenBy(closer[l]) # {} => TakenBy(closer[l]) \subseteq OpenFor(closer[l].t))'
    BY <1>1, <2>3 DEF OpenFor
  <2>9. /\ \A l \in DOMAIN closer', u \in Torrents : TakenBy(closer'[l]) \cap InTab(u)' = {}
        /\ \A c \in Callers, l \in DOMAIN closer' : HeldBy(call'[c]) \cap TakenBy(closer'[l]) = {}
        /\ \A l, j \in DOMAIN closer' : l # j => TakenBy(closer'[l]) \cap TakenBy(closer'[j]) = {}
    BY <1>1, <1>3, <1>6, <2>4, <2>5, <2>6
  <2>10. \A l \in DOMAIN closer' : (TakenBy(closer[l]) # {} => TakenBy(closer[l]) \subseteq OpenFor(closer[l].t))'
    BY <1>3, <2>8
  <2>. QED  BY <2>7, <2>9, <2>10 DEF FdInv
<1>8. FileInv'
  <2>1. \A u \in Torrents : ~closed'[u] => TableOn(u)'
    BY <1>1, <1>2 DEF IInv, FileInv, TableOn, OnFile
  <2>2. \A c \in Callers : CallOn(c)'
    <3>. SUFFICES ASSUME NEW c \in Callers, call[c].pc = "install", ~closed'[call[c].t]
                  PROVE  OnFile(PathIn(call[c]), call[c].fd)
      BY <1>1 DEF CallOn, OnFile
    <3>1. call[c].t \in Torrents
      BY CallFacts DEF Busy
    <3>. QED  BY <1>2, <3>1 DEF IInv, FileInv, CallOn
  <2>. QED  BY <2>1, <2>2 DEF FileInv
<1>9. LiveInv'
  <2>1. \A c \in Callers : Busy(c)' => LiveCall(call[c])'
    <3>. SUFFICES ASSUME NEW c \in Callers, Busy(c) PROVE LiveCall(call[c])'
      BY <1>1 DEF Busy
    <3>1. LiveCall(call[c]) /\ call[c].t \in Torrents
      BY CallFacts
    <3>2. call[c].pc = "op" \/ call[c].excl => call[c].t # t
      BY <1>1 DEF ExclusiveFree, SharedFree, On
    <3>. QED  BY <1>1, <1>2, <3>1, <3>2 DEF LiveCall
  <2>2. \A u \in Torrents : UNCHANGED Inflight(u)
    BY <1>1 DEF Inflight, On, Busy
  <2>3. \A l \in DOMAIN closer : closer[l].pc \in {"wait", "close", "next"} => closer[l].t \in Torrents /\ closer[l].rest \subseteq Torrents
    BY DEF IInv, Types, Closers
  <2>4. \A l \in DOMAIN closer : /\ closer'[l].pc \in {"wait", "close"} => closed'[closer'[l].t]
                                 /\ closer'[l].pc \in {"wait", "close", "next"} => \A u \in closer'[l].rest : u \in group \/ closed'[u]
    BY <1>2, <1>3, <2>3 DEF IInv, LiveInv
  <2>5. \A l \in DOMAIN closer : closer'[l].pc = "close" => closer'[l] = closer[l]
    BY <1>3
  <2>6. \A l \in DOMAIN closer : closer'[l].pc = "close" =>
          Entries(table[closer'[l].t]) = {} /\ Inflight(closer'[l].t) = {}
    BY <2>5 DEF IInv, LiveInv
  <2>7. \A l \in DOMAIN closer : (closer[l].pc = "close" =>
          Entries(table[closer[l].t]) = {} /\ Inflight(closer[l].t) = {})'
    BY <1>1, <2>6 DEF Inflight, On, Busy
  <2>8. \A u \in Torrents : (Entries(table[u]) # {} => u \in group)'
    BY <1>1 DEF IInv, LiveInv
  <2>. QED  BY <1>1, <1>3, <2>1, <2>4, <2>7, <2>8 DEF LiveInv
<1>10. DiscardInv'
  BY <1>1 DEF IInv, DiscardInv, Sole
<1>. QED  BY <1>4, <1>5, <1>7, <1>8, <1>9, <1>10 DEF IInv

\* Close takes the table: the handles are its own to close.
LEMMA CloseTakeStep == ASSUME IInv, NEW k \in DOMAIN closer, CloseTake(k) PROVE IInv'
<1>0. PICK t \in Torrents : t = closer[k].t
  BY DEF CloseTake, IInv, Types, Closers
<1>. DEFINE T == {table[t][n].fd : n \in DOMAIN table[t]}
            x == closer[k]
            z == [x EXCEPT !.pc = "close", !.out = T]
<1>1. /\ x.pc = "wait" /\ Inflight(t) = {} /\ ExclusiveFree(t) /\ table' = [table EXCEPT ![t] = <<>>]
      /\ UNCHANGED <<group, closed, fds, call, disk, dirs, content, acked, gone>>
  BY <1>0 DEF CloseTake, diskVars, openVars, history
<1>2. T = InTab(t) /\ InTab(t) \subseteq OpenFor(t) /\ OpenFor(t) \subseteq Fds
  <2>1. InTab(t) \subseteq OpenFor(t)
    BY DEF IInv, FdInv
  <2>. QED  BY <2>1 DEF InTab, Entries, OpenFor
<1>3. closer' = [closer EXCEPT ![k] = z]
  BY <1>0 DEF CloseTake
<1>4. x \in Closers /\ closed[t] /\ DOMAIN closer = Torrents \cup Stores
  BY <1>0, <1>1 DEF IInv, Types, LiveInv
<1>. HIDE DEF T, x
<1>5. x \in [pc : {"wait", "close", "next"}, t : Torrents, rest : SUBSET Torrents, out : SUBSET Fds] /\ x.t = t
  BY <1>0, <1>1, <1>4 DEF Closers, x
<1>6. z \in Closers /\ z.pc = "close" /\ z.t = t /\ z.rest = x.rest /\ z.out = T
  BY <1>2, <1>5 DEF Closers
<1>. HIDE DEF z
<1>7. /\ DOMAIN closer' = DOMAIN closer /\ closer'[k] = z /\ \A l \in DOMAIN closer : l # k => closer'[l] = closer[l]
  BY <1>3
<1>8. /\ DOMAIN table' = Torrents /\ table'[t] = <<>> /\ \A u \in Torrents : u # t => table'[u] = table[u]
      /\ Entries(table'[t]) = {} /\ Apart(table'[t])
  <2>1. DOMAIN table = Torrents
    BY DEF IInv, Types
  <2>2. DOMAIN table' = Torrents /\ table'[t] = <<>> /\ \A u \in Torrents : u # t => table'[u] = table[u]
    BY <1>1, <2>1
  <2>. QED  BY <2>2 DEF Entries, Apart
<1>9. Types'
  BY <1>1, <1>3, <1>6, <1>8 DEF IInv, Types, Busy
<1>10. DiskInv'
  BY <1>1 DEF IInv, DiskInv
<1>11. /\ \A u : UNCHANGED OpenFor(u)
       /\ InTab(t)' = {} /\ \A u \in Torrents : u # t => InTab(u)' = InTab(u)
  BY <1>1, <1>8 DEF OpenFor, InTab
<1>12. FdInv'
  <2>1. TakenBy(z) = T /\ TakenBy(z) \subseteq OpenFor(t) /\ \A u \in Torrents : u # t => TakenBy(z) \cap InTab(u) = {}
    <3>1. TakenBy(z) = T
      BY <1>6 DEF TakenBy
    <3>2. ASSUME NEW u \in Torrents, u # t, NEW n \in InTab(t), n \in InTab(u) PROVE FALSE
      BY <3>2 DEF IInv, FdInv, OpenFor
    <3>. QED  BY <1>2, <3>1, <3>2
  <2>2. \A l \in DOMAIN closer : l # k => TakenBy(closer[l]) \cap T = {}
    BY <1>2 DEF IInv, FdInv
  <2>3. \A u \in Torrents : InTab(u)' \subseteq OpenFor(u)' /\ Apart(table'[u])
    <3>1. \A u \in Torrents : InTab(u) \subseteq OpenFor(u) /\ Apart(table[u])
      BY DEF IInv, FdInv
    <3>2. \A u : OpenFor(u)' = OpenFor(u)
      BY <1>11
    <3>. QED  BY <1>8, <1>11, <3>1, <3>2
  <2>8. \A c \in Callers : (HeldBy(call[c]) # {} => HeldBy(call[c]) \subseteq OpenFor(call[c].t))'
    BY <1>1 DEF IInv, FdInv, OpenFor
  <2>9. /\ \A c \in Callers, u \in Torrents : HeldBy(call'[c]) \cap InTab(u)' = {}
        /\ \A c, d \in Callers : c # d => HeldBy(call'[c]) \cap HeldBy(call'[d]) = {}
    BY <1>1, <1>8, <1>11 DEF IInv, FdInv
  <2>4. \A l \in DOMAIN closer' : (TakenBy(closer[l]) # {} => TakenBy(closer[l]) \subseteq OpenFor(closer[l].t))'
    BY <1>1, <1>6, <1>7, <2>1 DEF IInv, FdInv, OpenFor
  <2>5. \A l \in DOMAIN closer', u \in Torrents : TakenBy(closer'[l]) \cap InTab(u)' = {}
    BY <1>7, <1>11, <2>1 DEF IInv, FdInv
  <2>6. \A c \in Callers, l \in DOMAIN closer' : HeldBy(call'[c]) \cap TakenBy(closer'[l]) = {}
    BY <1>1, <1>2, <1>7, <2>1 DEF IInv, FdInv
  <2>7. \A l, j \in DOMAIN closer' : l # j => TakenBy(closer'[l]) \cap TakenBy(closer'[j]) = {}
    BY <1>7, <2>1, <2>2 DEF IInv, FdInv
  <2>. QED  BY <2>3, <2>4, <2>5, <2>6, <2>7, <2>8, <2>9 DEF FdInv
<1>13. FileInv'
  <2>1. \A u \in Torrents : ~closed'[u] => TableOn(u)'
    BY <1>1, <1>4, <1>8 DEF IInv, FileInv, TableOn, OnFile
  <2>2. \A c \in Callers : CallOn(c)'
    BY <1>1 DEF IInv, FileInv, CallOn, OnFile
  <2>. QED  BY <2>1, <2>2 DEF FileInv
<1>14. LiveInv'
  <2>1. \A c \in Callers : Busy(c)' => LiveCall(call[c])'
    <3>. SUFFICES ASSUME NEW c \in Callers, Busy(c) PROVE LiveCall(call[c])'
      BY <1>1 DEF Busy
    <3>1. LiveCall(call[c]) /\ call[c].t \in Torrents
      BY CallFacts
    <3>2. call[c].pc = "op" => call[c].t # t
      BY <1>1 DEF ExclusiveFree, On
    <3>. QED  BY <1>1, <1>8, <3>1, <3>2 DEF LiveCall
  <2>2. \A u : UNCHANGED Inflight(u)
    BY <1>1 DEF Inflight, On, Busy
  <2>3. \A l \in DOMAIN closer : closer[l].pc \in {"wait", "close", "next"} => closer[l].t \in Torrents
    BY DEF IInv, Types, Closers
  <2>4. \A l \in DOMAIN closer' : /\ closer'[l].pc \in {"wait", "close"} => closed'[closer'[l].t]
                                  /\ closer'[l].pc \in {"wait", "close", "next"} => \A u \in closer'[l].rest : u \in group' \/ closed'[u]
    <3>1. \A u \in x.rest : u \in group \/ closed[u]
      BY <1>1 DEF IInv, LiveInv, x
    <3>. QED  BY <1>1, <1>4, <1>6, <1>7, <3>1 DEF IInv, LiveInv
  <2>5. \A l \in DOMAIN closer : closer'[l].pc = "close" =>
          Entries(table'[closer'[l].t]) = {} /\ Inflight(closer'[l].t) = {}
    BY <1>1, <1>6, <1>7, <1>8, <2>3 DEF IInv, LiveInv
  <2>6. \A l \in DOMAIN closer' : (closer[l].pc = "close" =>
          Entries(table[closer[l].t]) = {} /\ Inflight(closer[l].t) = {})'
    BY <1>1, <1>7, <2>5 DEF Inflight, On, Busy
  <2>7. \A u \in Torrents : (Entries(table[u]) # {} => u \in group)'
    BY <1>1, <1>8 DEF IInv, LiveInv
  <2>. QED  BY <2>1, <2>4, <2>6, <2>7 DEF LiveInv
<1>15. DiscardInv'
  BY <1>1 DEF IInv, DiscardInv, Sole
<1>. QED  BY <1>9, <1>10, <1>12, <1>13, <1>14, <1>15 DEF IInv

\* Close closes what it took, and its torrent leaves the store.
LEMMA CloseHandlesStep == ASSUME IInv, NEW k \in DOMAIN closer, CloseHandles(k) PROVE IInv'
<1>0. PICK t \in Torrents : t = closer[k].t
  BY DEF CloseHandles, IInv, Types, Closers
<1>. DEFINE x == closer[k]
            z == IF x.rest = {} THEN [pc |-> "done"] ELSE [x EXCEPT !.pc = "next"]
<1>1. /\ x.pc = "close" /\ Closing(x.out) /\ group' = group \ {t} /\ closer' = [closer EXCEPT ![k] = z]
      /\ UNCHANGED <<closed, table, call, disk, dirs, content, acked, gone>>
  BY <1>0 DEF CloseHandles, diskVars, history
<1>2. /\ x \in Closers /\ closed[t] /\ DOMAIN closer = Torrents \cup Stores
      /\ Entries(table[t]) = {} /\ Inflight(t) = {} /\ TakenBy(x) = x.out
  BY <1>0, <1>1 DEF IInv, Types, LiveInv, TakenBy
<1>. HIDE DEF x
<1>3. x \in [pc : {"wait", "close", "next"}, t : Torrents, rest : SUBSET Torrents, out : SUBSET Fds] /\ x.t = t
  BY <1>0, <1>1, <1>2 DEF Closers, x
<1>4. z \in Closers /\ z.pc \in {"done", "next"} /\ (z.pc = "next" => z.rest = x.rest)
  <2>1. CASE x.rest = {}
    BY <2>1 DEF Closers
  <2>2. CASE x.rest # {}
    BY <1>3, <2>2 DEF Closers
  <2>. QED  BY <2>1, <2>2
<1>. HIDE DEF z
<1>5. /\ DOMAIN closer' = DOMAIN closer /\ closer'[k] = z /\ \A l \in DOMAIN closer : l # k => closer'[l] = closer[l]
  BY <1>1
<1>6. /\ fds' = [n \in Fds |-> IF n \in x.out THEN NoFd ELSE fds[n]] /\ fds' \in [Fds -> OpenFds \cup {NoFd}]
  BY <1>1 DEF Closing, IInv, Types
<1>7. /\ \A u \in Torrents : InTab(u) \cap x.out = {}
      /\ \A c \in Callers : HeldBy(call[c]) \cap x.out = {}
      /\ \A l \in DOMAIN closer : l # k => TakenBy(closer[l]) \cap x.out = {}
  BY <1>2 DEF IInv, FdInv, x
<1>8. Types'
  BY <1>1, <1>4, <1>6 DEF IInv, Types, Busy
<1>9. DiskInv'
  BY <1>1 DEF IInv, DiskInv
<1>10. \A u, n : n \in OpenFor(u) /\ n \notin x.out => n \in OpenFor(u)' /\ fds'[n] = fds[n]
  BY <1>6 DEF OpenFor
<1>11. FdInv'
  <2>1. TakenBy(z) = {}
    BY <1>4 DEF TakenBy
  <2>2. \A u \in Torrents : UNCHANGED InTab(u)
    BY <1>1 DEF InTab
  <2>3. \A u \in Torrents : InTab(u)' \subseteq OpenFor(u)' /\ Apart(table'[u])
    BY <1>1, <1>7, <1>10, <2>2 DEF IInv, FdInv
  <2>4. ASSUME NEW c \in Callers, HeldBy(call[c]) # {} PROVE HeldBy(call[c]) \subseteq OpenFor(call[c].t)'
    <3>1. PICK u : u = call[c].t
      OBVIOUS
    <3>2. HeldBy(call[c]) \subseteq OpenFor(u)
      BY <2>4, <3>1 DEF IInv, FdInv
    <3>3. HeldBy(call[c]) \subseteq OpenFor(u)'
      BY <1>7, <1>10, <3>2
    <3>. QED  BY <1>1, <3>1, <3>3 DEF OpenFor
  <2>5. ASSUME NEW l \in DOMAIN closer', TakenBy(closer'[l]) # {} PROVE (TakenBy(closer[l]) \subseteq OpenFor(closer[l].t))'
    <3>1. l # k /\ closer'[l] = closer[l]
      BY <1>5, <2>1, <2>5
    <3>2. PICK u : u = closer[l].t
      OBVIOUS
    <3>3. TakenBy(closer[l]) \subseteq OpenFor(u)
      BY <1>5, <2>5, <3>1, <3>2 DEF IInv, FdInv
    <3>4. TakenBy(closer[l]) \subseteq OpenFor(u)'
      BY <1>5, <1>7, <1>10, <3>1, <3>3
    <3>. QED  BY <3>1, <3>2, <3>4 DEF OpenFor
  <2>6. /\ \A c \in Callers, u \in Torrents : HeldBy(call'[c]) \cap InTab(u)' = {}
        /\ \A c, d \in Callers : c # d => HeldBy(call'[c]) \cap HeldBy(call'[d]) = {}
    BY <1>1, <2>2 DEF IInv, FdInv
  <2>7. \A l \in DOMAIN closer', u \in Torrents : TakenBy(closer'[l]) \cap InTab(u)' = {}
    BY <1>5, <2>1, <2>2 DEF IInv, FdInv
  <2>8. \A c \in Callers, l \in DOMAIN closer' : HeldBy(call'[c]) \cap TakenBy(closer'[l]) = {}
    BY <1>1, <1>5, <2>1 DEF IInv, FdInv
  <2>9. \A l, j \in DOMAIN closer' : l # j => TakenBy(closer'[l]) \cap TakenBy(closer'[j]) = {}
    BY <1>5, <2>1 DEF IInv, FdInv
  <2>10. \A c \in Callers : (HeldBy(call[c]) # {} => HeldBy(call[c]) \subseteq OpenFor(call[c].t))'
    BY <1>1, <2>4 DEF OpenFor
  <2>. QED  BY <2>3, <2>5, <2>6, <2>7, <2>8, <2>9, <2>10 DEF FdInv
<1>12. FileInv'
  <2>1. ASSUME NEW u \in Torrents, ~closed[u], NEW e \in Entries(table[u])
        PROVE  OnFile(PathOf[u][e.file], e.fd)'
    <3>1. OnFile(PathOf[u][e.file], e.fd) /\ e.fd \in InTab(u)
      BY <2>1 DEF IInv, FileInv, TableOn, InTab
    <3>2. e.fd \in OpenFor(u) /\ e.fd \notin x.out
      BY <1>7, <3>1 DEF IInv, FdInv
    <3>3. fds'[e.fd] = fds[e.fd]
      BY <1>10, <3>2
    <3>. QED  BY <1>1, <3>1, <3>3 DEF OnFile
  <2>2. ASSUME NEW c \in Callers, call[c].pc = "install", ~closed[call[c].t]
        PROVE  OnFile(PathIn(call[c]), call[c].fd)'
    <3>1. OnFile(PathIn(call[c]), call[c].fd) /\ call[c].fd \in HeldBy(call[c])
      BY <2>2 DEF IInv, FileInv, CallOn, HeldBy
    <3>2. call[c].fd \in OpenFor(call[c].t) /\ call[c].fd \notin x.out
      BY <1>7, <3>1 DEF IInv, FdInv
    <3>3. fds'[call[c].fd] = fds[call[c].fd]
      BY <1>10, <3>2
    <3>. QED  BY <1>1, <3>1, <3>3 DEF OnFile
  <2>. QED  BY <1>1, <2>1, <2>2 DEF FileInv, TableOn, CallOn
<1>13. LiveInv'
  <2>1. \A c \in Callers : Busy(c)' => LiveCall(call[c])'
    <3>. SUFFICES ASSUME NEW c \in Callers, Busy(c) PROVE LiveCall(call[c])'
      BY <1>1 DEF Busy
    <3>1. LiveCall(call[c]) /\ call[c].t \in Torrents
      BY CallFacts
    <3>2. call[c].entered => call[c].t # t
      BY <1>2 DEF Inflight, On
    <3>. QED  BY <1>1, <1>2, <3>1, <3>2 DEF LiveCall
  <2>2. \A l \in DOMAIN closer : closer[l].pc \in {"wait", "close", "next"} => closer[l].t \in Torrents
    BY DEF IInv, Types, Closers
  <2>4. \A l \in DOMAIN closer' : /\ closer'[l].pc \in {"wait", "close"} => closed'[closer'[l].t]
                                  /\ closer'[l].pc \in {"wait", "close", "next"} => \A u \in closer'[l].rest : u \in group' \/ closed'[u]
    <3>1. \A u \in x.rest : u \in group \/ closed[u]
      BY <1>1 DEF IInv, LiveInv, x
    <3>. QED  BY <1>1, <1>2, <1>4, <1>5, <3>1 DEF IInv, LiveInv
  <2>5. \A l \in DOMAIN closer : closer'[l].pc = "close" =>
          Entries(table'[closer'[l].t]) = {} /\ Inflight(closer'[l].t) = {}
    BY <1>1, <1>4, <1>5 DEF IInv, LiveInv
  <2>6. \A l \in DOMAIN closer' : (closer[l].pc = "close" =>
          Entries(table[closer[l].t]) = {} /\ Inflight(closer[l].t) = {})'
    BY <1>1, <1>5, <2>5 DEF Inflight, On, Busy
  <2>7. \A u \in Torrents : (Entries(table[u]) # {} => u \in group)'
    BY <1>1, <1>2 DEF IInv, LiveInv
  <2>. QED  BY <2>1, <2>4, <2>6, <2>7 DEF LiveInv
<1>14. DiscardInv'
  BY <1>1 DEF IInv, DiscardInv, Sole
<1>. QED  BY <1>8, <1>9, <1>11, <1>12, <1>13, <1>14 DEF IInv

----------------------------------------------------------------------------
(* The invariant of the store. *)

LEMMA InitIInv == Init => IInv
<1>. SUFFICES ASSUME Init PROVE IInv
  OBVIOUS
<1>1. /\ DOMAIN call = Callers /\ \A c \in Callers : call[c].pc = "idle"
      /\ \A c \in Callers : ~Busy(c) /\ HeldBy(call[c]) = {} /\ ~Creator(call[c])
  BY DEF Init, Idle, Busy, HeldBy, Creator, Discarding
<1>2. /\ DOMAIN closer = Torrents \cup Stores /\ \A k \in DOMAIN closer : closer[k].pc = "none"
      /\ \A k \in DOMAIN closer : TakenBy(closer[k]) = {}
  BY DEF Init, TakenBy
<1>3. \A t \in Torrents : table[t] = <<>> /\ Entries(table[t]) = {} /\ InTab(t) = {} /\ Apart(table[t])
  <2>1. \A t \in Torrents : table[t] = <<>>
    BY DEF Init
  <2>. QED  BY <2>1 DEF Entries, InTab, Apart
<1>4. Types
  <2>1. group \subseteq Torrents /\ closed \in [Torrents -> BOOLEAN] /\ dirs = {}
    BY TorrentsAssumption DEF Init
  <2>2. DOMAIN table = Torrents /\ \A t \in Torrents : table[t] \in Seq(Handles(t))
    BY <1>3 DEF Init
  <2>3. fds \in [Fds -> OpenFds \cup {NoFd}]
    BY DEF Init, Fds
  <2>4. closer \in [Torrents \cup Stores -> Closers]
    BY DEF Init, Closers
  <2>. QED  BY <1>1, <2>1, <2>2, <2>3, <2>4 DEF Types
<1>5. DiskInv
  BY DEF Init, DiskInv, Inodes
<1>6. LiveInv
  BY <1>1, <1>2, <1>3 DEF LiveInv
<1>7. FdInv
  BY <1>1, <1>2, <1>3 DEF FdInv
<1>8. FileInv
  BY <1>1, <1>3 DEF FileInv, TableOn, CallOn
<1>9. DiscardInv
  BY <1>1 DEF DiscardInv
<1>. QED  BY <1>4, <1>5, <1>6, <1>7, <1>8, <1>9 DEF IInv

LEMMA CallInvStep == ASSUME IInv, NEW c \in Callers, CallStep(c) PROVE IInv'
BY WithOpenFileStep, OpStep, MarkStep, OpenExistingStep, ListMissingStep, MkdirAllStep, CreateExclusiveStep,
   ReopenStep, InstallStep, CloseOutStep, LastResortStep, InstallLockedStep, DiscardListStep, DiscardCheckStep,
   DiscardRemoveStep DEF CallStep

\* The torrents a Close begins, and those it has still to close, were open.
LEMMA Closes ==
    ASSUME IInv, \/ \E t \in Dropped : Drop(t)
                 \/ \E s \in Stores : StoreClose(s) \/ CloseNext(s)
    PROVE  \E k \in DOMAIN closer, t \in Torrents, rest \in SUBSET Torrents :
             /\ closer[k].pc \in {"none", "next"} /\ (t \in group \/ closed[t])
             /\ \A u \in rest : u \in group \/ closed[u]
             /\ CloseBegin(k, t, rest)
<1>1. DOMAIN closer = Torrents \cup Stores /\ group \subseteq Torrents /\ Dropped \subseteq Torrents
  BY TorrentsAssumption DEF IInv, Types
<1>2. CASE \E t \in Dropped : Drop(t)
  BY <1>1, <1>2 DEF Drop
<1>3. ASSUME NEW s \in Stores, StoreClose(s)
      PROVE  \E t \in Torrents, rest \in SUBSET Torrents :
               /\ closer[s].pc \in {"none", "next"} /\ (t \in group \/ closed[t])
               /\ \A u \in rest : u \in group \/ closed[u]
               /\ CloseBegin(s, t, rest)
  <2>1. PICK t \in {u \in group : StoreOf(u) = s} : CloseBegin(s, t, {u \in group : StoreOf(u) = s} \ {t})
    BY <1>3 DEF StoreClose
  <2>2. closer[s].pc = "none"
    BY <1>3 DEF StoreClose
  <2>3. {u \in group : StoreOf(u) = s} \ {t} \in SUBSET Torrents
    BY <1>1
  <2>. QED  BY <1>1, <2>1, <2>2, <2>3
<1>4. ASSUME NEW s \in Stores, CloseNext(s)
      PROVE  \E t \in Torrents, rest \in SUBSET Torrents :
               /\ closer[s].pc \in {"none", "next"} /\ (t \in group \/ closed[t])
               /\ \A u \in rest : u \in group \/ closed[u]
               /\ CloseBegin(s, t, rest)
  <2>1. closer[s].pc = "next" /\ s \in DOMAIN closer
    BY <1>1, <1>4 DEF CloseNext
  <2>2. PICK t \in closer[s].rest : CloseBegin(s, t, closer[s].rest \ {t})
    BY <1>4 DEF CloseNext
  <2>3. closer[s] \in Closers
    BY <1>1, <2>1 DEF IInv, Types
  <2>4. closer[s].rest \subseteq Torrents
    BY <2>1, <2>3 DEF Closers
  <2>5. \A u \in closer[s].rest : u \in group \/ closed[u]
    BY <2>1 DEF IInv, LiveInv
  <2>. QED  BY <2>1, <2>2, <2>4, <2>5
<1>. QED  BY <1>1, <1>2, <1>3, <1>4

\* With ~LateOpens, one step keeps the invariant.
LEMMA NextIInv == ASSUME ~LateOpens, IInv, [Next]_vars PROVE IInv'
<1>1. ASSUME NEW t \in Torrents, OpenTorrent(t) PROVE IInv'
  BY <1>1, OpenTorrentStep
<1>2. ASSUME NEW c \in Callers, NEW t \in Torrents, NEW kind \in {"write", "check"}, NEW p \in Pieces(t),
             Begin(c, t, p, kind)
      PROVE  IInv'
  BY <1>2, BeginStep
<1>3. ASSUME NEW c \in Callers, CallStep(c) PROVE IInv'
  BY <1>3, CallInvStep
<1>4. ASSUME NEW t \in Torrents, NEW p \in Pieces(t), Completion(t, p) PROVE IInv'
  BY <1>4, CompletionStep
<1>5. CASE (\E t \in Dropped : Drop(t)) \/ \E s \in Stores : StoreClose(s) \/ CloseNext(s)
  BY <1>5, Closes, CloseBeginStep
<1>6. ASSUME NEW k \in Torrents \cup Stores, CloserStep(k) PROVE IInv'
  BY <1>6, CloseTakeStep, CloseHandlesStep DEF CloserStep, IInv, Types
<1>7. ASSUME NEW f \in DOMAIN disk, UserDeletes(f) PROVE IInv'
  BY <1>7, UserDeletesStep
<1>8. CASE UNCHANGED vars
  BY <1>8, NothingStep DEF vars
<1>9. CASE Over
  BY <1>8, <1>9 DEF Over
<1>. QED  BY <1>1, <1>2, <1>3, <1>4, <1>5, <1>6, <1>7, <1>8, <1>9 DEF Next

----------------------------------------------------------------------------
(* The store implements what it promises of the data: each step is a step of
   TorrentData, or changes nothing that it sees. *)

\* The chunks on disk, one by one.
LEMMA StoredChunks ==
    ASSUME NEW f, NEW p
    PROVE  <<f, p>> \in Stored <=> f \in DOMAIN disk /\ p \in content[disk[f]]
BY DEF Stored

LEMMA StoredShape == \A a \in Stored : a = <<a[1], a[2]>>
BY DEF Stored

LEMMA SamePhase == ASSUME UNCHANGED <<group, closed>> PROVE UNCHANGED [t \in Torrents |-> Phase(t)]
BY DEF Phase

LEMMA Unseen ==
    ASSUME UNCHANGED <<group, closed, disk, content, acked, gone>>
    PROVE  UNCHANGED Data!vars
<1>1. Stored' = Stored
  BY DEF Stored
<1>. QED  BY <1>1, SamePhase DEF Data!vars

\* A write puts its chunk into a torrent that is open.
LEMMA WritePuts ==
    ASSUME IInv, NEW c \in Callers, Op(c), Write(c)
    PROVE  Data!Next
<1>0. PICK t \in Torrents : t = call[c].t
  BY CallFacts DEF Op, Busy
<1>. DEFINE n == fds[call[c].fd].inode
            f == Real(Path(c))
            p == call[c].piece
<1>1. /\ content' = [content EXCEPT ![n] = @ \cup {p}]
      /\ acked' = IF f \in gone THEN acked ELSE acked \cup {<<f, p>>}
      /\ UNCHANGED <<group, closed, disk, gone>>
  BY DEF Op, openVars
<1>2. t \in group /\ ~closed[t] /\ OnFile(Path(c), call[c].fd) /\ Busy(c)
  BY <1>0, HandleInUse DEF Op
<1>3. /\ \A g \in DOMAIN disk : disk[g] = n => g = f
      /\ f \notin gone => f \in DOMAIN disk /\ disk[f] = n
  BY <1>2 DEF OnFile
<1>4. p \in Pieces(t) /\ File(c) \in DOMAIN PathOf[t] /\ Path(c) = PathOf[t][File(c)]
  BY <1>0, <1>2, CallFacts, PathOfCall DEF Path
<1>5. <<f, p>> \in Chunks(t)
  BY <1>4 DEF Chunks
<1>6. [u \in Torrents |-> Phase(u)][t] = "open"
  BY <1>2 DEF Phase
<1>7. \A g \in DOMAIN disk : disk[g] \in Inodes
  BY DEF IInv, DiskInv
<1>8. content \in [Inodes -> SUBSET AllPieces]
  BY DEF IInv, DiskInv
<1>. HIDE DEF n, f, p
<1>9. \A g \in DOMAIN disk : content'[disk[g]] = IF disk[g] = n THEN content[disk[g]] \cup {p} ELSE content[disk[g]]
  BY <1>1, <1>7, <1>8
<1>10. CASE f \in DOMAIN disk /\ disk[f] = n
  <2>1. Stored' = Stored \cup {<<f, p>>}
    <3>1. \A a \in Stored' : a \in Stored \cup {<<f, p>>}
      BY <1>1, <1>3, <1>9 DEF Stored
    <3>2. \A a \in Stored : a \in Stored'
      BY <1>1, <1>9 DEF Stored
    <3>3. <<f, p>> \in Stored'
      BY <1>1, <1>9, <1>10 DEF Stored
    <3>. QED  BY <3>1, <3>2, <3>3
  <2>. QED  BY <1>1, <1>5, <1>6, <2>1, SamePhase DEF Data!Next, Data!Put
<1>11. CASE ~(f \in DOMAIN disk /\ disk[f] = n)
  <2>1. f \in gone /\ \A g \in DOMAIN disk : disk[g] # n
    BY <1>3, <1>11
  <2>2. Stored' = Stored
    BY <1>1, <1>9, <2>1 DEF Stored
  <2>. QED  BY <1>1, <1>5, <1>6, <2>1, <2>2, SamePhase DEF Data!Next, Data!Put
<1>. QED  BY <1>10, <1>11

LEMMA OpData == ASSUME IInv, NEW c \in Callers, Op(c) PROVE [Data!Next]_(Data!vars)
<1>1. CASE Write(c)
  BY <1>1, WritePuts
<1>2. CASE ~Write(c)
  BY <1>2, Unseen DEF Op, openVars
<1>. QED  BY <1>1, <1>2

\* A file that is created is empty.
LEMMA CreateData == ASSUME IInv, NEW c \in Callers, CreateExclusive(c) PROVE UNCHANGED Data!vars
<1>1. UNCHANGED <<group, closed, content, acked, gone>>
  BY DEF CreateExclusive, openVars, history
<1>2. CASE UNCHANGED disk
  BY <1>1, <1>2, Unseen
<1>3. CASE disk' # disk
  <2>. DEFINE n == CHOOSE m \in FreshInodes : TRUE
              f == Real(Path(c))
  <2>1. FreshInodes # {} /\ disk' = [g \in DOMAIN disk \cup {f} |-> IF g = f THEN n ELSE disk[g]]
    BY <1>3 DEF CreateExclusive
  <2>2. n \in FreshInodes
    BY <2>1
  <2>3. content[n] = {}
    BY <2>2 DEF FreshInodes
  <2>4. f \notin DOMAIN disk
    BY <1>3 DEF CreateExclusive, Exists
  <2>. HIDE DEF n, f
  <2>5. Stored' = Stored
    BY <1>1, <2>1, <2>3, <2>4 DEF Stored
  <2>. QED  BY <1>1, <2>5, SamePhase DEF Data!vars
<1>. QED  BY <1>2, <1>3

\* A file that is gone from the disk with nothing in it, or with its user's leave.
LEMMA WithoutFileData ==
    ASSUME IInv, NEW f \in DOMAIN disk, disk' = [g \in DOMAIN disk \ {f} |-> disk[g]], UNCHANGED content
    PROVE  /\ Stored' = {a \in Stored : a[1] # f}
           /\ content[disk[f]] = {} => Stored' = Stored
           /\ \E t \in Torrents : \E a \in Chunks(t) : a[1] = f
<1>1. Stored' = {a \in Stored : a[1] # f}
  BY DEF Stored
<1>2. content[disk[f]] = {} => Stored' = Stored
  BY DEF Stored
<1>3. \E t \in Torrents : \E a \in Chunks(t) : a[1] = f
  <2>1. PICK t \in Torrents : Pieces(t) # {} /\ \E p \in PathsOf(t) : f = Real(p)
    BY DEF IInv, DiskInv
  <2>2. PICK i \in DOMAIN PathOf[t] : f = Real(PathOf[t][i])
    BY <2>1 DEF PathsOf
  <2>3. PICK p \in Pieces(t) : TRUE
    BY <2>1
  <2>4. <<f, p>> \in Chunks(t)
    BY <2>2 DEF Chunks
  <2>. QED  BY <2>4
<1>. QED  BY <1>1, <1>2, <1>3

LEMMA UserDeletesData == ASSUME IInv, NEW f \in DOMAIN disk, UserDeletes(f) PROVE Data!Next
<1>1. /\ disk' = [g \in DOMAIN disk \ {f} |-> disk[g]] /\ UNCHANGED <<group, closed, content>>
      /\ gone' = gone \cup {f} /\ acked' = {a \in acked : a[1] # f}
  BY DEF UserDeletes, openVars
<1>2. /\ Stored' = {a \in Stored : a[1] # f}
      /\ \E t \in Torrents : \E a \in Chunks(t) : a[1] = f
  BY <1>1, WithoutFileData
<1>3. f \in {a[1] : a \in UNION {Chunks(t) : t \in Torrents}}
  BY <1>2
<1>. QED  BY <1>1, <1>2, <1>3, SamePhase DEF Data!Next, Data!UserDeletes

\* What a discard removes is empty, or the user has deleted it already.
LEMMA RemoveData == ASSUME IInv, NEW c \in Callers, DiscardRemove(c) PROVE [Data!Next]_(Data!vars)
<1>. DEFINE x == call[c]
            f == Real(Head(x.created))
<1>1. /\ x.pc = "remove" /\ disk' = [g \in DOMAIN disk \ {f} |-> disk[g]]
      /\ UNCHANGED <<group, closed, content, acked, gone>>
  BY DEF DiscardRemove, openVars, history
<1>2. GoodCall(x) /\ x.created # <<>>
  BY <1>1, CallFacts DEF Busy, GoodCall
<1>3. CASE f \notin DOMAIN disk
  <2>1. disk' = disk
    BY <1>1, <1>3 DEF IInv, DiskInv
  <2>. QED  BY <1>1, <2>1, Unseen
<1>4. CASE f \in DOMAIN disk
  <2>1. Head(x.created) = PathIn(x)
    <3>. SUFFICES ASSUME Head(x.created) \in AllDirs PROVE FALSE
      BY <1>2, OnlyFirstIsFile
    <3>1. PICK t \in Torrents : \E p \in PathsOf(t) : f = Real(p)
      BY <1>4 DEF IInv, DiskInv
    <3>2. PICK p \in PathsOf(t) : f = Real(p)
      BY <3>1
    <3>3. p \in AllFiles
      BY DEF AllFiles
    <3>. QED  BY <3>2, <3>3, FilesAreNotDirs
  <2>2. Creator(x)
    BY <1>1, <1>2, <2>1 DEF Creator, Discarding
  <2>3. CASE f \in gone
    <3>1. gone' = gone \cup {f} /\ acked' = {a \in acked : a[1] # f}
      BY <1>1, <2>3 DEF IInv, DiskInv
    <3>2. /\ Stored' = {a \in Stored : a[1] # f}
          /\ \E t \in Torrents : \E a \in Chunks(t) : a[1] = f
      BY <1>1, <1>4, WithoutFileData
    <3>3. f \in {a[1] : a \in UNION {Chunks(t) : t \in Torrents}}
      BY <3>2
    <3>4. Data!UserDeletes(f)
      BY <1>1, <3>1, <3>2, SamePhase DEF Data!UserDeletes
    <3>. QED  BY <3>3, <3>4 DEF Data!Next
  <2>4. CASE f \notin gone
    <3>1. Sole(x, f)
      BY <1>1, <2>1, <2>2, <2>4 DEF IInv, DiscardInv
    <3>2. Stored' = Stored
      BY <1>1, <1>4, <3>1, WithoutFileData DEF Sole
    <3>. QED  BY <1>1, <3>2, SamePhase DEF Data!vars
  <2>. QED  BY <2>3, <2>4
<1>. QED  BY <1>3, <1>4

LEMMA CallData == ASSUME IInv, NEW c \in Callers, CallStep(c) PROVE [Data!Next]_(Data!vars)
<1>1. CASE Op(c) \/ CreateExclusive(c) \/ DiscardRemove(c)
  BY <1>1, OpData, CreateData, RemoveData
<1>2. CASE WithOpenFile(c) \/ Mark(c) \/ OpenExisting(c) \/ ListMissing(c) \/ MkdirAll(c) \/ Reopen(c)
  <2>1. UNCHANGED <<group, closed, disk, content, acked, gone>>
    BY <1>2 DEF WithOpenFile, Mark, OpenExisting, ListMissing, MkdirAll, Reopen, openVars, diskVars, history
  <2>. QED  BY <2>1, Unseen
<1>3. CASE Install(c) \/ CloseOut(c) \/ LastResort(c) \/ InstallLocked(c) \/ DiscardList(c) \/ DiscardCheck(c)
  <2>1. UNCHANGED <<group, closed, disk, content, acked, gone>>
    BY <1>3 DEF Install, CloseOut, LastResort, InstallLocked, DiscardList, DiscardCheck, openVars, diskVars, history
  <2>. QED  BY <2>1, Unseen
<1>. QED  BY <1>1, <1>2, <1>3 DEF CallStep

\* A torrent moves on, the data stays.
LEMMA PhaseMoves ==
    ASSUME NEW t \in Torrents, \A u \in Torrents \ {t} : UNCHANGED Phase(u),
           UNCHANGED <<disk, content, acked, gone>>,
           \/ UNCHANGED Phase(t)
           \/ Phase(t) = "new" /\ Phase(t)' = "open"
           \/ Phase(t) = "open" /\ Phase(t)' = "closing"
           \/ Phase(t) = "closing" /\ Phase(t)' = "closed"
    PROVE  [Data!Next]_(Data!vars)
<1>1. Stored' = Stored
  BY DEF Stored
<1>2. CASE UNCHANGED Phase(t)
  <2>1. [u \in Torrents |-> Phase(u)]' = [u \in Torrents |-> Phase(u)]
    BY <1>2
  <2>. QED  BY <1>1, <2>1 DEF Data!vars
<1>3. ASSUME NEW from, NEW to, Phase(t) = from, Phase(t)' = to PROVE Data!Move(t, from, to)
  <2>1. [u \in Torrents |-> Phase(u)]' = [[u \in Torrents |-> Phase(u)] EXCEPT ![t] = to]
    BY <1>3
  <2>. QED  BY <1>1, <1>3, <2>1 DEF Data!Move
<1>. QED  BY <1>2, <1>3 DEF Data!Next

LEMMA OpenTorrentData == ASSUME IInv, NEW t \in Torrents, OpenTorrent(t) PROVE [Data!Next]_(Data!vars)
<1>1. group' = group \cup {t} /\ t \notin group /\ ~closed[t] /\ UNCHANGED <<closed, disk, content, acked, gone>>
  BY DEF OpenTorrent, diskVars, history
<1>. QED  BY <1>1, PhaseMoves DEF Phase

LEMMA CloseBeginData ==
    ASSUME IInv, NEW k, NEW t \in Torrents, NEW rest, t \in group \/ closed[t], CloseBegin(k, t, rest)
    PROVE  [Data!Next]_(Data!vars)
<1>1. closed' = [closed EXCEPT ![t] = TRUE] /\ UNCHANGED <<group, disk, content, acked, gone>>
  BY DEF CloseBegin, diskVars, history
<1>2. closed'[t] = TRUE /\ \A u \in Torrents \ {t} : closed'[u] = closed[u]
  BY <1>1 DEF IInv, Types
<1>. QED  BY <1>1, <1>2, PhaseMoves DEF Phase

LEMMA CloserData == ASSUME IInv, NEW k \in DOMAIN closer, CloserStep(k) PROVE [Data!Next]_(Data!vars)
<1>1. CASE CloseTake(k)
  BY <1>1, Unseen DEF CloseTake, openVars, diskVars, history
<1>2. CASE CloseHandles(k)
  <2>1. closer[k].pc = "close" /\ group' = group \ {closer[k].t} /\ UNCHANGED <<closed, disk, content, acked, gone>>
    BY <1>2 DEF CloseHandles, diskVars, history
  <2>2. PICK t \in Torrents : t = closer[k].t
    BY <2>1 DEF IInv, Types, Closers
  <2>3. closed[t]
    BY <2>1, <2>2 DEF IInv, LiveInv
  <2>. QED  BY <2>1, <2>2, <2>3, PhaseMoves DEF Phase
<1>. QED  BY <1>1, <1>2 DEF CloserStep

LEMMA InitData == Init => Data!Init
<1>. SUFFICES ASSUME Init PROVE Data!Init
  OBVIOUS
<1>1. \A t \in Torrents : ~closed[t]
  BY DEF Init
<1>2. [t \in Torrents |-> Phase(t)] \in [Torrents -> {"new", "open"}]
  BY <1>1 DEF Phase
<1>3. Stored = {} /\ acked = {} /\ gone = {}
  BY DEF Init, Stored
<1>. QED  BY <1>2, <1>3 DEF Data!Init

LEMMA NextData == ASSUME IInv, [Next]_vars PROVE [Data!Next]_(Data!vars)
<1>1. ASSUME NEW t \in Torrents, OpenTorrent(t) PROVE [Data!Next]_(Data!vars)
  BY <1>1, OpenTorrentData
<1>2. ASSUME NEW c \in Callers, NEW t \in Torrents, NEW kind, NEW p, Begin(c, t, p, kind) PROVE [Data!Next]_(Data!vars)
  BY <1>2, Unseen DEF Begin, openVars, diskVars, history
<1>3. ASSUME NEW c \in Callers, CallStep(c) PROVE [Data!Next]_(Data!vars)
  BY <1>3, CallData
<1>4. ASSUME NEW t, NEW p, Completion(t, p) PROVE [Data!Next]_(Data!vars)
  BY <1>4, Unseen DEF Completion, openVars, diskVars, history
<1>5. CASE (\E t \in Dropped : Drop(t)) \/ \E s \in Stores : StoreClose(s) \/ CloseNext(s)
  BY <1>5, Closes, CloseBeginData
<1>6. ASSUME NEW k \in Torrents \cup Stores, CloserStep(k) PROVE [Data!Next]_(Data!vars)
  BY <1>6, CloserData DEF IInv, Types
<1>7. ASSUME NEW f \in DOMAIN disk, UserDeletes(f) PROVE [Data!Next]_(Data!vars)
  BY <1>7, UserDeletesData
<1>8. CASE UNCHANGED vars \/ Over
  <2>1. UNCHANGED vars
    BY <1>8 DEF Over
  <2>. QED  BY <2>1, Unseen DEF vars
<1>. QED  BY <1>1, <1>2, <1>3, <1>4, <1>5, <1>6, <1>7, <1>8 DEF Next

(* What is known of the store in every state it reaches: each handle has one
   holder, the table and the calls of a torrent that is not closed are on their
   own files, and what a discard is about to remove is empty and nobody else's.
   A torrent is opened only while no other one closes, which is the caller's
   part (filestore.go's discard lists the other torrents once). *)
THEOREM StoreInvariant == ASSUME ~LateOpens PROVE Spec => []IInv
<1>1. Init => IInv
  BY InitIInv
<1>2. IInv /\ [Next]_vars => IInv'
  BY NextIInv
<1>. QED  BY <1>1, <1>2, PTL DEF Spec

(* The store keeps its promise, whatever the torrents, their files, pieces and
   callers: data is put only into an open torrent, and what a write has
   acknowledged stays readable through every eviction, Close and discard. *)
THEOREM StoreKeepsData == ASSUME ~LateOpens PROVE Spec => DataSpec
<1>1. Init => Data!Init
  BY InitData
<1>2. IInv /\ [Next]_vars => [Data!Next]_(Data!vars)
  BY NextData
<1>. QED  BY <1>1, <1>2, StoreInvariant, PTL DEF Spec, DataSpec, Data!Spec

----------------------------------------------------------------------------
(* That a Close leaves nothing behind. *)

\* Each handle that is open is somebody's to close.
Owned ==
    \A n \in Fds : fds[n] # NoFd =>
        \/ \E t \in Torrents : n \in InTab(t)
        \/ \E c \in Callers : n \in HeldBy(call[c])
        \/ \E k \in DOMAIN closer : n \in TakenBy(closer[k])

\* A torrent leaves its store only by its Close.
Leaves ==
    \A t \in group : closed[t] => \E k \in DOMAIN closer : closer[k].pc \in {"wait", "close"} /\ closer[k].t = t

\* A closed torrent's handles, too, are on the files at their paths.
AllOn == \A t \in Torrents : TableOn(t)

\* Another torrent declares the file at f.
Declared(t, f) == \E u \in Torrents \ {t} : (u \in group \/ closed[u]) /\ \E p \in PathsOf(u) : f = Real(p)

\* Call x will discard the file it created after the torrent was closed.
Late(x) == Creator(x) /\ LET f == Real(PathIn(x)) IN f \in DOMAIN disk \ gone /\ disk[f] \in late

\* What a discard keeps: what is in the table, and of a file created late nothing yet.
CallStays(c) ==
    LET x == call[c] IN
    /\ x.pc \in Discarding => InTable(x.t) \subseteq x.keep
    /\ x.pc = "remove" => Head(x.created) \notin x.keep
    /\ x.pc \in {"check", "remove"} =>
         \A q \in x.others : \E u \in Torrents \ {x.t} : (u \in group \/ closed[u]) /\ q \in PathsOf(u)
    /\ Late(x) => /\ closed[x.t] /\ PathIn(x) \notin InTable(x.t)
                  /\ x.pc \in Discarding => PathIn(x) \notin x.keep

\* An empty file that was created late is still to be discarded, or another's too.
LateFiles ==
    \A f \in DOMAIN disk \ gone : disk[f] \in late /\ content[disk[f]] = {} =>
        \E t \in Torrents :
            /\ closed[t] /\ \E p \in PathsOf(t) : f = Real(p)
            /\ \/ \E c \in Callers : Creator(call[c]) /\ call[c].t = t /\ Real(PathIn(call[c])) = f
               \/ Declared(t, f)

StaysInv == Owned /\ Leaves /\ AllOn /\ (\A c \in Callers : CallStays(c)) /\ LateFiles

----------------------------------------------------------------------------
(* What every step leaves as it was. *)

\* Closed tables only empty, and handles that stay open stay as they are.
TableSteps ==
    /\ \A t \in Torrents : closed'[t] => table'[t] \in {table[t], <<>>}
    /\ \A n \in Fds : fds[n] # NoFd /\ fds'[n] # NoFd => fds'[n] = fds[n]

\* A file that is there stays the same file, and goes only by a discard or the user.
DiskSteps ==
    /\ \A g \in DOMAIN disk' : IF g \in DOMAIN disk THEN disk'[g] = disk[g] ELSE disk'[g] \in FreshInodes
    /\ gone \subseteq gone'
    /\ \A g \in DOMAIN disk \ DOMAIN disk' :
         g \in gone' \/ \E c \in Callers : call[c].pc = "remove" /\ g = Real(Head(call[c].created))
    /\ \A n \in late' : n \in late \/ \E g \in DOMAIN disk' \ DOMAIN disk : n = disk'[g]
    /\ \A n \in Inodes : content[n] \subseteq content'[n]

\* Torrents are opened and closed, once each.
PhaseSteps ==
    \A t \in Torrents : (closed[t] => closed'[t]) /\ (t \in group => t \in group' \/ closed'[t])

Steps == TableSteps /\ DiskSteps /\ PhaseSteps

LEMMA SameDisk == ASSUME UNCHANGED <<disk, gone, late, content>> PROVE DiskSteps
BY DEF DiskSteps

LEMMA SamePhases == ASSUME UNCHANGED <<group, closed>> PROVE PhaseSteps
BY DEF PhaseSteps

LEMMA FdsClosed ==
    ASSUME IInv, NEW S, UNCHANGED fds \/ Closing(S)
    PROVE  \A n \in Fds : /\ fds[n] # NoFd /\ fds'[n] # NoFd => fds'[n] = fds[n]
                          /\ Closing(S) => fds'[n] = IF n \in S THEN NoFd ELSE fds[n]
BY DEF Closing, IInv, Types

LEMMA SameTables ==
    ASSUME IInv, UNCHANGED table, NEW S, UNCHANGED fds \/ Closing(S)
    PROVE  TableSteps
BY FdsClosed DEF TableSteps

LEMMA OneFd ==
    ASSUME IInv, FreeFds # {}, NEW e, fds' = [fds EXCEPT ![FreeFd] = e]
    PROVE  /\ \A n \in Fds : n # FreeFd => fds'[n] = fds[n]
           /\ FreeFd \in Fds /\ fds[FreeFd] = NoFd /\ fds'[FreeFd] = e
<1>1. FreeFd \in FreeFds
  BY DEF FreeFd
<1>. QED  BY <1>1 DEF FreeFds, Fds, IInv, Types

LEMMA OpenTable ==
    ASSUME IInv, NEW t \in Torrents, ~closed[t], UNCHANGED closed, NEW s, table' = [table EXCEPT ![t] = s]
    PROVE  \A u \in Torrents : closed'[u] => table'[u] \in {table[u], <<>>}
BY DEF IInv, Types

LEMMA CallSteps == ASSUME IInv, NEW c \in Callers, CallStep(c) PROVE Steps
<1>1. ASSUME ~CreateExclusive(c), ~DiscardRemove(c) PROVE DiskSteps
  <2>1. CASE ~Op(c)
    <3>1. UNCHANGED <<disk, gone, late, content>>
      BY <1>1, <2>1 DEF CallStep, WithOpenFile, Mark, OpenExisting, ListMissing, MkdirAll, Reopen, Install, CloseOut,
         LastResort, InstallLocked, DiscardList, DiscardCheck, diskVars, history
    <3>. QED  BY <3>1, SameDisk
  <2>2. CASE Op(c)
    <3>1. UNCHANGED <<disk, gone, late>> /\ \A n \in Inodes : content[n] \subseteq content'[n]
      BY <2>2 DEF Op, IInv, DiskInv
    <3>. QED  BY <3>1 DEF DiskSteps
  <2>. QED  BY <2>1, <2>2
<1>2. ASSUME CreateExclusive(c) PROVE DiskSteps
  <2>1. CASE UNCHANGED <<disk, late>>
    BY <1>2, <2>1, SameDisk DEF CreateExclusive, history
  <2>2. CASE ~UNCHANGED <<disk, late>>
    <3>. DEFINE f == Real(Path(c))
                n == CHOOSE m \in FreshInodes : TRUE
    <3>1. /\ ~Exists(Path(c)) /\ FreshInodes # {}
          /\ disk' = [g \in DOMAIN disk \cup {f} |-> IF g = f THEN n ELSE disk[g]]
          /\ late' \subseteq late \cup {n} /\ UNCHANGED <<content, gone>>
      BY <1>2, <2>2 DEF CreateExclusive, history
    <3>2. n \in FreshInodes /\ f \notin DOMAIN disk
      BY <3>1 DEF Exists
    <3>. HIDE DEF n, f
    <3>3. DOMAIN disk' = DOMAIN disk \cup {f} /\ disk'[f] = n /\ \A g \in DOMAIN disk : disk'[g] = disk[g]
      BY <3>1, <3>2
    <3>. QED  BY <3>1, <3>2, <3>3 DEF DiskSteps
  <2>. QED  BY <2>1, <2>2
<1>3. ASSUME DiscardRemove(c) PROVE DiskSteps
  <2>1. /\ call[c].pc = "remove" /\ UNCHANGED <<content, late, gone>>
        /\ disk' = [g \in DOMAIN disk \ {Real(Head(call[c].created))} |-> disk[g]]
    BY <1>3 DEF DiscardRemove, history
  <2>2. DOMAIN disk' = DOMAIN disk \ {Real(Head(call[c].created))} /\ \A g \in DOMAIN disk' : disk'[g] = disk[g]
    BY <2>1
  <2>. QED  BY <2>1, <2>2 DEF DiskSteps
<1>4. PhaseSteps
  <2>1. UNCHANGED <<group, closed>>
    BY DEF CallStep, WithOpenFile, Op, Mark, OpenExisting, ListMissing, MkdirAll, CreateExclusive, Reopen, Install,
       CloseOut, LastResort, InstallLocked, DiscardList, DiscardCheck, DiscardRemove, openVars
  <2>. QED  BY <2>1, SamePhases
<1>5. CASE Op(c) \/ Mark(c) \/ ListMissing(c) \/ MkdirAll(c) \/ CloseOut(c) \/ DiscardList(c) \/ DiscardCheck(c) \/ DiscardRemove(c)
  <2>1. UNCHANGED table /\ (UNCHANGED fds \/ \E S : Closing(S))
    BY <1>5 DEF Op, Mark, ListMissing, MkdirAll, CloseOut, DiscardList, DiscardCheck, DiscardRemove
  <2>2. TableSteps
    BY <2>1, SameTables
  <2>. QED  BY <1>1, <1>2, <1>3, <1>4, <2>2 DEF Steps
<1>6. CASE OpenExisting(c) \/ Reopen(c) \/ CreateExclusive(c)
  <2>1. UNCHANGED table /\ (UNCHANGED fds \/ (FreeFds # {} /\ \E e : fds' = [fds EXCEPT ![FreeFd] = e]))
    BY <1>6 DEF OpenExisting, Reopen, CreateExclusive, Opened
  <2>2. TableSteps
    BY <2>1, OneFd DEF TableSteps
  <2>. QED  BY <1>1, <1>2, <1>3, <1>4, <2>2 DEF Steps
<1>7. CASE WithOpenFile(c) \/ Install(c) \/ LastResort(c) \/ InstallLocked(c)
  <2>1. Busy(c) /\ UNCHANGED closed
    BY <1>7 DEF WithOpenFile, Install, LastResort, InstallLocked, Busy, openVars
  <2>2. PICK t \in Torrents : t = call[c].t
    BY <2>1, CallFacts
  <2>3. InstallLocked(c) => ~closed[t]
    BY <2>1, <2>2, CallFacts DEF InstallLocked, LiveCall
  <2>4. UNCHANGED table \/ (~closed[t] /\ \E s : table' = [table EXCEPT ![t] = s])
    BY <1>7, <2>2, <2>3 DEF WithOpenFile, Install, LastResort, InstallLocked
  <2>5. UNCHANGED fds \/ \E S : Closing(S)
    BY <1>7 DEF WithOpenFile, Install, LastResort, InstallLocked
  <2>6. \A n \in Fds : fds[n] # NoFd /\ fds'[n] # NoFd => fds'[n] = fds[n]
    BY <2>5, FdsClosed
  <2>7. TableSteps
    BY <2>1, <2>4, <2>6, OpenTable DEF TableSteps
  <2>. QED  BY <1>1, <1>2, <1>3, <1>4, <1>7, <2>7 DEF Steps
<1>. QED  BY <1>5, <1>6, <1>7 DEF CallStep

LEMMA NextSteps == ASSUME IInv, [Next]_vars PROVE Steps
<1>1. ASSUME NEW t \in Torrents, OpenTorrent(t) PROVE Steps
  <2>1. group \subseteq group' /\ UNCHANGED <<closed, table, fds, disk, content, late, gone>>
    BY <1>1 DEF OpenTorrent, diskVars, history
  <2>2. PhaseSteps
    BY <2>1 DEF PhaseSteps
  <2>. QED  BY <2>1, <2>2, SameDisk, SameTables DEF Steps
<1>2. CASE \/ \E c \in Callers, t \in Torrents, kind \in {"write", "check"} : \E p \in Pieces(t) : Begin(c, t, p, kind)
           \/ \E t \in Torrents : \E p \in Pieces(t) : Completion(t, p)
           \/ Over \/ UNCHANGED vars
  <2>1. UNCHANGED <<group, closed, table, fds, disk, content, late, gone>>
    BY <1>2 DEF Begin, Completion, Over, vars, diskVars, openVars, history
  <2>. QED  BY <2>1, SameDisk, SamePhases, SameTables DEF Steps
<1>3. ASSUME NEW c \in Callers, CallStep(c) PROVE Steps
  BY <1>3, CallSteps
<1>5. CASE (\E t \in Dropped : Drop(t)) \/ \E s \in Stores : StoreClose(s) \/ CloseNext(s)
  <2>1. PICK k \in DOMAIN closer, t \in Torrents, rest \in SUBSET Torrents : CloseBegin(k, t, rest)
    BY <1>5, Closes
  <2>2. closed' = [closed EXCEPT ![t] = TRUE] /\ UNCHANGED <<group, table, fds, disk, content, late, gone>>
    BY <2>1 DEF CloseBegin, diskVars, history
  <2>3. PhaseSteps
    BY <2>2 DEF PhaseSteps, IInv, Types
  <2>. QED  BY <2>2, <2>3, SameDisk, SameTables DEF Steps
<1>6. ASSUME NEW k \in Torrents \cup Stores, CloserStep(k) PROVE Steps
  <2>0. k \in DOMAIN closer
    BY DEF IInv, Types
  <2>1. CASE CloseTake(k)
    <3>1. PICK t : t = closer[k].t
      OBVIOUS
    <3>2. table' = [table EXCEPT ![t] = <<>>] /\ UNCHANGED <<group, closed, fds, disk, content, late, gone>>
      BY <2>1, <3>1 DEF CloseTake, diskVars, openVars, history
    <3>3. TableSteps
      BY <3>2 DEF TableSteps, IInv, Types
    <3>. QED  BY <3>2, <3>3, SameDisk, SamePhases DEF Steps
  <2>2. CASE CloseHandles(k)
    <3>1. closed[closer[k].t]
      BY <2>0, <2>2 DEF CloseHandles, IInv, LiveInv
    <3>2. group' = group \ {closer[k].t} /\ UNCHANGED <<closed, table, disk, content, late, gone>> /\ Closing(closer[k].out)
      BY <2>2 DEF CloseHandles, diskVars, history
    <3>3. PhaseSteps
      BY <3>1, <3>2 DEF PhaseSteps
    <3>. QED  BY <3>2, <3>3, SameDisk, SameTables DEF Steps
  <2>. QED  BY <1>6, <2>1, <2>2 DEF CloserStep
<1>7. ASSUME NEW f \in DOMAIN disk, UserDeletes(f) PROVE Steps
  <2>1. /\ disk' = [g \in DOMAIN disk \ {f} |-> disk[g]] /\ gone' = gone \cup {f}
        /\ UNCHANGED <<group, closed, table, fds, content, late>>
    BY <1>7 DEF UserDeletes, openVars
  <2>2. DOMAIN disk' = DOMAIN disk \ {f} /\ \A g \in DOMAIN disk' : disk'[g] = disk[g]
    BY <2>1
  <2>3. DiskSteps
    BY <2>1, <2>2 DEF DiskSteps
  <2>. QED  BY <2>1, <2>3, SamePhases, SameTables DEF Steps
<1>. QED  BY <1>1, <1>2, <1>3, <1>5, <1>6, <1>7 DEF Next

----------------------------------------------------------------------------
(* A Close ends last, and handles stay on their files. *)

LEMMA LeavesKept == ASSUME IInv, Leaves, [Next]_vars PROVE Leaves'
<1>1. CASE UNCHANGED <<group, closed, closer>>
  BY <1>1 DEF Leaves
<1>2. ASSUME NEW t \in Torrents, OpenTorrent(t) PROVE Leaves'
  BY <1>2 DEF OpenTorrent, Leaves, recordVars
<1>3. ASSUME NEW c \in Callers, CallStep(c) PROVE Leaves'
  <2>1. UNCHANGED <<group, closed, closer>>
    BY <1>3 DEF CallStep, WithOpenFile, Op, Mark, OpenExisting, ListMissing, MkdirAll, CreateExclusive, Reopen,
       Install, CloseOut, LastResort, InstallLocked, DiscardList, DiscardCheck, DiscardRemove, openVars, recordVars
  <2>. QED  BY <1>1, <2>1
<1>4. CASE \/ \E c \in Callers, t \in Torrents, kind \in {"write", "check"} : \E p \in Pieces(t) : Begin(c, t, p, kind)
           \/ \E t \in Torrents : \E p \in Pieces(t) : Completion(t, p)
           \/ \E f \in DOMAIN disk : UserDeletes(f)
           \/ Over \/ UNCHANGED vars
  BY <1>1, <1>4 DEF Begin, Completion, UserDeletes, Over, vars, openVars, recordVars
<1>5. CASE (\E t \in Dropped : Drop(t)) \/ \E s \in Stores : StoreClose(s) \/ CloseNext(s)
  <2>1. PICK k \in DOMAIN closer, t \in Torrents, rest \in SUBSET Torrents :
          closer[k].pc \in {"none", "next"} /\ CloseBegin(k, t, rest)
    BY <1>5, Closes
  <2>. DEFINE z == [pc |-> "wait", t |-> t, rest |-> rest, out |-> {}]
  <2>2. closed' = [closed EXCEPT ![t] = TRUE] /\ closer' = [closer EXCEPT ![k] = z] /\ group' = group
    BY <2>1 DEF CloseBegin
  <2>3. z.pc = "wait" /\ z.t = t
    OBVIOUS
  <2>. HIDE DEF z
  <2>4. /\ DOMAIN closer' = DOMAIN closer /\ closer'[k] = z /\ \A j \in DOMAIN closer : j # k => closer'[j] = closer[j]
        /\ \A u \in group : u # t => closed'[u] = closed[u]
    BY <2>2 DEF IInv, Types
  <2>. QED  BY <2>1, <2>2, <2>3, <2>4 DEF Leaves
<1>6. ASSUME NEW k \in Torrents \cup Stores, CloserStep(k) PROVE Leaves'
  <2>0. k \in DOMAIN closer /\ closer[k] \in Closers
    BY DEF IInv, Types
  <2>1. CASE CloseTake(k)
    <3>. DEFINE T == {table[closer[k].t][n].fd : n \in DOMAIN table[closer[k].t]}
                z == [closer[k] EXCEPT !.pc = "close", !.out = T]
    <3>1. closer' = [closer EXCEPT ![k] = z] /\ closer[k].pc = "wait" /\ UNCHANGED <<group, closed>>
      BY <2>0, <2>1 DEF CloseTake, openVars
    <3>2. z.pc = "close" /\ z.t = closer[k].t
      <4>. HIDE DEF T
      <4>. QED  BY <2>0, <3>1 DEF Closers
    <3>. HIDE DEF z
    <3>3. DOMAIN closer' = DOMAIN closer /\ closer'[k] = z /\ \A j \in DOMAIN closer : j # k => closer'[j] = closer[j]
      BY <2>0, <3>1
    <3>. QED  BY <2>0, <3>1, <3>2, <3>3 DEF Leaves
  <2>2. CASE CloseHandles(k)
    <3>1. PICK z : closer' = [closer EXCEPT ![k] = z]
      BY <2>2 DEF CloseHandles
    <3>2. group' = group \ {closer[k].t} /\ closed' = closed
      BY <2>2 DEF CloseHandles
    <3>3. DOMAIN closer' = DOMAIN closer /\ \A j \in DOMAIN closer : j # k => closer'[j] = closer[j]
      BY <2>0, <3>1
    <3>. QED  BY <3>2, <3>3 DEF Leaves
  <2>. QED  BY <1>6, <2>1, <2>2 DEF CloserStep
<1>. QED  BY <1>2, <1>3, <1>4, <1>5, <1>6 DEF Next

\* Two files of a torrent are one on disk only when they are one.
LEMMA SameStore ==
    ASSUME NEW t \in Torrents, NEW p \in PathsOf(t), NEW q \in PathsOf(t), Real(p) = Real(q)
    PROVE  p = q
<1>1. /\ p \in Seq(STRING) /\ Len(p) >= 2 /\ Head(p) = StoreOf(t)
      /\ q \in Seq(STRING) /\ Len(q) >= 2 /\ Head(q) = StoreOf(t)
  BY PathsAssumption DEF PathsOf
<1>2. PICK a : a = Target(StoreOf(t))
  OBVIOUS
<1>3. <<a>> \o Tail(p) = <<a>> \o Tail(q)
  BY <1>1, <1>2 DEF Real
<1>. DEFINE P == Tail(p)
            Q == Tail(q)
<1>4. P \in Seq(STRING) /\ Q \in Seq(STRING) /\ Len(P) = Len(p) - 1 /\ Len(Q) = Len(q) - 1
      /\ (\A k \in 1..Len(P) : P[k] = p[k + 1]) /\ (\A k \in 1..Len(Q) : Q[k] = q[k + 1])
      /\ p[1] = Head(p) /\ q[1] = Head(q) /\ Len(p) \in Nat /\ Len(q) \in Nat
      /\ DOMAIN p = 1..Len(p) /\ DOMAIN q = 1..Len(q)
  BY <1>1
<1>. HIDE DEF P, Q
<1>5. <<a>> \o P = <<a>> \o Q
  BY <1>3 DEF P, Q
<1>6. /\ Len(<<a>> \o P) = 1 + Len(P) /\ \A k \in 1..Len(P) : (<<a>> \o P)[k + 1] = P[k]
      /\ Len(<<a>> \o Q) = 1 + Len(Q) /\ \A k \in 1..Len(Q) : (<<a>> \o Q)[k + 1] = Q[k]
  BY <1>4
<1>7. Len(P) = Len(Q) /\ \A k \in 1..Len(P) : P[k] = Q[k]
  BY <1>4, <1>5, <1>6
<1>8. Len(p) = Len(q) /\ \A k \in 1..Len(p) : p[k] = q[k]
  <2>1. Len(p) = Len(q)
    BY <1>4, <1>7
  <2>2. ASSUME NEW k \in 1..Len(p), k # 1 PROVE p[k] = q[k]
    <3>1. k - 1 \in 1..Len(P) /\ k = (k - 1) + 1
      BY <1>4, <2>2
    <3>. QED  BY <1>4, <1>7, <3>1
  <2>. QED  BY <1>1, <1>4, <2>1, <2>2
<1>. QED  BY <1>1, <1>4, <1>8

LEMMA OpenEntry ==
    ASSUME IInv, NEW u \in Torrents, NEW e \in Entries(table[u])
    PROVE  /\ e.fd \in Fds /\ fds[e.fd] # NoFd /\ u \in group
           /\ PathOf[u][e.file] \in PathsOf(u) /\ PathOf[u][e.file] \in InTable(u)
<1>1. e.fd \in InTab(u)
  BY DEF InTab
<1>2. e.fd \in OpenFor(u) /\ u \in group
  BY <1>1 DEF IInv, FdInv, LiveInv
<1>3. table[u] \in Seq(Handles(u))
  BY DEF IInv, Types
<1>4. e \in Handles(u) /\ PathOf[u][e.file] \in InTable(u)
  BY <1>3 DEF Entries, InTable
<1>. QED  BY <1>2, <1>4 DEF OpenFor, Handles, PathsOf

\* What a discard removes is in no table, unless the user deleted it before.
LEMMA RemovedIsFree ==
    ASSUME IInv, NEW c \in Callers, CallStays(c), call[c].pc = "remove", NEW u \in Torrents,
           NEW e \in Entries(table[u]), Real(PathOf[u][e.file]) = Real(Head(call[c].created))
    PROVE  Real(PathOf[u][e.file]) \in gone
<1>. DEFINE x == call[c]
            p == PathOf[u][e.file]
<1>1. Busy(c)
  BY DEF Busy
<1>2. GoodCall(x) /\ x.created # <<>> /\ Path(c) = PathIn(x) /\ x.t \in Torrents
  BY <1>1, CallFacts DEF GoodCall
<1>3. u \in group /\ p \in PathsOf(u) /\ p \in InTable(u)
  BY OpenEntry
<1>4. p \in AllFiles
  BY <1>3 DEF AllFiles
<1>5. Head(x.created) \notin AllDirs
  BY <1>4, FilesAreNotDirs
<1>6. Head(x.created) = PathIn(x) /\ Creator(x)
  BY <1>2, <1>5, OnlyFirstIsFile DEF Creator, Discarding
<1>. SUFFICES ASSUME Real(p) \notin gone PROVE FALSE
  OBVIOUS
<1>7. Sole(x, Real(PathIn(x)))
  BY <1>6 DEF IInv, DiscardInv
<1>8. u = x.t
  BY <1>3, <1>6, <1>7 DEF Sole
<1>9. PathIn(x) \in PathsOf(u)
  BY <1>2, <1>8, PathOfCall
<1>10. p = PathIn(x)
  BY <1>3, <1>6, <1>9, SameStore
<1>11. InTable(x.t) \subseteq x.keep /\ Head(x.created) \notin x.keep
  BY DEF CallStays, Discarding
<1>. QED  BY <1>3, <1>6, <1>8, <1>10, <1>11

LEMMA AllOnKept == ASSUME IInv, IInv', AllOn, \A c \in Callers : CallStays(c), Steps PROVE AllOn'
<1>. SUFFICES ASSUME NEW u \in Torrents PROVE TableOn(u)'
  BY DEF AllOn
<1>1. CASE ~closed'[u]
  BY <1>1 DEF IInv, FileInv
<1>2. CASE closed'[u]
  <2>. SUFFICES ASSUME NEW e \in Entries(table'[u]) PROVE OnFile(PathOf[u][e.file], e.fd)'
    BY DEF TableOn
  <2>1. e \in Entries(table[u])
    <3>1. table'[u] \in {table[u], <<>>}
      BY <1>2 DEF Steps, TableSteps
    <3>2. Entries(<<>>) = {}
      BY DEF Entries
    <3>. QED  BY <3>1, <3>2
  <2>2. PICK n, p : n = e.fd /\ p = PathOf[u][e.file]
    OBVIOUS
  <2>3. n \in Fds /\ fds[n] # NoFd /\ OnFile(p, n)
    BY <2>1, <2>2, OpenEntry DEF AllOn, TableOn
  <2>4. fds'[n] = fds[n]
    <3>1. e.fd \in InTab(u)'
      BY DEF InTab
    <3>2. InTab(u)' \subseteq OpenFor(u)'
      BY DEF IInv, FdInv
    <3>3. fds'[n] # NoFd
      BY <2>2, <3>1, <3>2 DEF OpenFor
    <3>. QED  BY <2>3, <3>3 DEF Steps, TableSteps
  <2>5. ASSUME NEW g \in DOMAIN disk', disk'[g] = fds[n].inode PROVE g = Real(p)
    <3>1. CASE g \in DOMAIN disk
      BY <2>3, <2>5, <3>1 DEF Steps, DiskSteps, OnFile
    <3>2. CASE g \notin DOMAIN disk
      BY <2>3, <2>5, <3>2 DEF Steps, DiskSteps, FreshInodes, Fds
    <3>. QED  BY <3>1, <3>2
  <2>6. ASSUME Real(p) \notin gone' PROVE Real(p) \in DOMAIN disk' /\ disk'[Real(p)] = fds[n].inode
    <3>1. Real(p) \notin gone /\ Real(p) \in DOMAIN disk /\ disk[Real(p)] = fds[n].inode
      BY <2>3, <2>6 DEF Steps, DiskSteps, OnFile
    <3>2. Real(p) \in DOMAIN disk'
      <4>. SUFFICES ASSUME Real(p) \notin DOMAIN disk' PROVE FALSE
        OBVIOUS
      <4>1. PICK c \in Callers : call[c].pc = "remove" /\ Real(p) = Real(Head(call[c].created))
        BY <2>6, <3>1 DEF Steps, DiskSteps
      <4>. QED  BY <2>1, <2>2, <3>1, <4>1, RemovedIsFree
    <3>. QED  BY <3>1, <3>2 DEF Steps, DiskSteps
  <2>. QED  BY <2>2, <2>4, <2>5, <2>6 DEF OnFile
<1>. QED  BY <1>1, <1>2

----------------------------------------------------------------------------
(* What the discards keep, and the files created late. *)

\* A file created late that a step leaves was there and late before it.
LEMMA LateWas ==
    ASSUME Steps, NEW f \in DOMAIN disk, f \in DOMAIN disk' \ gone', disk'[f] \in late'
    PROVE  f \notin gone /\ disk'[f] = disk[f] /\ disk[f] \in late
BY DEF Steps, DiskSteps, FreshInodes

\* A call that a step leaves alone.
LEMMA StaysKept ==
    ASSUME IInv, Steps, NEW d \in Callers, call'[d] = call[d], CallStays(d)
    PROVE  CallStays(d)'
<1>. DEFINE x == call[d]
            f == Real(PathIn(x))
<1>1. x.pc \in {"install"} \cup Discarding => x.t \in Torrents /\ (x.pc \in Discarding => closed[x.t])
  BY CallFacts DEF Busy, Discarding, LiveCall
<1>2. ASSUME x.pc \in {"install"} \cup Discarding, closed[x.t] PROVE InTable(x.t)' \subseteq InTable(x.t) /\ closed'[x.t]
  <2>1. closed'[x.t] /\ table'[x.t] \in {table[x.t], <<>>}
    BY <1>1, <1>2 DEF Steps, TableSteps, PhaseSteps
  <2>. QED  BY <2>1 DEF InTable
<1>3. x.pc \in Discarding => InTable(x.t)' \subseteq x.keep
  BY <1>1, <1>2 DEF CallStays
<1>4. ASSUME Late(x)' PROVE Late(x)
  <2>1. Creator(x) /\ f \in DOMAIN disk' \ gone' /\ disk'[f] \in late'
    BY <1>4 DEF Late
  <2>2. f \in gone \cup DOMAIN disk /\ gone \subseteq gone'
    BY <2>1 DEF IInv, DiscardInv, Steps, DiskSteps
  <2>3. f \in DOMAIN disk
    BY <2>1, <2>2
  <2>4. f \notin gone /\ disk[f] \in late
    BY <2>1, <2>3, LateWas
  <2>. QED  BY <2>1, <2>3, <2>4 DEF Late
<1>5. ASSUME Late(x)' PROVE /\ closed'[x.t] /\ PathIn(x) \notin InTable(x.t)'
                            /\ x.pc \in Discarding => PathIn(x) \notin x.keep
  <2>1. Late(x) /\ x.pc \in {"install"} \cup Discarding
    BY <1>4, <1>5 DEF Late, Creator
  <2>. QED  BY <1>2, <2>1 DEF CallStays
<1>6. x.pc \in {"check", "remove"} =>
        \A q \in x.others : \E u \in Torrents \ {x.t} : (u \in group' \/ closed'[u]) /\ q \in PathsOf(u)
  BY DEF CallStays, Steps, PhaseSteps
<1>. QED  BY <1>3, <1>5, <1>6 DEF CallStays

\* A call that has nothing to discard.
LEMMA NothingToDiscard ==
    ASSUME NEW d, call'[d].pc \notin {"install"} \cup Discarding
    PROVE  CallStays(d)' /\ ~Creator(call'[d])
BY DEF CallStays, Late, Creator, Discarding

\* A call that opened a file which was there.
LEMMA NothingCreated ==
    ASSUME NEW d, call'[d].pc = "install", ~Creator(call'[d])
    PROVE  CallStays(d)'
BY DEF CallStays, Late, Discarding

\* A file created late is handed on by a step of call c: c has it still to
\* discard, or another torrent declares it.
HandsOn(c) ==
    LET x == call[c]
        y == call'[c]
        f == Real(PathIn(x)) IN
    Late(x) /\ closed[x.t] /\ content[disk[f]] = {} /\ f \in DOMAIN disk'
      => \/ Creator(y) /\ y.t = x.t /\ PathIn(y) = PathIn(x)
         \/ Declared(x.t, f)

\* And one that is created late is the caller's to discard.
NewFiles ==
    \A f \in DOMAIN disk' \ DOMAIN disk : disk'[f] \in late' =>
        \E c \in Callers : /\ Creator(call'[c]) /\ Real(PathIn(call'[c])) = f
                           /\ GoodCall(call'[c]) /\ closed'[call'[c].t]

LEMMA LateFilesKept ==
    ASSUME IInv, Steps, LateFiles, NewFiles, \A c \in Callers : call'[c] = call[c] \/ HandsOn(c)
    PROVE  LateFiles'
<1>. SUFFICES ASSUME NEW f \in DOMAIN disk' \ gone', disk'[f] \in late', content'[disk'[f]] = {}
              PROVE  \E t \in Torrents :
                        /\ closed'[t] /\ \E p \in PathsOf(t) : f = Real(p)
                        /\ \/ \E c \in Callers : Creator(call'[c]) /\ call'[c].t = t /\ Real(PathIn(call'[c])) = f
                           \/ Declared(t, f)'
  BY DEF LateFiles
<1>1. CASE f \notin DOMAIN disk
  <2>1. PICK c \in Callers : /\ Creator(call'[c]) /\ Real(PathIn(call'[c])) = f
                             /\ GoodCall(call'[c]) /\ closed'[call'[c].t]
    BY <1>1 DEF NewFiles
  <2>2. PICK y : y = call'[c]
    OBVIOUS
  <2>3. GoodCall(y)
    BY <2>1, <2>2
  <2>4. y.t \in Torrents /\ PathIn(y) \in PathsOf(y.t)
    BY <2>3, PathOfCall
  <2>. QED  BY <2>1, <2>2, <2>4
<1>2. CASE f \in DOMAIN disk
  <2>1. f \notin gone /\ disk'[f] = disk[f] /\ disk[f] \in late
    BY <1>2, LateWas
  <2>2. content[disk[f]] = {}
    BY <1>2, <2>1 DEF Steps, DiskSteps, IInv, DiskInv
  <2>3. PICK t \in Torrents :
          /\ closed[t] /\ \E p \in PathsOf(t) : f = Real(p)
          /\ \/ \E c \in Callers : Creator(call[c]) /\ call[c].t = t /\ Real(PathIn(call[c])) = f
             \/ Declared(t, f)
    BY <1>2, <2>1, <2>2 DEF LateFiles
  <2>4. closed'[t] /\ (Declared(t, f) => Declared(t, f)')
    BY <2>3 DEF Steps, PhaseSteps, Declared
  <2>5. ASSUME NEW c \in Callers, call[c].t = t, Creator(call[c]), Real(PathIn(call[c])) = f
        PROVE  \/ call'[c].t = t /\ Creator(call'[c]) /\ Real(PathIn(call'[c])) = f
               \/ Declared(t, f)
    <3>1. Late(call[c])
      BY <1>2, <2>1, <2>5 DEF Late
    <3>. QED  BY <2>2, <2>3, <2>5, <3>1 DEF HandsOn
  <2>. QED  BY <2>3, <2>4, <2>5
<1>. QED  BY <1>1, <1>2

\* What a step of call c owes: the handles, the call and the files are accounted for.
OwnedFd(n) ==
    \/ \E t \in Torrents : n \in InTab(t)
    \/ \E c \in Callers : n \in HeldBy(call[c])
    \/ \E k \in DOMAIN closer : n \in TakenBy(closer[k])

StaysStep(c) ==
    /\ CallStays(c)' /\ HandsOn(c) /\ NewFiles
    /\ Owned'

LEMMA NoNewFiles == ASSUME UNCHANGED disk \/ DOMAIN disk' \subseteq DOMAIN disk PROVE NewFiles
BY DEF NewFiles

----------------------------------------------------------------------------
(* The steps of a call that create and discard nothing. *)

LEMMA CallFrame ==
    ASSUME IInv, NEW c \in Callers, CallStep(c)
    PROVE  (\A d \in Callers \ {c} : call'[d] = call[d]) /\ closer' = closer
<1>1. closer' = closer
  BY DEF CallStep, WithOpenFile, Op, Mark, OpenExisting, ListMissing, MkdirAll, CreateExclusive, Reopen, Install,
     CloseOut, LastResort, InstallLocked, DiscardList, DiscardCheck, DiscardRemove, recordVars
<1>2. \E y : call' = [call EXCEPT ![c] = y]
  <2>1. DOMAIN call = Callers
    BY DEF IInv, Types
  <2>. QED
    BY <2>1 DEF CallStep, WithOpenFile, Op, Mark, OpenExisting, ListMissing, MkdirAll, CreateExclusive, Reopen, Install,
       CloseOut, LastResort, InstallLocked, DiscardList, DiscardCheck, DiscardRemove, Onward, NextPath, Goto, Fail, Opened
<1>. QED  BY <1>1, <1>2 DEF IInv, Types

\* A handle that is open after a step is its call's, its torrent's, or was another's.
FdsOwned(c, t) ==
    \A n \in Fds : fds'[n] # NoFd =>
        \/ n \in InTab(t)' \cup HeldBy(call'[c])
        \/ fds[n] # NoFd /\ n \notin InTab(t) \cup HeldBy(call[c])

LEMMA OwnedKept ==
    ASSUME IInv, Owned, NEW c \in Callers, NEW t \in Torrents, FdsOwned(c, t), closer' = closer,
           \A d \in Callers \ {c} : call'[d] = call[d],
           \A u \in Torrents \ {t} : table'[u] = table[u]
    PROVE  Owned'
<1>. SUFFICES ASSUME NEW n \in Fds, fds'[n] # NoFd
              PROVE  \/ \E u \in Torrents : n \in InTab(u)'
                     \/ \E d \in Callers : n \in HeldBy(call'[d])
                     \/ \E k \in DOMAIN closer : n \in TakenBy(closer[k])
  BY DEF Owned
<1>1. CASE n \in InTab(t)' \cup HeldBy(call'[c])
  BY <1>1
<1>2. CASE fds[n] # NoFd /\ n \notin InTab(t) \cup HeldBy(call[c])
  <2>1. CASE \E u \in Torrents : n \in InTab(u)
    BY <1>2, <2>1 DEF InTab
  <2>2. CASE \E d \in Callers : n \in HeldBy(call[d])
    BY <1>2, <2>2
  <2>3. CASE \E k \in DOMAIN closer : n \in TakenBy(closer[k])
    BY <2>3
  <2>. QED  BY <1>2, <2>1, <2>2, <2>3 DEF Owned
<1>. QED  BY <1>1, <1>2 DEF FdsOwned

\* The handles held before stay held, or in a table, or are closed.
LEMMA OwnedHere ==
    ASSUME IInv, Owned, NEW c \in Callers, closer' = closer, \A d \in Callers \ {c} : call'[d] = call[d],
           NEW S, (UNCHANGED fds /\ S = {}) \/ Closing(S),
           \A u \in Torrents : InTab(u)' = InTab(u), HeldBy(call[c]) \subseteq S \cup HeldBy(call'[c])
    PROVE  Owned'
<1>. SUFFICES ASSUME NEW n \in Fds, fds'[n] # NoFd
              PROVE  \/ \E u \in Torrents : n \in InTab(u)'
                     \/ \E d \in Callers : n \in HeldBy(call'[d])
                     \/ \E k \in DOMAIN closer : n \in TakenBy(closer[k])
  BY DEF Owned
<1>1. fds[n] # NoFd /\ n \notin S
  BY FdsClosed
<1>. QED  BY <1>1 DEF Owned

LEMMA PlainStep ==
    ASSUME IInv, Owned, NEW c \in Callers, closer' = closer, \A d \in Callers \ {c} : call'[d] = call[d],
           UNCHANGED <<disk, fds>>, \A u \in Torrents : InTab(u)' = InTab(u),
           call[c].pc \notin {"install", "closeOut"} \cup Discarding,
           call'[c].pc \notin {"install"} \cup Discarding
    PROVE  StaysStep(c)
<1>1. CallStays(c)' /\ NewFiles
  BY NothingToDiscard, NoNewFiles
<1>2. HeldBy(call[c]) = {} /\ HandsOn(c)
  BY DEF HeldBy, HandsOn, Late, Creator, Discarding
<1>3. Owned'
  BY <1>2, OwnedHere
<1>. QED  BY <1>1, <1>2, <1>3 DEF StaysStep

LEMMA NextPc ==
    ASSUME IInv, NEW c \in Callers
    PROVE  /\ Fail(c) => call'[c].pc = "idle"
           /\ Busy(c) => /\ \A pc : Goto(c, pc) => call'[c].pc = pc
                         /\ \A found \in BOOLEAN : Onward(c, found) =>
                              call'[c].pc \in {"idle", "fast", "markComplete", "markNotComplete"}
<1>1. DOMAIN call = Callers
  BY DEF IInv, Types
<1>2. Fail(c) => call'[c].pc = "idle"
  <2>1. Fail(c) => call'[c] = Idle
    BY <1>1 DEF Fail
  <2>. QED  BY <2>1 DEF Idle
<1>3. ASSUME Busy(c), NEW pc, Goto(c, pc) PROVE call'[c].pc = pc
  <2>1. call[c] \in BusyCalls
    BY <1>3, CallFacts
  <2>. DEFINE x == call[c]
  <2>2. call'[c] = [x EXCEPT !.pc = pc]
    BY <1>1, <1>3 DEF Goto
  <2>. HIDE DEF x
  <2>3. x \in BusyCalls
    BY <2>1 DEF x
  <2>. QED  BY <2>2, <2>3 DEF BusyCalls
<1>4. ASSUME Busy(c), NEW found \in BOOLEAN, Onward(c, found)
      PROVE  call'[c].pc \in {"idle", "fast", "markComplete", "markNotComplete"}
  BY <1>4, CallFacts, OnwardCall
<1>. QED  BY <1>2, <1>3, <1>4

LEMMA SameTabs ==
    ASSUME IInv, NEW t \in Torrents, NEW i,
           UNCHANGED table \/ (Has(t, i) /\ table' = [table EXCEPT ![t] = Touched(t, i)])
    PROVE  \A u \in Torrents : InTab(u)' = InTab(u)
<1>1. CASE UNCHANGED table
  BY <1>1 DEF InTab
<1>2. CASE Has(t, i) /\ table' = [table EXCEPT ![t] = Touched(t, i)]
  <2>1. table[t] \in Seq(Handles(t)) /\ Apart(table[t]) /\ DOMAIN table = Torrents
    BY DEF IInv, Types, FdInv
  <2>2. Entries(Touched(t, i)) = Entries(table[t])
    BY <1>2, <2>1, TouchedEntries
  <2>3. \A u \in Torrents : Entries(table'[u]) = Entries(table[u])
    BY <1>2, <2>1, <2>2
  <2>. QED  BY <2>3 DEF InTab
<1>. QED  BY <1>1, <1>2

\* A call that stays in the calls: what EXCEPT makes of its place.
LEMMA Moved ==
    ASSUME IInv, NEW c \in Callers, Busy(c), NEW pc, NEW e, NEW n, NEW s,
           \/ call' = [call EXCEPT ![c] = [@ EXCEPT !.pc = pc, !.entered = e]]
           \/ call' = [call EXCEPT ![c] = [@ EXCEPT !.pc = pc, !.fd = n]]
           \/ call' = [call EXCEPT ![c] = [@ EXCEPT !.pc = pc, !.excl = e, !.fd = n]]
           \/ call' = [call EXCEPT ![c] = [@ EXCEPT !.pc = pc, !.excl = e]]
           \/ call' = [call EXCEPT ![c] = [@ EXCEPT !.pc = pc, !.created = s]]
           \/ call' = [call EXCEPT ![c] = [@ EXCEPT !.pc = pc, !.out = s]]
    PROVE  call'[c].pc = pc
<1>1. PICK x : x = call[c]
  OBVIOUS
<1>2. x \in BusyCalls /\ DOMAIN call = Callers
  BY <1>1, CallFacts
<1>3. \/ call'[c] = [x EXCEPT !.pc = pc, !.entered = e]
      \/ call'[c] = [x EXCEPT !.pc = pc, !.fd = n]
      \/ call'[c] = [x EXCEPT !.pc = pc, !.excl = e, !.fd = n]
      \/ call'[c] = [x EXCEPT !.pc = pc, !.excl = e]
      \/ call'[c] = [x EXCEPT !.pc = pc, !.created = s]
      \/ call'[c] = [x EXCEPT !.pc = pc, !.out = s]
  BY <1>1, <1>2
<1>. QED  BY <1>2, <1>3 DEF BusyCalls

LEMMA PlainCalls ==
    ASSUME IInv, Owned, NEW c \in Callers, Op(c) \/ Mark(c) \/ ListMissing(c) \/ MkdirAll(c)
    PROVE  StaysStep(c)
<1>1. Busy(c) /\ CallStep(c) /\ UNCHANGED <<disk, fds, table>>
  BY DEF Op, Mark, ListMissing, MkdirAll, Busy, CallStep, diskVars
<1>2. call[c].pc \in {"op", "markComplete", "markNotComplete", "create", "mkdir"}
  BY DEF Op, Mark, ListMissing, MkdirAll
<1>3. call'[c].pc \in {"idle", "fast", "markComplete", "markNotComplete", "mkdir", "createExcl"}
  <2>1. CASE Op(c)
    <3>1. \E found \in BOOLEAN : Onward(c, found)
      <4>1. (call[c].piece \in content[fds[call[c].fd].inode]) \in BOOLEAN /\ TRUE \in BOOLEAN
        OBVIOUS
      <4>2. Onward(c, TRUE) \/ Onward(c, call[c].piece \in content[fds[call[c].fd].inode])
        BY <2>1 DEF Op
      <4>. QED  BY <4>1, <4>2
    <3>. QED  BY <1>1, <3>1, NextPc
  <2>2. CASE Mark(c)
    BY <2>2, NextPc DEF Mark
  <2>3. CASE ListMissing(c)
    <3>1. call' = [call EXCEPT ![c] = [@ EXCEPT !.pc = "mkdir", !.created = MissingDirs(Path(c))]]
      BY <1>1, <2>3, CallFacts DEF ListMissing
    <3>. QED  BY <1>1, <3>1, Moved
  <2>4. CASE MkdirAll(c)
    BY <1>1, <2>4, NextPc DEF MkdirAll
  <2>. QED  BY <2>1, <2>2, <2>3, <2>4
<1>4. \A u \in Torrents : InTab(u)' = InTab(u)
  BY <1>1 DEF InTab
<1>. QED  BY <1>1, <1>2, <1>3, <1>4, CallFrame, PlainStep DEF Discarding

LEMMA WithOpenFileStays == ASSUME IInv, Owned, NEW c \in Callers, WithOpenFile(c) PROVE StaysStep(c)
<1>1. Busy(c) /\ CallStep(c) /\ UNCHANGED <<disk, fds>> /\ call[c].pc \in {"fast", "retry"}
  BY DEF WithOpenFile, Busy, CallStep, diskVars
<1>2. call[c].t \in Torrents
  BY <1>1, CallFacts
<1>3. \A u \in Torrents : InTab(u)' = InTab(u)
  BY <1>2, SameTabs DEF WithOpenFile, Fits
<1>4. call'[c].pc \in {"idle", "op", "open", "lock"}
  <2>1. CASE Fail(c) \/ Goto(c, "lock")
    BY <1>1, <2>1, NextPc
  <2>2. CASE ~Fail(c) /\ ~Goto(c, "lock")
    <3>1. \/ \E n : call' = [call EXCEPT ![c].pc = "op", ![c].fd = n]
          \/ call' = [call EXCEPT ![c].pc = "open", ![c].entered = TRUE]
      BY <2>2 DEF WithOpenFile
    <3>2. \/ \E n : call' = [call EXCEPT ![c] = [@ EXCEPT !.pc = "op", !.fd = n]]
          \/ call' = [call EXCEPT ![c] = [@ EXCEPT !.pc = "open", !.entered = TRUE]]
      BY <1>1, <3>1, CallFacts
    <3>3. ASSUME NEW n, call' = [call EXCEPT ![c] = [@ EXCEPT !.pc = "op", !.fd = n]] PROVE call'[c].pc = "op"
      BY <1>1, <3>3, Moved
    <3>4. CASE call' = [call EXCEPT ![c] = [@ EXCEPT !.pc = "open", !.entered = TRUE]]
      BY <1>1, <3>4, Moved
    <3>. QED  BY <3>2, <3>3, <3>4
  <2>. QED  BY <2>1, <2>2
<1>. QED  BY <1>1, <1>3, <1>4, CallFrame, PlainStep DEF Discarding

LEMMA CloseOutStays == ASSUME IInv, Owned, NEW c \in Callers, CloseOut(c) PROVE StaysStep(c)
<1>1. Busy(c) /\ CallStep(c) /\ UNCHANGED <<disk, table>> /\ call[c].pc = "closeOut" /\ Closing(call[c].out)
  BY DEF CloseOut, Busy, CallStep, diskVars
<1>2. call' = [call EXCEPT ![c] = [@ EXCEPT !.pc = "retry", !.out = {}]]
  BY <1>1, CallFacts DEF CloseOut
<1>3. call'[c].pc = "retry"
  BY <1>1, <1>2, Moved
<1>4. CallStays(c)' /\ NewFiles /\ HandsOn(c)
  BY <1>1, <1>3, NothingToDiscard, NoNewFiles DEF Discarding, HandsOn, Late, Creator
<1>5. HeldBy(call[c]) = call[c].out
  BY <1>1 DEF HeldBy
<1>6. Owned'
  <2>1. \A u \in Torrents : InTab(u)' = InTab(u)
    BY <1>1 DEF InTab
  <2>. QED  BY <1>1, <1>5, <2>1, CallFrame, OwnedHere
<1>. QED  BY <1>4, <1>6 DEF StaysStep

\* A call that has opened a handle holds it.
LEMMA OpenedOwned ==
    ASSUME IInv, Owned, NEW c \in Callers, Busy(c), CallStep(c), UNCHANGED table, FreeFds # {},
           NEW e, fds' = [fds EXCEPT ![FreeFd] = e], FreeFd \in HeldBy(call'[c]),
           call[c].pc \notin {"install", "closeOut", "discard"}
    PROVE  Owned'
<1>1. call[c].t \in Torrents
  BY CallFacts
<1>2. HeldBy(call[c]) = {}
  BY DEF HeldBy
<1>3. \A n \in Fds : n # FreeFd => fds'[n] = fds[n]
  BY OneFd
<1>4. Owned'
  <2>. SUFFICES ASSUME NEW n \in Fds, fds'[n] # NoFd
              PROVE  \/ \E u \in Torrents : n \in InTab(u)'
                     \/ \E d \in Callers : n \in HeldBy(call'[d])
                     \/ \E k \in DOMAIN closer : n \in TakenBy(closer[k])
    BY CallFrame DEF Owned
  <2>1. CASE n = FreeFd
    BY <2>1
  <2>2. CASE n # FreeFd
    <3>1. fds[n] # NoFd
      BY <1>3, <2>2
    <3>2. CASE \E u \in Torrents : n \in InTab(u)
      BY <3>2 DEF InTab
    <3>3. CASE \E d \in Callers : n \in HeldBy(call[d])
      BY <1>2, <3>3, CallFrame
    <3>. QED  BY <3>1, <3>2, <3>3 DEF Owned
  <2>. QED  BY <2>1, <2>2
<1>. QED  BY <1>4

LEMMA OpenedStays ==
    ASSUME IInv, Owned, NEW c \in Callers, CallStep(c), Busy(c), call[c].pc \in {"open", "reopen"},
           NEW created \in Seq(AllFiles \cup AllDirs), \A k \in DOMAIN created : created[k] \in DirsOf(Path(c)),
           Opened(c, Path(c), created), UNCHANGED <<table, disk>>
    PROVE  StaysStep(c)
<1>. DEFINE x == call[c]
            n == FreeFd
            y == call'[c]
<1>1. GoodCall(x) /\ x \in BusyCalls /\ DOMAIN call = Callers /\ Path(c) = PathIn(x) /\ Path(c) \in AllFiles
  BY CallFacts
<1>2. FreeFds # {} /\ fds' = [fds EXCEPT ![n] = OpenOn(c, Path(c), Write(c))]
  BY DEF Opened
<1>3. n \in Fds
  BY <1>2, OneFd
<1>4. y = [x EXCEPT !.pc = "install", !.fd = n, !.created = created]
  BY <1>1 DEF Opened
<1>5. \A k \in DOMAIN created : created[k] \in DirsOf(PathIn(x)) \/ (k = 1 /\ created[k] = PathIn(x))
  BY <1>1
<1>6. Installing(x, y, n, created)
  <2>1. x.pc \in {"open", "createExcl", "reopen"}
    OBVIOUS
  <2>. HIDE DEF x, n, y
  <2>. QED  BY <1>1, <1>3, <1>4, <1>5, <2>1, InstallNext
<1>7. y.pc = "install" /\ y.created = created /\ PathIn(y) = PathIn(x) /\ HeldBy(y) = {n}
  BY <1>6 DEF Installing
<1>8. ~Creator(y)
  <2>1. ASSUME created # <<>>, Head(created) = PathIn(x) PROVE FALSE
    <3>1. 1 \in DOMAIN created /\ Head(created) = created[1]
      BY <2>1, EmptySeq
    <3>2. Head(created) \in AllDirs
      BY <1>1, <3>1, MissingAreDirs
    <3>. QED  BY <1>1, <2>1, <3>2, FilesAreNotDirs
  <2>. QED  BY <1>7, <2>1 DEF Creator
<1>9. CallStays(c)' /\ NewFiles
  BY <1>7, <1>8, NothingCreated, NoNewFiles
<1>10. HandsOn(c)
  BY DEF HandsOn, Late, Creator, Discarding
<1>11. Owned'
  BY <1>2, <1>7, OpenedOwned
<1>. QED  BY <1>9, <1>10, <1>11 DEF StaysStep

LEMMA OpenExistingStays == ASSUME IInv, Owned, NEW c \in Callers, OpenExisting(c) PROVE StaysStep(c)
<1>1. Busy(c) /\ CallStep(c) /\ UNCHANGED <<disk, table>> /\ call[c].pc = "open"
  BY DEF OpenExisting, Busy, CallStep, diskVars
<1>2. CASE Opened(c, Path(c), <<>>)
  <2>1. <<>> \in Seq(AllFiles \cup AllDirs) /\ DOMAIN <<>> = {}
    OBVIOUS
  <2>. QED  BY <1>1, <1>2, <2>1, OpenedStays
<1>3. CASE UNCHANGED fds /\ (Onward(c, FALSE) \/ Fail(c) \/ Goto(c, "create"))
  <2>1. call'[c].pc \in {"idle", "fast", "markComplete", "markNotComplete", "create"}
    BY <1>1, <1>3, NextPc
  <2>2. \A u \in Torrents : InTab(u)' = InTab(u)
    BY <1>1 DEF InTab
  <2>. QED  BY <1>1, <1>3, <2>1, <2>2, CallFrame, PlainStep DEF Discarding
<1>. QED  BY <1>2, <1>3 DEF OpenExisting

LEMMA ReopenStays == ASSUME IInv, Owned, NEW c \in Callers, Reopen(c) PROVE StaysStep(c)
<1>1. Busy(c) /\ CallStep(c) /\ UNCHANGED <<disk, table>> /\ call[c].pc = "reopen"
  BY DEF Reopen, Busy, CallStep, diskVars
<1>2. CASE Opened(c, Path(c), call[c].created)
  <2>1. /\ call[c].created \in Seq(AllFiles \cup AllDirs)
        /\ \A k \in DOMAIN call[c].created : call[c].created[k] \in DirsOf(Path(c))
    BY <1>1, CallFacts DEF GoodCall, BusyCalls
  <2>. QED  BY <1>1, <1>2, <2>1, OpenedStays
<1>3. CASE UNCHANGED fds /\ Fail(c)
  <2>1. call'[c].pc = "idle"
    BY <1>1, <1>3, NextPc
  <2>2. \A u \in Torrents : InTab(u)' = InTab(u)
    BY <1>1 DEF InTab
  <2>. QED  BY <1>1, <1>3, <2>1, <2>2, CallFrame, PlainStep DEF Discarding
<1>. QED  BY <1>2, <1>3 DEF Reopen

----------------------------------------------------------------------------
(* The steps that put a handle in the table, or give it up. *)

LEMMA LastResortStays == ASSUME IInv, Owned, NEW c \in Callers, LastResort(c) PROVE StaysStep(c)
<1>0. PICK t \in Torrents : t = call[c].t
  BY CallFacts DEF LastResort, Busy
<1>. DEFINE i == File(c)
<1>1. Busy(c) /\ CallStep(c) /\ UNCHANGED disk /\ call[c].pc = "lock"
  BY DEF LastResort, Busy, CallStep, diskVars
<1>2. CASE UNCHANGED fds /\ (UNCHANGED table \/ (Has(t, i) /\ table' = [table EXCEPT ![t] = Touched(t, i)]))
           /\ (Fail(c) \/ \E n : call' = [call EXCEPT ![c].pc = "op", ![c].excl = TRUE, ![c].fd = n])
  <2>1. \A u \in Torrents : InTab(u)' = InTab(u)
    BY <1>2, SameTabs
  <2>2. call'[c].pc \in {"idle", "op"}
    <3>1. CASE Fail(c)
      BY <3>1, NextPc
    <3>2. ASSUME NEW n, call' = [call EXCEPT ![c].pc = "op", ![c].excl = TRUE, ![c].fd = n] PROVE call'[c].pc = "op"
      <4>1. call' = [call EXCEPT ![c] = [@ EXCEPT !.pc = "op", !.excl = TRUE, !.fd = n]]
        BY <1>1, <3>2, CallFacts
      <4>. QED  BY <1>1, <4>1, Moved
    <3>. QED  BY <1>2, <3>1, <3>2
  <2>. QED  BY <1>1, <1>2, <2>1, <2>2, CallFrame, PlainStep DEF Discarding
<1>3. CASE /\ table' = [table EXCEPT ![t] = Room(t, i)] /\ Closing(Leaving(t, i))
           /\ call' = [call EXCEPT ![c].pc = "open", ![c].excl = TRUE]
  <2>1. call'[c].pc = "open"
    <3>1. call' = [call EXCEPT ![c] = [@ EXCEPT !.pc = "open", !.excl = TRUE]]
      BY <1>1, <1>3, CallFacts
    <3>. QED  BY <1>1, <3>1, Moved
  <2>2. table'[t] = Room(t, i) /\ \A u \in Torrents \ {t} : table'[u] = table[u]
    BY <1>3 DEF IInv, Types
  <2>3. Leaving(t, i) = InTab(t) \ {e.fd : e \in Entries(Room(t, i))}
    BY RoomFds
  <2>4. InTab(t)' = InTab(t) \ Leaving(t, i)
    <3>1. {e.fd : e \in Entries(Room(t, i))} \subseteq InTab(t)
      BY RoomFds
    <3>2. InTab(t)' = {e.fd : e \in Entries(Room(t, i))}
      BY <2>2 DEF InTab
    <3>. QED  BY <2>3, <3>1, <3>2
  <2>5. HeldBy(call[c]) = {} /\ HandsOn(c) /\ CallStays(c)' /\ NewFiles
    BY <1>1, <2>1, NothingToDiscard, NoNewFiles DEF HeldBy, HandsOn, Late, Creator, Discarding
  <2>6. FdsOwned(c, t)
    <3>. SUFFICES ASSUME NEW n \in Fds, fds'[n] # NoFd
                  PROVE  n \in InTab(t)' \/ (fds[n] # NoFd /\ n \notin InTab(t))
      BY <2>5 DEF FdsOwned
    <3>1. fds[n] # NoFd /\ n \notin Leaving(t, i)
      BY <1>3, FdsClosed
    <3>. QED  BY <2>4, <3>1
  <2>. QED  BY <1>1, <2>2, <2>5, <2>6, CallFrame, OwnedKept DEF StaysStep
<1>. QED  BY <1>0, <1>2, <1>3 DEF LastResort, Fits

LEMMA InstallLockedStays == ASSUME IInv, Owned, NEW c \in Callers, InstallLocked(c) PROVE StaysStep(c)
<1>0. PICK t \in Torrents : t = call[c].t
  BY CallFacts DEF InstallLocked, Busy
<1>. DEFINE n == call[c].fd
            e == [file |-> File(c), fd |-> n]
<1>1. Busy(c) /\ CallStep(c) /\ UNCHANGED <<disk, fds>> /\ call[c].pc = "install" /\ call[c].excl /\ Goto(c, "op")
  BY DEF InstallLocked, Busy, CallStep, diskVars
<1>2. call'[c].pc = "op"
  BY <1>1, NextPc
<1>3. ~closed[t]
  BY <1>0, <1>1, CallFacts DEF LiveCall
<1>4. table'[t] = Append(table[t], e) /\ \A u \in Torrents \ {t} : table'[u] = table[u]
  BY <1>0 DEF InstallLocked, IInv, Types
<1>5. InTab(t)' = InTab(t) \cup {n}
  <2>1. /\ table[t] \in Seq(Handles(t)) /\ Apart(table[t]) /\ File(c) \in DOMAIN PathOf[t]
        /\ n \in HeldBy(call[c]) /\ n \in Fds /\ n \notin InTab(t)
    BY <1>0, <1>1, CallFacts DEF HeldBy, GoodCall
  <2>2. e \in Handles(t) /\ e.fd = n /\ e.fd \notin {a.fd : a \in Entries(table[t])}
    BY <2>1 DEF Handles, InTab
  <2>3. Entries(table'[t]) = Entries(table[t]) \cup {e}
    BY <1>4, <2>1, <2>2, AppendEntries
  <2>. HIDE DEF n, e
  <2>. QED  BY <2>2, <2>3 DEF InTab
<1>6. CallStays(c)' /\ NewFiles
  BY <1>1, <1>2, NothingToDiscard, NoNewFiles DEF Discarding
<1>7. HandsOn(c)
  BY <1>0, <1>3 DEF HandsOn
<1>8. HeldBy(call[c]) = {n}
  BY <1>1 DEF HeldBy
<1>9. FdsOwned(c, t)
  BY <1>1, <1>5, <1>8 DEF FdsOwned
<1>. QED  BY <1>1, <1>4, <1>6, <1>7, <1>9, CallFrame, OwnedKept DEF StaysStep

\* install when Close has begun: the table as it is then is what is kept.
LEMMA InstallLateStays ==
    ASSUME IInv, Owned, NEW c \in Callers, CallStays(c), Install(c), closed[call[c].t], UNCHANGED table,
           call' = [call EXCEPT ![c].pc = "discard", ![c].keep = InTable(call[c].t)]
    PROVE  StaysStep(c)
<1>0. PICK t, x, y : t = call[c].t /\ x = call[c] /\ y = call'[c]
  OBVIOUS
<1>1. /\ Busy(c) /\ CallStep(c) /\ UNCHANGED <<disk, fds, late, gone, closed>> /\ x.pc = "install"
  BY <1>0 DEF Install, Busy, CallStep, diskVars, openVars, history
<1>2. x \in BusyCalls /\ DOMAIN call = Callers
  BY <1>0, <1>1, CallFacts
<1>3. y = [x EXCEPT !.pc = "discard", !.keep = InTable(t)]
  BY <1>0, <1>2
<1>4. /\ y.pc = "discard" /\ y.t = t /\ y.todo = x.todo /\ y.created = x.created /\ y.fd = x.fd /\ y.keep = InTable(t)
  BY <1>0, <1>2, <1>3 DEF BusyCalls
<1>5. PathIn(y) = PathIn(x) /\ (Creator(x) <=> Creator(y)) /\ UNCHANGED InTable(t)
  <2>1. PathIn(y) = PathIn(x)
    BY <1>0, <1>4 DEF PathIn
  <2>2. UNCHANGED InTable(t)
    BY DEF InTable
  <2>3. Creator(x) <=> Creator(y)
    BY <1>1, <1>4, <2>1 DEF Creator, Discarding
  <2>. QED  BY <2>1, <2>2, <2>3
<1>6. CallStays(c)'
  <2>1. Late(y)' => Late(x)
    BY <1>1, <1>5 DEF Late, Creator
  <2>2. Late(x) => PathIn(x) \notin InTable(t)
    BY <1>0 DEF CallStays
  <2>3. Late(call[c])' => Late(x)
    BY <1>0, <2>1 DEF Late
  <2>. QED
    BY <1>0, <1>1, <1>4, <1>5, <2>2, <2>3 DEF CallStays
<1>7. HandsOn(c) /\ NewFiles
  BY <1>0, <1>1, <1>4, <1>5, NoNewFiles DEF HandsOn, Late
<1>8. Owned'
  <2>1. \A u \in Torrents : InTab(u)' = InTab(u)
    BY DEF InTab
  <2>2. HeldBy(call[c]) = HeldBy(call'[c])
    BY <1>0, <1>1, <1>4 DEF HeldBy
  <2>. QED  BY <1>1, <2>1, <2>2, CallFrame, OwnedHere
<1>. QED  BY <1>6, <1>7, <1>8 DEF StaysStep

LEMMA InstallStays == ASSUME IInv, Owned, NEW c \in Callers, CallStays(c), Install(c) PROVE StaysStep(c)
<1>0. PICK t \in Torrents : t = call[c].t
  BY CallFacts DEF Install, Busy
<1>. DEFINE n == call[c].fd
            i == File(c)
<1>1. Busy(c) /\ CallStep(c) /\ UNCHANGED <<disk, fds>> /\ call[c].pc = "install"
  BY DEF Install, Busy, CallStep, diskVars
<1>2. HeldBy(call[c]) = {n}
  BY <1>1 DEF HeldBy
<1>3. CASE closed[t]
  BY <1>0, <1>3, InstallLateStays DEF Install
<1>4. CASE ~closed[t]
  <2>1. ASSUME NEW out, call' = [call EXCEPT ![c].pc = "closeOut", ![c].out = out]
        PROVE  call'[c].pc = "closeOut" /\ HeldBy(call'[c]) = out
    <3>1. PICK x : x = call[c]
      OBVIOUS
    <3>2. x \in BusyCalls /\ DOMAIN call = Callers
      BY <1>1, <3>1, CallFacts
    <3>3. call'[c] = [x EXCEPT !.pc = "closeOut", !.out = out]
      BY <2>1, <3>1, <3>2
    <3>4. call'[c].pc = "closeOut" /\ call'[c].out = out
      BY <3>2, <3>3 DEF BusyCalls
    <3>. QED  BY <3>4 DEF HeldBy
  <2>2. call'[c].pc = "closeOut"
    BY <1>0, <1>4, <2>1 DEF Install
  <2>3. HandsOn(c) /\ CallStays(c)' /\ NewFiles
    BY <1>0, <1>1, <1>4, <2>2, NothingToDiscard, NoNewFiles DEF HandsOn, Discarding
  <2>4. CASE UNCHANGED table /\ call' = [call EXCEPT ![c].pc = "closeOut", ![c].out = {n}]
    <3>1. HeldBy(call'[c]) = {n}
      BY <2>1, <2>4
    <3>2. \A u \in Torrents : InTab(u)' = InTab(u)
      BY <2>4 DEF InTab
    <3>3. Owned'
      BY <1>1, <1>2, <3>1, <3>2, CallFrame, OwnedHere
    <3>. QED  BY <2>3, <3>3 DEF StaysStep
  <2>5. CASE /\ table' = [table EXCEPT ![t] = Append(Room(t, i), [file |-> i, fd |-> n])]
             /\ call' = [call EXCEPT ![c].pc = "closeOut", ![c].out = Leaving(t, i)]
    <3>1. HeldBy(call'[c]) = Leaving(t, i)
      BY <2>1, <2>5
    <3>. DEFINE e == [file |-> i, fd |-> n]
                r == Room(t, i)
                R == {a.fd : a \in Entries(r)}
    <3>2. r \in Seq(Handles(t)) /\ Apart(r) /\ R \subseteq InTab(t) /\ Leaving(t, i) = InTab(t) \ R
      BY RoomFds
    <3>3. table'[t] = Append(r, e) /\ \A u \in Torrents \ {t} : table'[u] = table[u]
      BY <2>5 DEF IInv, Types
    <3>4. InTab(t)' = R \cup {n}
      <4>1. n \in Fds /\ n \notin InTab(t) /\ i \in DOMAIN PathOf[t]
        BY <1>0, <1>1, <1>2, CallFacts DEF GoodCall
      <4>2. e \in Handles(t) /\ e.fd = n /\ e.fd \notin R
        BY <3>2, <4>1 DEF Handles
      <4>. HIDE DEF r, n, i
      <4>3. Entries(table'[t]) = Entries(r) \cup {e}
        BY <3>2, <3>3, <4>2, AppendEntries
      <4>. HIDE DEF e
      <4>. QED  BY <4>2, <4>3 DEF InTab
    <3>5. FdsOwned(c, t)
      BY <1>1, <1>2, <3>1, <3>2, <3>4 DEF FdsOwned
    <3>. QED  BY <1>1, <2>3, <3>3, <3>5, CallFrame, OwnedKept DEF StaysStep
  <2>. QED  BY <1>0, <1>4, <2>4, <2>5 DEF Install
<1>. QED  BY <1>3, <1>4

----------------------------------------------------------------------------
(* The steps that create and discard. *)

LEMMA CreateExclusiveStays == ASSUME IInv, Owned, AllOn, NEW c \in Callers, CreateExclusive(c) PROVE StaysStep(c)
<1>0. PICK t \in Torrents : t = call[c].t
  BY CallFacts DEF CreateExclusive, Busy
<1>1. Busy(c) /\ CallStep(c) /\ UNCHANGED <<table, closed, gone, content>> /\ call[c].pc = "createExcl"
  BY DEF CreateExclusive, Busy, CallStep, openVars, history
<1>2. \A u \in Torrents : InTab(u)' = InTab(u)
  BY <1>1 DEF InTab
<1>3. CASE (Fail(c) \/ Goto(c, "reopen")) /\ UNCHANGED <<disk, fds>>
  <2>1. call'[c].pc \in {"idle", "reopen"}
    BY <1>1, <1>3, NextPc
  <2>. QED  BY <1>1, <1>2, <1>3, <2>1, CallFrame, PlainStep DEF Discarding
<1>4. ASSUME ~Exists(Path(c)), FreshInodes # {}, FreeFds # {},
             NEW n, n = CHOOSE m \in FreshInodes : TRUE,
             disk' = [g \in DOMAIN disk \cup {Real(Path(c))} |-> IF g = Real(Path(c)) THEN n ELSE disk[g]],
             fds' = [fds EXCEPT ![FreeFd] = [t |-> call[c].t, inode |-> n, writable |-> TRUE]],
             call' = [call EXCEPT ![c].pc = "install", ![c].fd = FreeFd, ![c].created = <<Path(c)>> \o @],
             late' = IF closed[call[c].t] THEN late \cup {n} ELSE late
      PROVE  StaysStep(c)
  <2>1. PICK x, y, m, new, f :
          /\ x = call[c] /\ y = call'[c] /\ m = FreeFd /\ new = <<Path(c)>> \o call[c].created
          /\ f = Real(Path(c))
    OBVIOUS
  <2>2. /\ GoodCall(x) /\ x \in BusyCalls /\ DOMAIN call = Callers /\ Path(c) = PathIn(x) /\ Path(c) \in AllFiles /\ x.t = t
    BY <1>0, <1>1, <2>1, CallFacts
  <2>3. n \in FreshInodes /\ f \notin DOMAIN disk /\ m \in Fds
    BY <1>4, <2>1, OneFd DEF Exists
  <2>3a. disk' = [g \in DOMAIN disk \cup {f} |-> IF g = f THEN n ELSE disk[g]]
    BY <1>4, <2>1
  <2>4. /\ new \in Seq(AllFiles \cup AllDirs) /\ new # <<>> /\ Head(new) = PathIn(x)
        /\ \A k \in DOMAIN new : new[k] \in DirsOf(PathIn(x)) \/ (k = 1 /\ new[k] = PathIn(x))
    <3>. DEFINE s == x.created
    <3>1. s \in Seq(AllFiles \cup AllDirs) /\ \A k \in DOMAIN s : s[k] \in DirsOf(PathIn(x))
      BY <1>1, <2>1, <2>2 DEF GoodCall, BusyCalls
    <3>2. new = <<Path(c)>> \o s
      BY <2>1
    <3>. HIDE DEF s
    <3>3. /\ new \in Seq(AllFiles \cup AllDirs) /\ Len(new) = Len(s) + 1 /\ Len(s) \in Nat /\ DOMAIN new = 1..Len(s) + 1
          /\ new[1] = Path(c) /\ \A k \in 1..Len(s) + 1 : k # 1 => new[k] = s[k - 1]
      BY <2>2, <3>1, <3>2
    <3>4. DOMAIN s = 1..Len(s)
      BY <3>1
    <3>5. \A k \in DOMAIN new : k # 1 => new[k] \in DirsOf(PathIn(x))
      BY <3>1, <3>3, <3>4
    <3>6. new # <<>> /\ Head(new) = new[1]
      BY <3>3
    <3>. QED  BY <2>2, <3>3, <3>5, <3>6
  <2>5. y = [x EXCEPT !.pc = "install", !.fd = m, !.created = new]
    BY <1>4, <2>1, <2>2
  <2>6. Installing(x, y, m, new)
    BY <1>1, <2>1, <2>2, <2>3, <2>4, <2>5, InstallNext
  <2>7. GoodCall(y) /\ y.t = t /\ PathIn(y) = PathIn(x) /\ y.pc = "install" /\ HeldBy(y) = {m} /\ Creator(y)
    BY <2>2, <2>4, <2>6 DEF Installing, Creator
  <2>8. Real(PathIn(y)) = f /\ disk'[f] = n /\ DOMAIN disk' = DOMAIN disk \cup {f}
    BY <2>1, <2>2, <2>7, <2>3a
  <2>9. n \in late' => closed[t]
    BY <1>0, <1>4, <2>3 DEF FreshInodes
  <2>10. NewFiles
    <3>. SUFFICES ASSUME NEW g \in DOMAIN disk' \ DOMAIN disk, disk'[g] \in late'
                  PROVE  /\ Creator(y) /\ Real(PathIn(y)) = g /\ GoodCall(y) /\ closed'[y.t]
      BY <2>1 DEF NewFiles
    <3>. QED  BY <1>1, <2>7, <2>8, <2>9
  <2>11. CallStays(c)'
    <3>1. ASSUME f \notin gone PROVE PathIn(y) \notin InTable(t)
      <4>. SUFFICES ASSUME PathIn(y) \in InTable(t) PROVE FALSE
        OBVIOUS
      <4>1. PICK k \in DOMAIN table[t] : PathIn(y) = PathOf[t][table[t][k].file]
        BY DEF InTable
      <4>2. OnFile(PathIn(y), table[t][k].fd)
        BY <4>1 DEF AllOn, TableOn, Entries
      <4>. QED  BY <2>3, <2>8, <3>1, <4>2 DEF OnFile
    <3>2. Late(call[c])' => f \notin gone /\ n \in late'
      BY <1>1, <2>1, <2>8 DEF Late
    <3>3. UNCHANGED InTable(t)
      BY <1>1 DEF InTable
    <3>. QED  BY <1>1, <2>1, <2>7, <2>9, <3>1, <3>2, <3>3 DEF CallStays, Discarding
  <2>12. HandsOn(c)
    BY <1>1 DEF HandsOn, Late, Creator, Discarding
  <2>13. Owned'
    <3>1. FreeFd \in HeldBy(call'[c])
      BY <2>1, <2>7
    <3>. QED  BY <1>1, <1>4, <3>1, OpenedOwned
  <2>. QED  BY <2>10, <2>11, <2>12, <2>13 DEF StaysStep
<1>5. \/ (Fail(c) \/ Goto(c, "reopen")) /\ UNCHANGED <<disk, fds>>
      \/ /\ ~Exists(Path(c)) /\ FreshInodes # {} /\ FreeFds # {}
         /\ \E n :
              /\ n = CHOOSE m \in FreshInodes : TRUE
              /\ disk' = [g \in DOMAIN disk \cup {Real(Path(c))} |-> IF g = Real(Path(c)) THEN n ELSE disk[g]]
              /\ fds' = [fds EXCEPT ![FreeFd] = [t |-> call[c].t, inode |-> n, writable |-> TRUE]]
              /\ call' = [call EXCEPT ![c].pc = "install", ![c].fd = FreeFd, ![c].created = <<Path(c)>> \o @]
              /\ late' = IF closed[call[c].t] THEN late \cup {n} ELSE late
  BY DEF CreateExclusive
<1>. QED  BY <1>3, <1>4, <1>5

LEMMA DiscardListStays == ASSUME IInv, Owned, NEW c \in Callers, CallStays(c), DiscardList(c) PROVE StaysStep(c)
<1>0. PICK t, x, y : t = call[c].t /\ x = call[c] /\ y = call'[c]
  OBVIOUS
<1>1. /\ Busy(c) /\ CallStep(c) /\ UNCHANGED <<disk, table, late, gone, closed, group>> /\ x.pc = "discard"
      /\ Closing({x.fd})
  BY <1>0 DEF DiscardList, Busy, CallStep, diskVars, openVars, history
<1>2. x \in BusyCalls /\ DOMAIN call = Callers
  BY <1>0, <1>1, CallFacts
<1>3. Owned'
  <2>1. \A u \in Torrents : InTab(u)' = InTab(u)
    BY <1>1 DEF InTab
  <2>2. HeldBy(call[c]) = {x.fd}
    BY <1>0, <1>1 DEF HeldBy
  <2>. QED  BY <1>1, <2>1, <2>2, CallFrame, OwnedHere
<1>4. CASE x.created = <<>>
  <2>1. y.pc = "idle"
    BY <1>0, <1>4, NextPc DEF DiscardList
  <2>2. CallStays(c)' /\ HandsOn(c) /\ NewFiles
    BY <1>0, <1>1, <1>4, <2>1, NothingToDiscard, NoNewFiles DEF Discarding, HandsOn, Late, Creator
  <2>. QED  BY <1>3, <2>2 DEF StaysStep
<1>5. CASE x.created # <<>>
  <2>1. y = [x EXCEPT !.pc = "check", !.others = OtherFiles(t)]
    BY <1>0, <1>2, <1>5 DEF DiscardList
  <2>2. /\ y.pc = "check" /\ y.t = t /\ y.todo = x.todo /\ y.created = x.created /\ y.keep = x.keep
        /\ y.others = OtherFiles(t)
    BY <1>0, <1>2, <2>1 DEF BusyCalls
  <2>3. PathIn(y) = PathIn(x)
    BY <1>0, <2>2 DEF PathIn
  <2>4. Creator(x) <=> Creator(y)
    BY <1>1, <2>2, <2>3 DEF Creator, Discarding
  <2>5. UNCHANGED InTable(t)
    BY <1>1 DEF InTable
  <2>6. CallStays(c)'
    <3>1. Late(call[c])' => Late(x)
      BY <1>0, <1>1, <2>3, <2>4 DEF Late
    <3>2. InTable(t) \subseteq x.keep /\ (Late(x) => closed[t] /\ PathIn(x) \notin InTable(t) /\ PathIn(x) \notin x.keep)
      BY <1>0, <1>1 DEF CallStays, Discarding
    <3>3. \A q \in OtherFiles(t) : \E u \in Torrents \ {t} : (u \in group \/ closed[u]) /\ q \in PathsOf(u)
      BY DEF OtherFiles, IInv, Types
    <3>. QED
      BY <1>0, <1>1, <2>2, <2>3, <2>5, <3>1, <3>2, <3>3 DEF CallStays
  <2>7. HandsOn(c) /\ NewFiles
    BY <1>0, <1>1, <2>2, <2>3, <2>4, NoNewFiles DEF HandsOn, Late
  <2>. QED  BY <1>3, <2>6, <2>7 DEF StaysStep
<1>. QED  BY <1>4, <1>5

\* Nothing is below a file, nor is a file below itself.
LEMMA InsideFile ==
    ASSUME NEW p \in AllFiles, NEW q \in AllFiles \cup AllDirs, InsideDir(p, q)
    PROVE  q = p
<1>1. PICK r \in AllFiles : q = r \/ q \in DirsOf(r)
  BY DEF AllDirs
<1>2. /\ r \in Seq(STRING) /\ Len(r) \in Nat /\ Len(r) >= 2
      /\ p \in Seq(STRING) /\ Len(p) \in Nat /\ Len(p) >= 2
  BY PathsAssumption DEF AllFiles, PathsOf
<1>3. PICK m \in 1..Len(r) : q = SubSeq(r, 1, m) /\ (m = Len(r) => q = r)
  <2>1. CASE q = r
    BY <1>2, <2>1
  <2>2. CASE q \in DirsOf(r)
    <3>1. PICK k \in DOMAIN Above(r) : q = Above(r)[k]
      BY <2>2 DEF DirsOf
    <3>2. k \in 1..Len(r) - 2 /\ q = SubSeq(r, 1, Len(r) - k)
      BY <3>1 DEF Above
    <3>3. Len(r) - k \in 1..Len(r) /\ Len(r) - k # Len(r)
      BY <1>2, <3>2
    <3>. QED  BY <3>2, <3>3
  <2>. QED  BY <1>1, <2>1, <2>2
<1>4. q \in Seq(STRING) /\ Len(q) = m
  BY <1>2, <1>3
<1>5. Len(p) <= m /\ p = SubSeq(q, 1, Len(p))
  BY <1>4 DEF InsideDir
<1>6. p = SubSeq(r, 1, Len(p))
  <2>1. Len(p) \in 1..m /\ m \in Nat /\ m <= Len(r)
    BY <1>2, <1>3, <1>5
  <2>2. \A k \in 1..Len(p) : p[k] = r[k]
    BY <1>2, <1>3, <1>4, <1>5, <2>1
  <2>3. Len(SubSeq(r, 1, Len(p))) = Len(p) /\ SubSeq(r, 1, Len(p)) \in Seq(STRING)
        /\ \A k \in 1..Len(p) : SubSeq(r, 1, Len(p))[k] = r[k]
    BY <1>2, <2>1
  <2>. QED  BY <1>2, <2>2, <2>3
<1>7. Len(p) = Len(r)
  <2>. SUFFICES ASSUME Len(p) # Len(r) PROVE FALSE
    OBVIOUS
  <2>. DEFINE k == Len(r) - Len(p)
  <2>1. k \in 1..Len(r) - 2 /\ Len(r) - k = Len(p)
    BY <1>2, <1>3, <1>5
  <2>2. k \in DOMAIN Above(r) /\ Above(r)[k] = p
    BY <1>6, <2>1 DEF Above
  <2>3. p \in AllDirs
    BY <2>2 DEF AllDirs, DirsOf
  <2>. QED  BY <2>3, FilesAreNotDirs
<1>8. q = r
  <2>1. PICK l : l = Len(r)
    OBVIOUS
  <2>2. l \in Nat /\ m \in 1..l /\ l <= m
    BY <1>2, <1>5, <1>7, <2>1
  <2>3. m = l
    BY <2>2
  <2>. QED  BY <1>3, <2>1, <2>3
<1>9. p = r
  <2>1. p = SubSeq(r, 1, Len(r))
    BY <1>6, <1>7
  <2>. QED  BY <1>2, <2>1
<1>. QED  BY <1>8, <1>9

LEMMA InsideSelf == ASSUME NEW p \in AllFiles \cup AllDirs PROVE InsideDir(p, p)
<1>1. PICK r \in AllFiles : p = r \/ p \in DirsOf(r)
  BY DEF AllDirs
<1>2. r \in Seq(STRING) /\ Len(r) \in Nat
  BY PathsAssumption DEF AllFiles, PathsOf
<1>3. p \in Seq(STRING)
  BY <1>1, <1>2 DEF DirsOf, Above
<1>. QED  BY <1>3 DEF InsideDir

\* On to the next created path, a directory: what was kept is kept.
LEMMA NextPathStays ==
    ASSUME IInv, NEW c \in Callers, CallStays(c), call[c].pc \in {"check", "remove"},
           NEW kept \in SUBSET (AllFiles \cup AllDirs), NextPath(c, kept), UNCHANGED <<group, closed, closer, table>>
    PROVE  CallStays(c)'
<1>0. PICK t, x, y : t = call[c].t /\ x = call[c] /\ y = call'[c]
  OBVIOUS
<1>1. Busy(c)
  BY DEF Busy
<1>2. x \in BusyCalls /\ DOMAIN call = Callers /\ t \in Torrents
  BY <1>0, <1>1, CallFacts
<1>3. ~Creator(y) /\ y.pc \in {"idle", "check"}
  BY <1>0, <1>2, NextPathCall
<1>4. CASE y.pc = "idle"
  BY <1>0, <1>4, NothingToDiscard DEF Discarding
<1>5. CASE y.pc = "check"
  <2>1. y = [x EXCEPT !.pc = "check", !.created = Tail(x.created), !.keep = x.keep \cup kept]
    <3>1. ~Fail(c)
      BY <1>0, <1>5, NextPc
    <3>. QED  BY <1>0, <1>2, <3>1 DEF NextPath
  <2>2. y.t = t /\ y.keep = x.keep \cup kept /\ y.others = x.others
    BY <1>0, <1>2, <2>1 DEF BusyCalls
  <2>3. InTable(t) \subseteq x.keep /\ UNCHANGED InTable(t)
    BY <1>0 DEF CallStays, Discarding, InTable
  <2>4. ~Late(call[c])'
    BY <1>0, <1>3 DEF Late
  <2>5. \A q \in x.others : \E u \in Torrents \ {t} : (u \in group \/ closed[u]) /\ q \in PathsOf(u)
    BY <1>0 DEF CallStays
  <2>. QED  BY <1>0, <1>5, <2>2, <2>3, <2>4, <2>5 DEF CallStays
<1>. QED  BY <1>3, <1>4, <1>5

LEMMA DiscardCheckStays == ASSUME IInv, Owned, NEW c \in Callers, CallStays(c), DiscardCheck(c) PROVE StaysStep(c)
<1>0. PICK t, x, y, p : t = call[c].t /\ x = call[c] /\ y = call'[c] /\ p = Head(call[c].created)
  OBVIOUS
<1>1. /\ Busy(c) /\ CallStep(c) /\ UNCHANGED <<disk, fds, table, late, gone, closed, group, closer, content>>
      /\ x.pc = "check"
  BY <1>0 DEF DiscardCheck, Busy, CallStep, diskVars, openVars, history, recordVars
<1>2. x \in BusyCalls /\ DOMAIN call = Callers /\ GoodCall(x) /\ Path(c) = PathIn(x) /\ t \in Torrents
  BY <1>0, <1>1, CallFacts
<1>3. p \in AllFiles \cup AllDirs /\ x.created # <<>> /\ PathIn(x) \in AllFiles
  BY <1>0, <1>1, <1>2, OnlyFirstIsFile DEF GoodCall
<1>4. Owned' /\ NewFiles
  <2>1. \A u \in Torrents : InTab(u)' = InTab(u)
    BY <1>1 DEF InTab
  <2>2. HeldBy(call[c]) = {}
    BY <1>0, <1>1 DEF HeldBy
  <2>. QED  BY <1>1, <2>1, <2>2, CallFrame, OwnedHere, NoNewFiles
<1>5. CASE Keeps(c, p) /\ NextPath(c, {p})
  <2>1. CallStays(c)'
    <3>1. {p} \in SUBSET (AllFiles \cup AllDirs) /\ call[c].pc \in {"check", "remove"}
      BY <1>0, <1>1, <1>3
    <3>. QED  BY <1>1, <1>5, <3>1, NextPathStays
  <2>2. HandsOn(c)
    <3>. DEFINE f == Real(PathIn(x))
    <3>. SUFFICES ASSUME Late(x), content[disk[f]] = {} PROVE Declared(t, f)
      BY <1>0 DEF HandsOn
    <3>1. p = PathIn(x) /\ f \in DOMAIN disk /\ PathIn(x) \notin x.keep
      BY <1>0, <1>1 DEF Late, Creator, CallStays, Discarding
    <3>2. x.keep \subseteq AllFiles \cup AllDirs /\ x.others \subseteq AllFiles
      BY <1>2 DEF BusyCalls
    <3>3. ~HoldsAny(p, x.keep)
      BY <1>3, <3>1, <3>2, InsideFile DEF HoldsAny
    <3>4. ~Written(p)
      BY <3>1 DEF Written, InodeOf
    <3>5. HoldsAny(p, x.others) \/ AnySameData(p, x.others)
      BY <1>0, <1>5, <3>3, <3>4 DEF Keeps
    <3>6. PICK q \in x.others : Real(q) = Real(p)
      <4>1. CASE HoldsAny(p, x.others)
        BY <1>3, <3>1, <3>2, <4>1, InsideFile DEF HoldsAny
      <4>2. CASE AnySameData(p, x.others)
        BY <4>2 DEF AnySameData
      <4>. QED  BY <3>5, <4>1, <4>2
    <3>7. \E u \in Torrents \ {t} : (u \in group \/ closed[u]) /\ q \in PathsOf(u)
      BY <1>0, <1>1, <3>6 DEF CallStays
    <3>. QED  BY <3>1, <3>6, <3>7 DEF Declared
  <2>. QED  BY <1>4, <2>1, <2>2 DEF StaysStep
<1>6. CASE ~Keeps(c, p) /\ Goto(c, "remove")
  <2>1. y = [x EXCEPT !.pc = "remove"]
    BY <1>0, <1>2, <1>6 DEF Goto
  <2>2. /\ y.pc = "remove" /\ y.t = t /\ y.todo = x.todo /\ y.created = x.created /\ y.keep = x.keep
        /\ y.others = x.others
    BY <1>0, <1>2, <2>1 DEF BusyCalls
  <2>3. PathIn(y) = PathIn(x)
    BY <1>0, <2>2 DEF PathIn
  <2>4. Creator(x) <=> Creator(y)
    BY <1>1, <2>2, <2>3 DEF Creator, Discarding
  <2>5. UNCHANGED InTable(t)
    BY <1>1 DEF InTable
  <2>6. CallStays(c)'
    <3>1. Late(call[c])' => Late(x)
      BY <1>0, <1>1, <2>3, <2>4 DEF Late
    <3>2. InTable(t) \subseteq x.keep /\ (Late(x) => closed[t] /\ PathIn(x) \notin InTable(t) /\ PathIn(x) \notin x.keep)
      BY <1>0, <1>1 DEF CallStays, Discarding
    <3>3. \A q \in x.others : \E u \in Torrents \ {t} : (u \in group \/ closed[u]) /\ q \in PathsOf(u)
      BY <1>0, <1>1 DEF CallStays
    <3>4. p \notin x.keep
      BY <1>0, <1>3, <1>6, InsideSelf DEF Keeps, HoldsAny
    <3>. QED
      BY <1>0, <1>1, <2>2, <2>3, <2>5, <3>1, <3>2, <3>3, <3>4 DEF CallStays
  <2>7. HandsOn(c)
    BY <1>0, <1>1, <2>2, <2>3, <2>4 DEF HandsOn, Late
  <2>. QED  BY <1>4, <2>6, <2>7 DEF StaysStep
<1>. QED  BY <1>0, <1>5, <1>6 DEF DiscardCheck

LEMMA DiscardRemoveStays == ASSUME IInv, Owned, NEW c \in Callers, CallStays(c), DiscardRemove(c) PROVE StaysStep(c)
<1>0. PICK x, p : x = call[c] /\ p = Head(call[c].created)
  OBVIOUS
<1>1. /\ Busy(c) /\ CallStep(c) /\ UNCHANGED <<fds, table, closed, group, closer>> /\ x.pc = "remove" /\ NextPath(c, {})
      /\ disk' = [f \in DOMAIN disk \ {Real(p)} |-> disk[f]]
  BY <1>0 DEF DiscardRemove, Busy, CallStep, openVars, recordVars
<1>2. DOMAIN disk' = DOMAIN disk \ {Real(p)}
  BY <1>1
<1>3. Owned' /\ NewFiles
  <2>1. \A u \in Torrents : InTab(u)' = InTab(u)
    BY <1>1 DEF InTab
  <2>2. HeldBy(call[c]) = {}
    BY <1>0, <1>1 DEF HeldBy
  <2>. QED  BY <1>1, <1>2, <2>1, <2>2, CallFrame, OwnedHere, NoNewFiles
<1>4. CallStays(c)'
  <2>1. {} \in SUBSET (AllFiles \cup AllDirs) /\ call[c].pc \in {"check", "remove"}
    BY <1>0, <1>1
  <2>. QED  BY <1>1, <2>1, NextPathStays
<1>5. HandsOn(c)
  BY <1>0, <1>2 DEF HandsOn, Late, Creator
<1>. QED  BY <1>3, <1>4, <1>5 DEF StaysStep

LEMMA CallStaysStep ==
    ASSUME IInv, Owned, AllOn, NEW c \in Callers, CallStays(c), CallStep(c)
    PROVE  StaysStep(c)
BY PlainCalls, WithOpenFileStays, OpenExistingStays, CreateExclusiveStays, ReopenStays, InstallStays, CloseOutStays,
   LastResortStays, InstallLockedStays, DiscardListStays, DiscardCheckStays, DiscardRemoveStays DEF CallStep

----------------------------------------------------------------------------
(* The steps of the torrents' Close, and the theorem. *)

LEMMA CloserOwned == ASSUME IInv, Owned, NEW k \in DOMAIN closer, CloserStep(k) PROVE Owned'
<1>0. PICK x : x = closer[k]
  OBVIOUS
<1>1. x \in Closers /\ DOMAIN closer = Torrents \cup Stores
  BY <1>0 DEF IInv, Types
<1>2. CASE CloseTake(k)
  <2>1. PICK t, T : t = x.t /\ T = {table[x.t][n].fd : n \in DOMAIN table[x.t]}
    OBVIOUS
  <2>2. /\ x.pc = "wait" /\ table' = [table EXCEPT ![t] = <<>>]
        /\ closer' = [closer EXCEPT ![k] = [x EXCEPT !.pc = "close", !.out = T]] /\ UNCHANGED <<fds, call>>
    BY <1>0, <1>1, <1>2, <2>1 DEF CloseTake
  <2>3. closer'[k] = [x EXCEPT !.pc = "close", !.out = T] /\ \A j \in DOMAIN closer : j # k => closer'[j] = closer[j]
    BY <1>1, <2>2
  <2>4. closer'[k].pc = "close" /\ closer'[k].out = T
    BY <1>1, <2>2, <2>3 DEF Closers
  <2>5. TakenBy(closer'[k]) = T /\ TakenBy(x) = {} /\ k \in DOMAIN closer'
    BY <2>2, <2>4 DEF TakenBy
  <2>6. T = InTab(t)
    BY <2>1 DEF InTab, Entries
  <2>7. \A u \in Torrents : u # t => InTab(u)' = InTab(u)
    BY <2>2 DEF InTab, IInv, Types
  <2>8. ASSUME NEW n \in Fds, fds[n] # NoFd
        PROVE  \/ \E u \in Torrents : n \in InTab(u)'
               \/ \E c \in Callers : n \in HeldBy(call[c])
               \/ \E j \in DOMAIN closer' : n \in TakenBy(closer'[j])
    <3>1. CASE \E u \in Torrents : n \in InTab(u)
      BY <2>5, <2>6, <2>7, <3>1
    <3>2. CASE \E j \in DOMAIN closer : n \in TakenBy(closer[j])
      BY <1>0, <2>2, <2>3, <2>5, <3>2
    <3>. QED  BY <2>8, <3>1, <3>2 DEF Owned
  <2>. QED  BY <2>2, <2>8 DEF Owned
<1>3. CASE CloseHandles(k)
  <2>1. x.pc = "close" /\ Closing(x.out) /\ (\E z : closer' = [closer EXCEPT ![k] = z]) /\ UNCHANGED <<table, call>>
    BY <1>0, <1>3 DEF CloseHandles
  <2>2. TakenBy(x) = x.out /\ DOMAIN closer' = DOMAIN closer /\ \A j \in DOMAIN closer : j # k => closer'[j] = closer[j]
    BY <2>1 DEF TakenBy
  <2>3. \A u \in Torrents : InTab(u)' = InTab(u)
    BY <2>1 DEF InTab
  <2>4. ASSUME NEW n \in Fds, fds'[n] # NoFd
        PROVE  \/ \E u \in Torrents : n \in InTab(u)'
               \/ \E c \in Callers : n \in HeldBy(call[c])
               \/ \E j \in DOMAIN closer' : n \in TakenBy(closer'[j])
    <3>1. fds[n] # NoFd /\ n \notin TakenBy(x)
      BY <2>1, <2>2, <2>4, FdsClosed
    <3>. QED  BY <1>0, <2>2, <2>3, <3>1 DEF Owned
  <2>. QED  BY <2>1, <2>4 DEF Owned
<1>. QED  BY <1>2, <1>3 DEF CloserStep

LEMMA BeginOwned ==
    ASSUME IInv, Owned, NEW k \in DOMAIN closer, closer[k].pc \in {"none", "next"}, NEW t, NEW rest, CloseBegin(k, t, rest)
    PROVE  Owned'
<1>1. /\ closer' = [closer EXCEPT ![k] = [pc |-> "wait", t |-> t, rest |-> rest, out |-> {}]]
      /\ UNCHANGED <<table, fds, call>>
  BY DEF CloseBegin
<1>2. DOMAIN closer' = DOMAIN closer /\ \A j \in DOMAIN closer : j # k => closer'[j] = closer[j]
  BY <1>1
<1>3. TakenBy(closer[k]) = {}
  BY DEF TakenBy
<1>4. \A u \in Torrents : InTab(u)' = InTab(u)
  BY <1>1 DEF InTab
<1>. QED  BY <1>1, <1>2, <1>3, <1>4 DEF Owned

\* The steps that are no call's.
LEMMA OthersStay ==
    ASSUME IInv, Steps, StaysInv, Owned', \A c \in Callers : call'[c] = call[c], DOMAIN disk' \subseteq DOMAIN disk
    PROVE  (\A c \in Callers : CallStays(c))' /\ LateFiles'
<1>1. \A c \in Callers : CallStays(c)'
  BY StaysKept DEF StaysInv
<1>2. LateFiles'
  BY NoNewFiles, LateFilesKept DEF StaysInv
<1>. QED  BY <1>1, <1>2

LEMMA CallsStay ==
    ASSUME IInv, Steps, StaysInv, NEW c \in Callers, StaysStep(c), \A d \in Callers \ {c} : call'[d] = call[d]
    PROVE  (\A d \in Callers : CallStays(d))' /\ LateFiles' /\ Owned'
<1>1. \A d \in Callers : CallStays(d)'
  <2>1. \A d \in Callers \ {c} : CallStays(d)'
    BY StaysKept DEF StaysInv
  <2>. QED  BY <2>1 DEF StaysStep
<1>2. LateFiles'
  BY LateFilesKept DEF StaysInv, StaysStep
<1>. QED  BY <1>1, <1>2 DEF StaysStep

LEMMA BeginStays ==
    ASSUME IInv, Owned, NEW c \in Callers, NEW t \in Torrents, NEW kind, NEW p, Begin(c, t, p, kind)
    PROVE  StaysStep(c) /\ \A d \in Callers \ {c} : call'[d] = call[d]
<1>1. UNCHANGED <<table, fds, closer, disk>> /\ ~Busy(c)
  BY DEF Begin, diskVars
<1>2. (\A d \in Callers \ {c} : call'[d] = call[d]) /\ call'[c].pc = "fast"
  <2>. DEFINE y == [pc |-> "fast", t |-> t, kind |-> kind, piece |-> p, todo |-> Extent[t][p],
                    entered |-> FALSE, excl |-> FALSE, fd |-> 0, created |-> <<>>,
                    keep |-> {}, others |-> {}, out |-> {}]
  <2>1. call' = [call EXCEPT ![c] = y] /\ y.pc = "fast" /\ DOMAIN call = Callers
    BY DEF Begin, IInv, Types
  <2>. HIDE DEF y
  <2>. QED  BY <2>1
<1>3. \A u \in Torrents : InTab(u)' = InTab(u)
  BY <1>1 DEF InTab
<1>. QED  BY <1>1, <1>2, <1>3, PlainStep DEF Busy, Discarding

LEMMA NextStays == ASSUME IInv, IInv', StaysInv, [Next]_vars PROVE StaysInv'
<1>1. Steps
  BY NextSteps
<1>2. Leaves' /\ AllOn'
  BY <1>1, LeavesKept, AllOnKept DEF StaysInv
<1>3. ASSUME NEW c \in Callers, CallStep(c) PROVE (\A d \in Callers : CallStays(d))' /\ LateFiles' /\ Owned'
  BY <1>1, <1>3, CallStaysStep, CallFrame, CallsStay DEF StaysInv
<1>4. ASSUME NEW c \in Callers, NEW t \in Torrents, NEW kind, NEW p, Begin(c, t, p, kind)
      PROVE  (\A d \in Callers : CallStays(d))' /\ LateFiles' /\ Owned'
  BY <1>1, <1>4, BeginStays, CallsStay DEF StaysInv
<1>5. CASE \/ \E t \in Torrents : OpenTorrent(t) \/ \E p \in Pieces(t) : Completion(t, p)
           \/ \E f \in DOMAIN disk : UserDeletes(f)
           \/ Over \/ UNCHANGED vars
  <2>1. UNCHANGED <<table, fds, call, closer>> /\ DOMAIN disk' \subseteq DOMAIN disk
    BY <1>5 DEF OpenTorrent, Completion, UserDeletes, Over, vars, diskVars, recordVars
  <2>2. Owned'
    BY <2>1 DEF StaysInv, Owned, InTab
  <2>. QED  BY <1>1, <1>2, <2>1, <2>2, OthersStay DEF StaysInv
<1>6. CASE (\E t \in Dropped : Drop(t)) \/ \E s \in Stores : StoreClose(s) \/ CloseNext(s)
  <2>1. PICK k \in DOMAIN closer, t \in Torrents, rest \in SUBSET Torrents :
          closer[k].pc \in {"none", "next"} /\ CloseBegin(k, t, rest)
    BY <1>6, Closes
  <2>2. UNCHANGED <<call, disk>>
    BY <2>1 DEF CloseBegin, diskVars
  <2>3. Owned'
    BY <2>1, BeginOwned DEF StaysInv
  <2>. QED  BY <1>1, <1>2, <2>2, <2>3, OthersStay DEF StaysInv
<1>7. ASSUME NEW k \in Torrents \cup Stores, CloserStep(k) PROVE StaysInv'
  <2>1. k \in DOMAIN closer
    BY DEF IInv, Types
  <2>2. UNCHANGED <<call, disk>>
    BY <1>7 DEF CloserStep, CloseTake, CloseHandles, diskVars
  <2>3. Owned'
    BY <1>7, <2>1, CloserOwned DEF StaysInv
  <2>. QED  BY <1>1, <1>2, <2>2, <2>3, OthersStay DEF StaysInv
<1>. QED  BY <1>2, <1>3, <1>4, <1>5, <1>6, <1>7 DEF Next, StaysInv

LEMMA InitStays == Init => StaysInv
<1>. SUFFICES ASSUME Init PROVE StaysInv
  OBVIOUS
<1>1. Owned
  BY DEF Init, Owned, Fds
<1>2. Leaves
  BY TorrentsAssumption DEF Init, Leaves
<1>3. AllOn
  BY DEF Init, AllOn, TableOn, Entries
<1>4. \A c \in Callers : CallStays(c)
  <2>1. \A c \in Callers : call[c].pc = "idle"
    BY DEF Init, Idle
  <2>. QED  BY <2>1 DEF CallStays, Late, Creator, Discarding
<1>5. LateFiles
  BY DEF Init, LateFiles
<1>. QED  BY <1>1, <1>2, <1>3, <1>4, <1>5 DEF StaysInv

\* A Close that is over has nobody left in it.
LEMMA OverIsEmpty ==
    ASSUME IInv, StaysInv, NEW t \in Torrents, CloseOver(t)
    PROVE  /\ t \notin group /\ InTab(t) = {}
           /\ \A c \in Callers : call[c].pc \in EnteredPcs => call[c].t # t
           /\ \A k \in DOMAIN closer : closer[k].pc = "close" => closer[k].t # t
<1>1. t \notin group
  BY DEF StaysInv, Leaves, CloseOver
<1>2. InTab(t) = {}
  BY <1>1 DEF InTab, IInv, LiveInv
<1>3. ASSUME NEW c \in Callers, call[c].pc \in EnteredPcs PROVE call[c].t # t
  <2>1. Busy(c)
    BY <1>3 DEF Busy, EnteredPcs
  <2>. QED  BY <1>1, <1>3, <2>1, CallFacts DEF GoodCall, LiveCall
<1>. QED  BY <1>1, <1>2, <1>3 DEF CloseOver

LEMMA StaysNothing == IInv /\ StaysInv => NothingStays
<1>. SUFFICES ASSUME IInv, StaysInv, NEW t \in Torrents, CloseOver(t)
              PROVE  /\ \A n \in DOMAIN fds : fds[n].t # t
                     /\ \A f \in DOMAIN disk :
                          /\ disk[f] \in late /\ content[disk[f]] = {}
                          /\ f \in {Real(p) : p \in PathsOf(t)} \ gone
                          => \E u \in Torrents \ {t} :
                               (u \in group \/ closed[u]) /\ f \in {Real(p) : p \in PathsOf(u)}
  BY DEF NothingStays, NothingHeld, NothingLeft
<1>1. ASSUME NEW n \in DOMAIN fds, fds[n].t = t PROVE FALSE
  <2>1. n \in Fds /\ fds[n] # NoFd
    BY <1>1, TorrentsAssumption DEF IInv, Types, NoFd
  <2>2. ASSUME NEW u \in Torrents, n \in InTab(u) PROVE FALSE
    <3>1. n \in OpenFor(u)
      BY <2>2 DEF IInv, FdInv
    <3>. QED  BY <1>1, <2>2, <3>1, OverIsEmpty DEF OpenFor
  <2>3. ASSUME NEW c \in Callers, n \in HeldBy(call[c]) PROVE FALSE
    <3>1. n \in OpenFor(call[c].t)
      BY <2>3 DEF IInv, FdInv
    <3>2. call[c].pc \in EnteredPcs
      BY <2>3 DEF HeldBy, EnteredPcs
    <3>. QED  BY <1>1, <3>1, <3>2, OverIsEmpty DEF OpenFor
  <2>4. ASSUME NEW k \in DOMAIN closer, n \in TakenBy(closer[k]) PROVE FALSE
    <3>1. n \in OpenFor(closer[k].t)
      BY <2>4 DEF IInv, FdInv
    <3>2. closer[k].pc = "close"
      BY <2>4 DEF TakenBy
    <3>. QED  BY <1>1, <3>1, <3>2, OverIsEmpty DEF OpenFor
  <2>. QED  BY <2>1, <2>2, <2>3, <2>4 DEF StaysInv, Owned
<1>2. ASSUME NEW f \in DOMAIN disk, disk[f] \in late, content[disk[f]] = {},
             f \in {Real(p) : p \in PathsOf(t)} \ gone
      PROVE  \E u \in Torrents \ {t} : (u \in group \/ closed[u]) /\ f \in {Real(p) : p \in PathsOf(u)}
  <2>1. PICK w \in Torrents :
          /\ closed[w] /\ \E p \in PathsOf(w) : f = Real(p)
          /\ \/ \E c \in Callers : Creator(call[c]) /\ call[c].t = w /\ Real(PathIn(call[c])) = f
             \/ Declared(w, f)
    BY <1>2 DEF StaysInv, LateFiles
  <2>2. CASE w # t
    BY <2>1, <2>2
  <2>3. CASE w = t
    <3>1. Declared(t, f)
      BY <2>1, <2>3, OverIsEmpty DEF Creator, Discarding, EnteredPcs
    <3>. QED  BY <3>1 DEF Declared
  <2>. QED  BY <2>2, <2>3
<1>. QED  BY <1>1, <1>2

\* When every Close of a torrent has returned, it holds no handle, and a file
\* that was created after the Close had begun and is still empty is another's
\* too: the drain of fileTorrent.Close and the discard of a late open
\* (filestore.go) leave nothing behind, however the calls, the opens and the
\* evictions of every torrent interleave.
THEOREM StoreLeavesNothing == ASSUME ~LateOpens PROVE Spec => []NothingStays
<1>1. Init => StaysInv
  BY InitStays
<1>2. IInv /\ IInv' /\ StaysInv /\ [Next]_vars => StaysInv'
  BY NextStays
<1>3. IInv /\ StaysInv => NothingStays
  BY StaysNothing
<1>. QED  BY <1>1, <1>2, <1>3, StoreInvariant, PTL DEF Spec
=============================================================================

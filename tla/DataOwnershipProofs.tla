------------------------- MODULE DataOwnershipProofs -------------------------
(***************************************************************************)
(* Whose data is on disk: what module DataOwnership promises, proved for   *)
(* any torrents, names, paths, callers and numbers of entries.             *)
(*                                                                         *)
(* All of it rests on one thing. What a call reads of the directories      *)
(* before it takes the lock may be incomplete, and old, but what it shows  *)
(* apart is apart (GoodEntry, GoodCall, Links): so whatever a decision     *)
(* under the lock passes over lies in another directory.                   *)
(***************************************************************************)
EXTENDS DataOwnership, SequenceTheorems, TLAPS

Data == Dirs \X Names
Adds == [op : {"add"}, torrent : Torrents, path : Paths, info : BOOLEAN,
         left : [gone : SUBSET Data, same : SUBSET Paths], restores : BOOLEAN]
Fails == [op : {"fail"}, torrent : Torrents, path : Paths, info : BOOLEAN]
Tracks == [op : {"track"}, torrent : Torrents, path : Paths, info : BOOLEAN,
           found : BOOLEAN, apart : SUBSET Paths]
Attaches == [op : {"attach"}, id : Ids, restores : BOOLEAN]
Removes == [op : {"remove"}, id : Ids, apart : SUBSET Paths]
Calls == {Idle} \cup Adds \cup Fails \cup Tracks \cup Attaches \cup Removes
Deletions == [id : Ids, path : Paths, name : Names, over : BOOLEAN]

\* Paths that lead elsewhere than a given one does.
Elsewhere(paths, path) == \A p \in paths : DirOf[p] # DirOf[path]

\* An entry keeps names of data only once it is refused, what refuse shows
\* apart is apart, and one that may run is in the client and has its info.
GoodEntry(e) ==
    /\ e \in Entries
    /\ e.left \/ e.shared => e.phase = "refused"
    /\ e.phase = "refusing" => Elsewhere(e.apart, e.path)
    /\ e.phase \in {"checking", "gated", "running"} => e.joined /\ e.info
    /\ e.phase = "waiting" => e.joined

\* What a call shows to be one directory is, and what it shows apart is apart.
GoodCall(x) ==
    /\ x \in Calls
    /\ x.op = "add" => \A p \in x.left.same : DirOf[p] = DirOf[x.path]
    /\ x.op = "track" => Elsewhere(x.apart, x.path)

Good ==
    /\ records \in Sessions
    /\ entry \in [Ids -> Entries]
    /\ \A i \in Ids : GoodEntry(entry[i])
    /\ DOMAIN call = Callers
    /\ \A c \in Callers : GoodCall(call[c])
    /\ deleting \subseteq Deletions
    /\ disk \subseteq Data

\* The call that restores a record, there being one to restore.
Restoring(x) == \/ x.op \in {"add", "attach"} /\ x.restores
                \/ x.op \in {"fail", "track"}

\* A call refers to the entry it began with or to none: no identifier is
\* handed out again while a call or a delete holds it.
AttachLinks ==
    \A c \in Callers : call[c].op = "attach" =>
        /\ entry[call[c].id].phase \in {"none", "joining"}
        /\ \A b \in Callers : call[b].op = "attach" /\ call[b].id = call[c].id => b = c
HasRecord ==
    \A c \in Callers : Restoring(call[c]) =>
        /\ records # <<>>
        /\ \A b \in Callers : Restoring(call[b]) => b = c
RemoveLinks ==
    \A c \in Callers : call[c].op = "remove" /\ call[c].id \in Tracked =>
        Elsewhere(call[c].apart, entry[call[c].id].path)
DeleteLinks == \A d \in deleting : entry[d.id].phase = "none"

\* No delete under way is of what a running torrent has.
Clear == \A d \in deleting, i \in Ids : entry[i].phase = "running" => DataOf(i) # Where(d.path, d.name)

IInv == Good /\ HasRecord /\ AttachLinks /\ RemoveLinks /\ DeleteLinks /\ Clear /\ OneOwner

USE DEF vars

----------------------------------------------------------------------------
(* Values. *)

LEMMA EntryFields ==
    ASSUME NEW e, GoodEntry(e)
    PROVE  /\ e.phase \in Phases /\ e.torrent \in Torrents /\ e.path \in Paths
           /\ e.info \in BOOLEAN /\ e.joined \in BOOLEAN /\ e.left \in BOOLEAN
           /\ e.shared \in BOOLEAN /\ e.found \in BOOLEAN /\ e.apart \in SUBSET Paths
BY DEF GoodEntry, Entries

LEMMA NewIsGood ==
    ASSUME NEW t \in Torrents, NEW p \in Paths, NEW info \in BOOLEAN,
           NEW phase \in {"none", "queued", "joining", "starting", "refused"}
    PROVE  /\ GoodEntry(NewEntry(t, p, info, phase))
           /\ NewEntry(t, p, info, phase).phase = phase
           /\ NewEntry(t, p, info, phase).torrent = t
           /\ NewEntry(t, p, info, phase).path = p
           /\ NewEntry(t, p, info, phase).left = FALSE
           /\ NewEntry(t, p, info, phase).shared = FALSE
<1>. DEFINE e == NewEntry(t, p, info, phase)
<1>1. /\ e.phase = phase /\ e.torrent = t /\ e.path = p /\ e.left = FALSE /\ e.shared = FALSE
      /\ e \in Entries
  BY DEF NewEntry, Entries, Phases
<1>2. phase \notin {"refusing", "checking", "gated", "running", "waiting"}
  OBVIOUS
<1>. HIDE DEF e
<1>3. GoodEntry(e)
  BY <1>1, <1>2 DEF GoodEntry
<1>. QED  BY <1>1, <1>3 DEF e

LEMMA RefusedIsGood ==
    ASSUME NEW t \in Torrents, NEW p \in Paths, NEW info \in BOOLEAN
    PROVE  GoodEntry(NewEntry(t, p, info, "refused"))
<1>1. \A phase \in {"refused"} : GoodEntry(NewEntry(t, p, info, phase))
  BY NewIsGood
<1>. QED  BY <1>1

LEMMA UnusedIsGood == GoodEntry(Unused) /\ Unused.phase = "none" /\ Unused.left = FALSE /\ Unused.shared = FALSE
<1>. DEFINE t == CHOOSE t \in Torrents : TRUE
            p == CHOOSE p \in Paths : TRUE
<1>1. t \in Torrents /\ p \in Paths
  BY SomeAssumption
<1>2. Unused = [phase |-> "none", torrent |-> t, path |-> p, info |-> FALSE, joined |-> FALSE,
                left |-> FALSE, shared |-> FALSE, found |-> FALSE, apart |-> {}]
  BY DEF Unused, NewEntry
<1>. HIDE DEF t, p
<1>3. /\ Unused.phase = "none" /\ Unused.left = FALSE /\ Unused.shared = FALSE
      /\ Unused \in Entries
  BY <1>1, <1>2 DEF Entries, Phases
<1>. QED  BY <1>3 DEF GoodEntry

LEMMA DataTyped ==
    ASSUME Good, NEW i \in Ids
    PROVE  NameAt(i) \in Names /\ DataOf(i) \in Data
           /\ DataOf(i) = <<DirOf[entry[i].path], NameAt(i)>>
<1>1. entry[i].torrent \in Torrents /\ entry[i].path \in Paths
  BY EntryFields DEF Good
<1>2. NameOf[entry[i].torrent] \in Names /\ DirOf[entry[i].path] \in Dirs
  BY <1>1, NameOfAssumption, DirOfAssumption
<1>. QED  BY <1>2 DEF NameAt, DataOf, Where, Data

\* What destMatches shows apart is apart.
LEMMA MatchesElsewhere ==
    ASSUME Good, NEW path, NEW apart \in DestMatches(path)
    PROVE  apart \in SUBSET Paths /\ Elsewhere(apart, path)
<1>1. \A i \in Tracked : entry[i].path \in Paths
  BY EntryFields DEF Good, Tracked
<1>. QED  BY <1>1 DEF DestMatches, Apart, Elsewhere

\* So an entry in the same directory is never passed over.
LEMMA SameDirIsBeside ==
    ASSUME NEW i, NEW j \in Tracked \ {i}, NEW apart, NEW path, Elsewhere(apart, path),
           DirOf[entry[j].path] = DirOf[path]
    PROVE  j \in Beside(i, path, apart)
BY DEF Beside, MayBeSameDir, Elsewhere

\* Two entries have their data at one place if directory and name agree.
LEMMA SamePlace ==
    ASSUME NEW i, NEW path, NEW name, DataOf(i) = Where(path, name)
    PROVE  DirOf[entry[i].path] = DirOf[path] /\ NameAt(i) = name
BY DEF DataOf, Where

LEMMA CallShape ==
    ASSUME NEW x, GoodCall(x)
    PROVE  /\ x.op = "add" => x \in Adds
           /\ x.op = "fail" => x \in Fails
           /\ x.op = "track" => x \in Tracks
           /\ x.op = "attach" => x \in Attaches
           /\ x.op = "remove" => x \in Removes
BY DEF GoodCall, Calls, Adds, Fails, Tracks, Attaches, Removes, Idle

LEMMA IdleIsGood == GoodCall(Idle) /\ Idle.op = "idle"
BY DEF GoodCall, Calls, Idle

LEMMA FailIsGood ==
    ASSUME NEW t \in Torrents, NEW p \in Paths, NEW info \in BOOLEAN
    PROVE  GoodCall(FailCall(t, p, info)) /\ FailCall(t, p, info).op = "fail"
BY DEF GoodCall, Calls, Fails, FailCall

LEMMA AddIsGood ==
    ASSUME Good, NEW t \in Torrents, NEW p \in Paths, NEW info \in BOOLEAN,
           NEW left \in LeftDataViews(t, p), NEW restores \in BOOLEAN
    PROVE  GoodCall(AddCall(t, p, info, left, restores)) /\ AddCall(t, p, info, left, restores).op = "add"
<1>1. Gone(t) \subseteq Data
  BY DataTyped DEF Gone, LeftOf, Tracked
<1>2. \A i \in LeftOf(t) : entry[i].path \in Paths
  BY EntryFields DEF Good, LeftOf, Tracked
<1>3. /\ left \in [gone : SUBSET Data, same : SUBSET Paths]
      /\ \A q \in left.same : DirOf[q] = DirOf[p]
  BY <1>1, <1>2 DEF LeftDataViews
<1>. QED  BY <1>3 DEF GoodCall, Calls, Adds, AddCall

LEMMA RefusedFields ==
    ASSUME NEW e, GoodEntry(e), NEW i, NEW found \in BOOLEAN, NEW apart
    PROVE  LET r == Refused(e, i, found, apart)
           IN  /\ GoodEntry(r) /\ r.phase = "refused"
               /\ r.torrent = e.torrent /\ r.path = e.path
               /\ r.left <=> found /\ ~Defers(i, e.torrent, e.path, apart)
               /\ r.shared <=> found /\ Defers(i, e.torrent, e.path, apart)
<1>. DEFINE r == Refused(e, i, found, apart)
            D == Defers(i, e.torrent, e.path, apart)
<1>1. e \in Entries
  BY DEF GoodEntry
<1>2. D \in BOOLEAN
  BY DEF Defers, Taken, SharedNameKept
<1>3. r = [e EXCEPT !.phase = "refused", !.found = FALSE, !.apart = {},
                    !.left = found /\ ~D, !.shared = found /\ D]
  BY DEF Refused
<1>. HIDE DEF D
<1>4. /\ r \in Entries /\ r.phase = "refused" /\ r.torrent = e.torrent /\ r.path = e.path
      /\ r.left = (found /\ ~D) /\ r.shared = (found /\ D)
  BY <1>1, <1>2, <1>3 DEF Entries, Phases
<1>5. GoodEntry(r)
  BY <1>4 DEF GoodEntry
<1>. QED  BY <1>4, <1>5 DEF D

----------------------------------------------------------------------------
(* What a step leaves behind is of the shape the model says. *)

LEMMA SessionTail ==
    ASSUME NEW s \in Sessions, s # <<>>
    PROVE  Head(s) \in Records /\ Tail(s) \in Sessions
<1>1. PICK n \in 0 .. MaxRecords : s \in [1 .. n -> Records]
  BY DEF Sessions
<1>2. n \in Nat /\ n # 0 /\ MaxRecords \in Nat
  <2>1. n \in Nat /\ MaxRecords \in Nat
    BY BoundsAssumption
  <2>2. s \in Seq(Records) /\ Len(s) = n
    BY <1>1, <2>1
  <2>. QED  BY <2>1, <2>2
<1>3. s \in Seq(Records) /\ Len(s) = n /\ Head(s) = s[1]
  BY <1>1, <1>2
<1>4. s[1] \in Records /\ Tail(s) \in Seq(Records) /\ Len(Tail(s)) = n - 1
  BY <1>1, <1>2, <1>3
<1>5. Tail(s) \in [1 .. n - 1 -> Records]
  <2>1. Tail(s) \in [1 .. Len(Tail(s)) -> Records]
    BY <1>4, LenProperties
  <2>. QED  BY <2>1, <1>4
<1>6. n - 1 \in 0 .. MaxRecords
  BY <1>1, <1>2
<1>. QED  BY <1>3, <1>4, <1>5, <1>6 DEF Sessions

LEMMA MovedIsGood ==
    ASSUME NEW e, GoodEntry(e), NEW phase \in {"starting", "gated", "running"},
           e.phase # "refused", phase \in {"gated", "running"} => e.joined /\ e.info
    PROVE  GoodEntry([e EXCEPT !.phase = phase])
<1>. DEFINE f == [e EXCEPT !.phase = phase]
<1>1. f \in Entries /\ f.phase = phase /\ f.left = e.left /\ f.shared = e.shared
      /\ f.joined = e.joined /\ f.info = e.info
  BY DEF GoodEntry, Entries, Phases
<1>2. ~(f.left \/ f.shared)
  BY <1>1 DEF GoodEntry
<1>. HIDE DEF f
<1>3. GoodEntry(f)
  BY <1>1, <1>2 DEF GoodEntry
<1>. QED  BY <1>3 DEF f

LEMMA ReadIsGood ==
    ASSUME NEW e, GoodEntry(e), e.phase # "refused", NEW found \in BOOLEAN,
           NEW apart \in SUBSET Paths, Elsewhere(apart, e.path)
    PROVE  GoodEntry([e EXCEPT !.phase = "refusing", !.found = found, !.apart = apart])
<1>. DEFINE f == [e EXCEPT !.phase = "refusing", !.found = found, !.apart = apart]
<1>1. f \in Entries /\ f.phase = "refusing" /\ f.left = e.left /\ f.shared = e.shared
      /\ f.apart = apart /\ f.path = e.path
  BY DEF GoodEntry, Entries, Phases
<1>2. ~(f.left \/ f.shared)
  BY <1>1 DEF GoodEntry
<1>. HIDE DEF f
<1>3. GoodEntry(f)
  BY <1>1, <1>2 DEF GoodEntry
<1>. QED  BY <1>3 DEF f

LEMMA JoinedIsGood ==
    ASSUME NEW e, GoodEntry(e), e.phase # "refused"
    PROVE  GoodEntry([e EXCEPT !.joined = TRUE, !.phase = IF e.info THEN "checking" ELSE "waiting"])
<1>. DEFINE f == [e EXCEPT !.joined = TRUE, !.phase = IF e.info THEN "checking" ELSE "waiting"]
<1>1. /\ f \in Entries /\ f.left = e.left /\ f.shared = e.shared
      /\ f.joined /\ f.info = e.info
      /\ f.phase = IF e.info THEN "checking" ELSE "waiting"
  BY DEF GoodEntry, Entries, Phases
<1>2. ~(f.left \/ f.shared)
  BY <1>1 DEF GoodEntry
<1>. HIDE DEF f
<1>3. GoodEntry(f)
  BY <1>1, <1>2 DEF GoodEntry
<1>. QED  BY <1>3 DEF f

LEMMA InformedIsGood ==
    ASSUME NEW e, GoodEntry(e), e.phase = "waiting"
    PROVE  GoodEntry([e EXCEPT !.phase = "checking", !.info = TRUE])
<1>. DEFINE f == [e EXCEPT !.phase = "checking", !.info = TRUE]
<1>1. /\ f \in Entries /\ f.left = e.left /\ f.shared = e.shared
      /\ f.joined = e.joined /\ f.info /\ f.phase = "checking"
  BY DEF GoodEntry, Entries, Phases
<1>2. ~(f.left \/ f.shared) /\ f.joined
  BY <1>1 DEF GoodEntry
<1>. HIDE DEF f
<1>3. GoodEntry(f)
  BY <1>1, <1>2 DEF GoodEntry
<1>. QED  BY <1>3 DEF f

\* An entry changed for a good one.
LEMMA OneGood ==
    ASSUME Good, NEW i \in Ids, NEW e, GoodEntry(e), entry' = [entry EXCEPT ![i] = e]
    PROVE  entry' \in [Ids -> Entries] /\ \A j \in Ids : GoodEntry(entry'[j])
BY DEF Good, GoodEntry

LEMMA OneGoodCall ==
    ASSUME Good, NEW c \in Callers, NEW x, GoodCall(x), call' = [call EXCEPT ![c] = x]
    PROVE  DOMAIN call' = Callers /\ \A b \in Callers : GoodCall(call'[b])
BY DEF Good

USE DEF Untrack

LEMMA RestoredGood ==
    ASSUME Good, NEW done \in BOOLEAN, done => records # <<>>, Restored(done)
    PROVE  records' \in Sessions
BY SessionTail DEF Good, Restored

LEMMA GoodStep ==
    ASSUME Good, HasRecord, AttachLinks, Next
    PROVE  Good'
<1>. USE DEF Restoring
<1>c. \A c \in Callers : GoodCall(call[c])
  BY DEF Good
<1>e. \A i \in Ids : GoodEntry(entry[i])
  BY DEF Good
<1>1. ASSUME NEW c \in Adders, AddLook(c) PROVE Good'
  <2>1. PICK torrent \in Torrents, path \in Paths : \E info \in Carries[torrent] :
            \E left \in LeftDataViews(torrent, path) :
                call' = [call EXCEPT ![c] = AddCall(torrent, path, info, left, FALSE)]
    BY <1>1 DEF AddLook
  <2>2. PICK info \in Carries[torrent], left \in LeftDataViews(torrent, path) :
                call' = [call EXCEPT ![c] = AddCall(torrent, path, info, left, FALSE)]
    BY <2>1
  <2>3. info \in BOOLEAN /\ c \in Callers
    BY CarriesAssumption DEF Callers
  <2>4. \A no \in BOOLEAN : GoodCall(AddCall(torrent, path, info, left, no))
    BY <2>3, AddIsGood
  <2>5. DOMAIN call' = Callers /\ \A b \in Callers : GoodCall(call'[b])
    <3>. DEFINE x == AddCall(torrent, path, info, left, FALSE)
    <3>1. GoodCall(x)
      BY <2>4
    <3>. HIDE DEF x
    <3>2. call' = [call EXCEPT ![c] = x]
      BY <2>2 DEF x
    <3>. QED  BY <3>1, <3>2, <2>3, OneGoodCall
  <2>. QED  BY <2>5, <1>1 DEF AddLook, Good
<1>2. ASSUME NEW c \in Adders, RestoreLook(c) PROVE Good'
  <2>. DEFINE r == Head(records)
  <2>1. c \in Callers /\ r \in Records
    BY <1>2, SessionTail DEF RestoreLook, Callers, Good
  <2>2. r.torrent \in Torrents /\ r.path \in Paths /\ r.info \in BOOLEAN
    BY <2>1 DEF Records
  <2>3. PICK x : GoodCall(x) /\ call' = [call EXCEPT ![c] = x]
    <3>. HIDE DEF r
    <3>1. CASE call' = [call EXCEPT ![c] = FailCall(r.torrent, r.path, FALSE)]
      <4>. DEFINE x == FailCall(r.torrent, r.path, FALSE)
      <4>1. \A no \in BOOLEAN : GoodCall(FailCall(r.torrent, r.path, no))
        BY <2>2, FailIsGood
      <4>2. GoodCall(x)
        BY <4>1
      <4>. HIDE DEF x
      <4>3. call' = [call EXCEPT ![c] = x]
        BY <3>1 DEF x
      <4>. QED  BY <4>2, <4>3
    <3>2. CASE call' = [call EXCEPT ![c] = FailCall(r.torrent, r.path, r.info)]
      BY <3>2, <2>2, FailIsGood
    <3>3. CASE \E left \in LeftDataViews(r.torrent, r.path) :
                  call' = [call EXCEPT ![c] = AddCall(r.torrent, r.path, r.info, left, TRUE)]
      <4>1. PICK left \in LeftDataViews(r.torrent, r.path) :
                  call' = [call EXCEPT ![c] = AddCall(r.torrent, r.path, r.info, left, TRUE)]
        BY <3>3
      <4>. DEFINE x == AddCall(r.torrent, r.path, r.info, left, TRUE)
      <4>2. \A yes \in BOOLEAN : GoodCall(AddCall(r.torrent, r.path, r.info, left, yes))
        BY <2>2, AddIsGood
      <4>3. GoodCall(x)
        BY <4>2
      <4>. HIDE DEF x
      <4>4. call' = [call EXCEPT ![c] = x]
        BY <4>1 DEF x
      <4>. QED  BY <4>3, <4>4
    <3>. QED  BY <1>2, <3>1, <3>2, <3>3 DEF RestoreLook, r
  <2>4. DOMAIN call' = Callers /\ \A b \in Callers : GoodCall(call'[b])
    BY <2>1, <2>3, OneGoodCall
  <2>. QED  BY <2>4, <1>2 DEF RestoreLook, Good
<1>3. ASSUME NEW c \in Adders, FindOrTrack(c) PROVE Good'
  <2>. DEFINE a == call[c]
  <2>1. c \in Callers /\ a \in Adds /\ a.op = "add"
    BY <1>3, <1>c, CallShape DEF FindOrTrack, Callers
  <2>2. a.torrent \in Torrents /\ a.path \in Paths /\ a.info \in BOOLEAN /\ a.restores \in BOOLEAN
    BY <2>1 DEF Adds
  <2>3. a.restores => records # <<>>
    BY <2>1 DEF HasRecord
  <2>. HIDE DEF a
  <2>4. GoodCall(Idle) /\ GoodCall(FailCall(a.torrent, a.path, a.info))
    BY <2>2, IdleIsGood, FailIsGood
  <2>5. CASE /\ call' = [call EXCEPT ![c] = Idle]
             /\ Restored(a.restores)
             /\ UNCHANGED <<entry, deleting, disk>>
    BY <2>1, <2>2, <2>3, <2>4, <2>5, OneGoodCall, RestoredGood DEF Good
  <2>6. CASE /\ call' = [call EXCEPT ![c] = IF a.restores THEN FailCall(a.torrent, a.path, a.info) ELSE Idle]
             /\ UNCHANGED <<records, entry, deleting, disk>>
    BY <2>1, <2>4, <2>6, OneGoodCall DEF Good
  <2>7. CASE /\ \E i \in Mintable(Stale(a.torrent)) :
                  LET full == Cardinality(Active) >= MaxActive
                      new == NewEntry(a.torrent, a.path, a.info, IF full THEN "queued" ELSE "joining")
                  IN /\ entry' = [j \in Ids |-> IF j = i THEN new
                                               ELSE IF j \in Stale(a.torrent) THEN Unused
                                               ELSE entry[j]]
                     /\ call' = [call EXCEPT ![c] =
                            IF full THEN Idle
                            ELSE [op |-> "attach", id |-> i, restores |-> a.restores]]
                     /\ Restored(a.restores /\ full)
             /\ UNCHANGED <<deleting, disk>>
    <3>. DEFINE full == Cardinality(Active) >= MaxActive
    <3>1. PICK i \in Mintable(Stale(a.torrent)) :
             /\ entry' = [j \in Ids |-> IF j = i THEN NewEntry(a.torrent, a.path, a.info, IF full THEN "queued" ELSE "joining")
                                        ELSE IF j \in Stale(a.torrent) THEN Unused
                                        ELSE entry[j]]
             /\ call' = [call EXCEPT ![c] = IF full THEN Idle
                                            ELSE [op |-> "attach", id |-> i, restores |-> a.restores]]
             /\ Restored(a.restores /\ full)
      BY <2>7
    <3>2. i \in Ids
      BY DEF Mintable, Stale, Tracked
    <3>. HIDE DEF full
    <3>3. GoodCall([op |-> "attach", id |-> i, restores |-> a.restores])
      BY <2>2, <3>2 DEF GoodCall, Calls, Attaches
    <3>4. DOMAIN call' = Callers /\ \A b \in Callers : GoodCall(call'[b])
      <4>1. CASE full
        BY <3>1, <4>1, <2>1, <2>4, OneGoodCall
      <4>2. CASE ~full
        BY <3>1, <4>2, <2>1, <3>3, OneGoodCall
      <4>. QED  BY <4>1, <4>2
    <3>5. PICK phase \in {"queued", "joining"} : phase = IF full THEN "queued" ELSE "joining"
      OBVIOUS
    <3>6. GoodEntry(NewEntry(a.torrent, a.path, a.info, phase)) /\ GoodEntry(Unused)
      BY <2>2, NewIsGood, UnusedIsGood
    <3>7. entry' \in [Ids -> Entries] /\ \A j \in Ids : GoodEntry(entry'[j])
      <4>1. \A j \in Ids : entry'[j] \in {NewEntry(a.torrent, a.path, a.info, phase), Unused, entry[j]}
        BY <3>1, <3>5
      <4>2. \A j \in Ids : GoodEntry(entry'[j])
        BY <4>1, <3>6, <1>e
      <4>3. entry' = [j \in Ids |-> entry'[j]]
        BY <3>1
      <4>4. \A j \in Ids : entry'[j] \in Entries
        BY <4>2 DEF GoodEntry
      <4>. QED  BY <4>2, <4>3, <4>4
    <3>8. records' \in Sessions
      <4>1. PICK done \in BOOLEAN : done <=> (a.restores /\ full)
        BY <2>2
      <4>2. Restored(done)
        BY <3>1, <4>1 DEF Restored
      <4>. QED  BY <4>1, <4>2, <2>3, RestoredGood
    <3>. QED  BY <3>4, <3>7, <3>8, <2>7 DEF Good
  <2>. QED  BY <1>3, <2>5, <2>6, <2>7 DEF FindOrTrack, a
<1>4. ASSUME NEW c \in Adders, Attach(c) PROVE Good'
  <2>. DEFINE i == call[c].id
              yes == call[c].restores
  <2>1. c \in Callers /\ call[c].op = "attach" /\ i \in Ids /\ yes \in BOOLEAN
    BY <1>4, <1>c, CallShape DEF Attach, Callers, Attaches
  <2>2. GoodEntry(entry[i]) /\ entry[i].phase \in {"none", "joining"}
    BY <2>1, <1>e DEF AttachLinks
  <2>3. yes => records # <<>>
    BY <2>1 DEF HasRecord
  <2>4. PICK x : GoodCall(x) /\ call' = [call EXCEPT ![c] = x]
    <3>1. GoodCall(FailCall(entry[i].torrent, entry[i].path, entry[i].info))
      BY <2>2, EntryFields, FailIsGood
    <3>. QED  BY <1>4, <3>1, IdleIsGood DEF Attach
  <2>5. PICK e : GoodEntry(e) /\ (entry' = entry \/ entry' = [entry EXCEPT ![i] = e])
    <3>1. GoodEntry([entry[i] EXCEPT !.joined = TRUE, !.phase = IF entry[i].info THEN "checking" ELSE "waiting"])
      BY <2>2, JoinedIsGood
    <3>2. Joined(i) = [entry EXCEPT ![i] = [entry[i] EXCEPT !.joined = TRUE,
                                            !.phase = IF entry[i].info THEN "checking" ELSE "waiting"]]
      BY <2>1 DEF Joined, Good
    <3>. QED  BY <1>4, <3>1, <3>2, UnusedIsGood DEF Attach
  <2>6. records' \in Sessions
    BY <1>4, <2>1, <2>3, RestoredGood DEF Attach, Good
  <2>. HIDE DEF i
  <2>7. entry' \in [Ids -> Entries] /\ \A j \in Ids : GoodEntry(entry'[j])
    BY <2>1, <2>5, OneGood, <1>e DEF Good
  <2>8. DOMAIN call' = Callers /\ \A b \in Callers : GoodCall(call'[b])
    BY <2>1, <2>4, OneGoodCall
  <2>. QED  BY <2>6, <2>7, <2>8, <1>4 DEF Attach, Good
<1>5. ASSUME NEW c \in Adders, TrackErroredLook(c) PROVE Good'
  <2>. DEFINE a == call[c]
  <2>1. c \in Callers /\ a \in Fails
    BY <1>5, <1>c, CallShape DEF TrackErroredLook, Callers
  <2>2. a.torrent \in Torrents /\ a.path \in Paths /\ a.info \in BOOLEAN
    BY <2>1 DEF Fails
  <2>3. PICK found \in LeftData(a.torrent, a.path, a.info), apart \in DestMatches(a.path) :
          call' = [call EXCEPT ![c] = [op |-> "track", torrent |-> a.torrent, path |-> a.path,
                                       info |-> a.info, found |-> found, apart |-> apart]]
    BY <1>5 DEF TrackErroredLook
  <2>. HIDE DEF a
  <2>4. found \in BOOLEAN
    BY <2>2 DEF LeftData
  <2>5. apart \in SUBSET Paths /\ Elsewhere(apart, a.path)
    BY MatchesElsewhere
  <2>. DEFINE x == [op |-> "track", torrent |-> a.torrent, path |-> a.path,
                    info |-> a.info, found |-> found, apart |-> apart]
  <2>6. x \in Tracks /\ x.op = "track" /\ x.apart = apart /\ x.path = a.path
    BY <2>2, <2>4, <2>5 DEF Tracks
  <2>7. call' = [call EXCEPT ![c] = x]
    BY <2>3
  <2>. HIDE DEF x
  <2>8. GoodCall(x)
    BY <2>5, <2>6 DEF GoodCall, Calls
  <2>. QED  BY <2>1, <2>7, <2>8, OneGoodCall, <1>5 DEF TrackErroredLook, Good
<1>6. ASSUME NEW c \in Adders, TrackErrored(c) PROVE Good'
  <2>. DEFINE a == call[c]
  <2>1. c \in Callers /\ a \in Tracks /\ a.op = "track"
    BY <1>6, <1>c, CallShape DEF TrackErrored, Callers
  <2>2. a.torrent \in Torrents /\ a.path \in Paths /\ a.info \in BOOLEAN /\ a.found \in BOOLEAN
    BY <2>1 DEF Tracks
  <2>3. PICK i \in Mintable({}) : entry' = [entry EXCEPT ![i] =
            Refused(NewEntry(a.torrent, a.path, a.info, "refused"), i, a.found, a.apart)]
    BY <1>6 DEF TrackErrored
  <2>4. GoodEntry(NewEntry(a.torrent, a.path, a.info, "refused"))
    BY <2>2, RefusedIsGood
  <2>5. GoodEntry(Refused(NewEntry(a.torrent, a.path, a.info, "refused"), i, a.found, a.apart))
    BY <2>2, <2>4, RefusedFields
  <2>6. records' \in Sessions
    BY <1>6, <2>1, SessionTail DEF TrackErrored, HasRecord, Restored, Good
  <2>7. i \in Ids
    BY DEF Mintable
  <2>. HIDE DEF a
  <2>8. entry' \in [Ids -> Entries] /\ \A j \in Ids : GoodEntry(entry'[j])
    BY <2>3, <2>5, <2>7, OneGood
  <2>9. DOMAIN call' = Callers /\ \A b \in Callers : GoodCall(call'[b])
    BY <2>1, <1>6, IdleIsGood, OneGoodCall DEF TrackErrored
  <2>. QED  BY <2>6, <2>8, <2>9, <1>6 DEF TrackErrored, Good
<1>7. ASSUME NEW c \in Removers, RemoveLook(c) PROVE Good'
  <2>1. PICK i \in Tracked : \E apart \in DestMatches(entry[i].path) :
          call' = [call EXCEPT ![c] = [op |-> "remove", id |-> i, apart |-> apart]]
    BY <1>7 DEF RemoveLook
  <2>2. PICK apart \in DestMatches(entry[i].path) :
          call' = [call EXCEPT ![c] = [op |-> "remove", id |-> i, apart |-> apart]]
    BY <2>1
  <2>3. i \in Ids /\ apart \in SUBSET Paths /\ c \in Callers
    BY MatchesElsewhere DEF Tracked, Callers
  <2>4. GoodCall([op |-> "remove", id |-> i, apart |-> apart])
    BY <2>3 DEF GoodCall, Calls, Removes
  <2>. QED  BY <2>2, <2>3, <2>4, OneGoodCall, <1>7 DEF RemoveLook, Good
<1>8. ASSUME NEW c \in Removers, Remove(c) PROVE Good'
  <2>. DEFINE i == call[c].id
  <2>1. c \in Callers /\ i \in Ids
    BY <1>8, <1>c, CallShape DEF Remove, Callers, Removes
  <2>2. DOMAIN call' = Callers /\ \A b \in Callers : GoodCall(call'[b])
    BY <2>1, <1>8, IdleIsGood, OneGoodCall DEF Remove
  <2>3. entry' = entry \/ entry' = [entry EXCEPT ![i] = Unused]
    BY <1>8 DEF Remove
  <2>4. deleting' \subseteq Deletions
    <3>1. entry[i].path \in Paths /\ NameAt(i) \in Names
      BY <2>1, <1>e, EntryFields, DataTyped
    <3>2. [id |-> i, path |-> entry[i].path, name |-> NameAt(i), over |-> FALSE] \in Deletions
      BY <2>1, <3>1 DEF Deletions
    <3>. QED  BY <3>2, <1>8 DEF Remove, Good
  <2>. HIDE DEF i
  <2>5. entry' \in [Ids -> Entries] /\ \A j \in Ids : GoodEntry(entry'[j])
    BY <2>1, <2>3, OneGood, UnusedIsGood, <1>e DEF Good
  <2>. QED  BY <2>2, <2>4, <2>5, <1>8 DEF Remove, Good
<1>9. ASSUME NEW i \in Ids, NEW e, GoodEntry(e), entry' = [entry EXCEPT ![i] = e],
             UNCHANGED <<records, call, deleting, disk>>
      PROVE  Good'
  BY <1>9, OneGood DEF Good
<1>10. ASSUME NEW i \in Ids, RefuseLook(i), entry[i].phase # "refused" PROVE Good'
  <2>1. PICK found \in LeftData(entry[i].torrent, entry[i].path, entry[i].info),
             apart \in DestMatches(entry[i].path) :
          entry' = [entry EXCEPT ![i].phase = "refusing", ![i].found = found, ![i].apart = apart]
    BY <1>10 DEF RefuseLook
  <2>2. GoodEntry(entry[i])
    BY <1>e
  <2>3. found \in BOOLEAN
    BY <2>2, EntryFields DEF LeftData
  <2>4. apart \in SUBSET Paths /\ Elsewhere(apart, entry[i].path)
    BY MatchesElsewhere
  <2>. DEFINE e == [entry[i] EXCEPT !.phase = "refusing", !.found = found, !.apart = apart]
  <2>5. GoodEntry(e)
    BY <1>10, <2>2, <2>3, <2>4, ReadIsGood
  <2>6. entry' = [entry EXCEPT ![i] = e]
    BY <2>1 DEF Good
  <2>. HIDE DEF e
  <2>. QED  BY <2>5, <2>6, <1>9, <1>10 DEF RefuseLook
<1>11. ASSUME NEW i \in Ids, NEW phase \in {"starting", "gated", "running"}, SetPhase(i, phase),
              entry[i].phase # "refused",
              phase \in {"gated", "running"} => entry[i].joined /\ entry[i].info
       PROVE  Good'
  <2>1. GoodEntry([entry[i] EXCEPT !.phase = phase])
    BY <1>11, <1>e, MovedIsGood
  <2>2. entry' = [entry EXCEPT ![i] = [entry[i] EXCEPT !.phase = phase]]
    BY <1>11 DEF SetPhase, Good
  <2>. QED  BY <2>1, <2>2, <1>9, <1>11 DEF SetPhase
<1>12. ASSUME NEW i \in Ids, EntryNext(i) PROVE Good'
  <2>e. GoodEntry(entry[i])
    BY <1>e
  <2>1. CASE Promote(i)
    BY <2>1, <1>11 DEF Promote
  <2>2. CASE Refuse(i)
    <3>1. entry[i].found \in BOOLEAN
      BY <2>e, EntryFields
    <3>2. GoodEntry(Refused(entry[i], i, entry[i].found, entry[i].apart))
      BY <2>e, <3>1, RefusedFields
    <3>. QED  BY <2>2, <3>2, <1>9 DEF Refuse
  <2>3. CASE AttachPromoted(i)
    <3>1. GoodEntry([entry[i] EXCEPT !.joined = TRUE, !.phase = IF entry[i].info THEN "checking" ELSE "waiting"])
      BY <2>3, <2>e, JoinedIsGood DEF AttachPromoted
    <3>2. Joined(i) = [entry EXCEPT ![i] = [entry[i] EXCEPT !.joined = TRUE,
                                            !.phase = IF entry[i].info THEN "checking" ELSE "waiting"]]
      BY DEF Joined, Good
    <3>. QED  BY <2>3, <3>1, <3>2, <1>9, <1>10 DEF AttachPromoted
  <2>4. CASE InfoArrives(i)
    <3>1. GoodEntry([entry[i] EXCEPT !.phase = "checking", !.info = TRUE])
      BY <2>4, <2>e, InformedIsGood DEF InfoArrives
    <3>2. entry' = [entry EXCEPT ![i] = [entry[i] EXCEPT !.phase = "checking", !.info = TRUE]]
      BY <2>4 DEF InfoArrives, Good
    <3>. QED  BY <2>4, <3>1, <3>2, <1>9 DEF InfoArrives
  <2>5. CASE MetadataTimeout(i)
    BY <2>5, <1>10 DEF MetadataTimeout
  <2>6. CASE CheckInfo(i)
    BY <2>6, <2>e, <1>10, <1>11 DEF CheckInfo, GoodEntry
  <2>7. CASE AwaitDeletes(i)
    BY <2>7, <2>e, <1>11 DEF AwaitDeletes, GoodEntry
  <2>8. CASE Write(i)
    BY <2>8, DataTyped DEF Write, Good
  <2>9. CASE RemoveEntry(i)
    BY <2>9, UnusedIsGood, <1>9 DEF RemoveEntry
  <2>10. CASE DeleteByHand(i)
    BY <2>10 DEF DeleteByHand, Good
  <2>. QED  BY <1>12, <2>1, <2>2, <2>3, <2>4, <2>5, <2>6, <2>7, <2>8, <2>9, <2>10 DEF EntryNext
<1>13. ASSUME NEW d \in deleting, DeleteData(d) \/ EndDelete(d) PROVE Good'
  <2>1. d \in Deletions
    BY DEF Good
  <2>2. [d EXCEPT !.over = TRUE] \in Deletions
    BY <2>1 DEF Deletions
  <2>. QED  BY <1>13, <2>2 DEF DeleteData, EndDelete, Good
<1>. QED  BY <1>1, <1>2, <1>3, <1>4, <1>5, <1>6, <1>7, <1>8, <1>12, <1>13
       DEF Next, AddNext, RemoveNext, DeleteNext

----------------------------------------------------------------------------
(* What a step may do to one entry, one call and one delete. *)

Alone(i) == \A j \in Ids \ {i} : entry'[j] = entry[j]

\* It looked at every entry of the directory and none had the name.
Unclaimed(i, torrent, path) ==
    \E apart : Elsewhere(apart, path) /\ ~Taken(i, NameOf[torrent], path, apart)

\* It claims data only when no other entry has.
Claims(i) == entry'[i].left => \/ entry'[i] = entry[i]
                               \/ Alone(i) /\ Unclaimed(i, entry'[i].torrent, entry'[i].path)

\* It goes on from phase to phase: from joining only as its call attaches
\* it, to running only when no delete of its name is under way.
Going(i) ==
    /\ entry[i].phase # "none" /\ entry'[i].phase \notin {"none", "joining"}
    /\ entry'[i].path = entry[i].path /\ entry'[i].torrent = entry[i].torrent
    /\ entry[i].phase = "joining" => \E c \in Callers :
           call[c].op = "attach" /\ call[c].id = i /\ call'[c].op # "attach"
    /\ entry'[i].phase = "running" => /\ Awaited(i) = {} /\ deleting' = deleting

\* Its identifier is handed out: nothing refers to it.
Fresh(i) == ~Referred(i) /\ entry'[i].phase \in {"queued", "joining", "refused"}

EntryStep(i) ==
    /\ entry'[i] = entry[i] \/ entry'[i].phase = "none" \/ Going(i) \/ Fresh(i)
    /\ Claims(i)

CallStep(c) ==
    \/ call'[c] = call[c]
    \/ call'[c].op \notin {"attach", "remove"}
    \/ /\ call'[c].op = "remove"
       /\ entry' = entry
       /\ Elsewhere(call'[c].apart, entry[call'[c].id].path)
    \/ /\ call'[c].op = "attach"
       /\ ~Referred(call'[c].id)
       /\ entry'[call'[c].id].phase = "joining"
       /\ \A b \in Callers \ {c} : call'[b] = call[b]

DeleteStep(d) ==
    \/ \E e \in deleting : e.id = d.id /\ e.path = d.path /\ e.name = d.name
    \/ /\ d.id \in Tracked /\ entry'[d.id].phase = "none" /\ Alone(d.id)
       /\ d.path = entry[d.id].path /\ d.name = NameAt(d.id)
       /\ \E apart : Elsewhere(apart, entry[d.id].path) /\ Deletes(d.id, apart)

\* A step that leaves entries, attaches, removes and deletes as they are.
LEMMA QuietStep ==
    ASSUME Good, entry' = entry, deleting' = deleting,
           NEW c \in Callers, NEW x, call' = call \/ call' = [call EXCEPT ![c] = x],
           x.op \notin {"attach", "remove"}
    PROVE  /\ \A i \in Ids : EntryStep(i)
           /\ \A b \in Callers : CallStep(b)
           /\ \A d \in deleting' : DeleteStep(d)
BY DEF Good, EntryStep, Claims, CallStep, DeleteStep

\* A step of one entry and nothing else.
LEMMA OneStep ==
    ASSUME Good, NEW i \in Ids, NEW e, entry' = [entry EXCEPT ![i] = e],
           UNCHANGED <<call, deleting>>,
           e.phase = "none" \/ Going(i),
           e.left => e = entry[i] \/ Unclaimed(i, e.torrent, e.path)
    PROVE  /\ \A j \in Ids : EntryStep(j)
           /\ \A c \in Callers : CallStep(c)
           /\ \A d \in deleting' : DeleteStep(d)
<1>1. entry'[i] = e /\ Alone(i)
  BY DEF Good, Alone
<1>2. EntryStep(i)
  BY <1>1 DEF EntryStep, Claims
<1>3. \A j \in Ids \ {i} : EntryStep(j)
  BY <1>1 DEF EntryStep, Claims, Alone
<1>. QED  BY <1>2, <1>3 DEF CallStep, DeleteStep

\* The names an entry keeps when it is refused.
LEMMA RefusalClaims ==
    ASSUME NEW e, GoodEntry(e), NEW i, NEW found \in BOOLEAN, NEW apart, Elsewhere(apart, e.path),
           Refused(e, i, found, apart).left
    PROVE  Unclaimed(i, e.torrent, e.path)
<1>1. ~Defers(i, e.torrent, e.path, apart)
  BY RefusedFields
<1>. QED  BY <1>1 DEF Defers, Unclaimed

LEMMA RefuseLookStep ==
    ASSUME Good, NEW i \in Ids, RefuseLook(i), entry[i].phase \notin {"none", "joining", "refused"}
    PROVE  /\ \A j \in Ids : EntryStep(j)
           /\ \A c \in Callers : CallStep(c)
           /\ \A d \in deleting' : DeleteStep(d)
<1>1. PICK found, apart :
        entry' = [entry EXCEPT ![i].phase = "refusing", ![i].found = found, ![i].apart = apart]
  BY DEF RefuseLook
<1>. DEFINE e == [entry[i] EXCEPT !.phase = "refusing", !.found = found, !.apart = apart]
<1>2. /\ e.phase = "refusing" /\ e.left = entry[i].left
      /\ e.path = entry[i].path /\ e.torrent = entry[i].torrent
  BY DEF Good, Entries
<1>3. entry' = [entry EXCEPT ![i] = e] /\ entry'[i] = e
  BY <1>1 DEF Good
<1>. HIDE DEF e
<1>4. ~e.left
  BY <1>2 DEF Good, GoodEntry
<1>5. Going(i)
  BY <1>2, <1>3 DEF Going
<1>. QED  BY <1>3, <1>4, <1>5, OneStep DEF RefuseLook

LEMMA SetPhaseStep ==
    ASSUME Good, NEW i \in Ids, NEW phase \in {"starting", "gated", "running"}, SetPhase(i, phase),
           entry[i].phase \notin {"none", "joining", "refused"},
           phase = "running" => Awaited(i) = {}
    PROVE  /\ \A j \in Ids : EntryStep(j)
           /\ \A c \in Callers : CallStep(c)
           /\ \A d \in deleting' : DeleteStep(d)
<1>. DEFINE e == [entry[i] EXCEPT !.phase = phase]
<1>2. /\ e.phase = phase /\ e.left = entry[i].left
      /\ e.path = entry[i].path /\ e.torrent = entry[i].torrent
  BY DEF Good, Entries
<1>3. entry' = [entry EXCEPT ![i] = e] /\ entry'[i] = e
  BY DEF Good, SetPhase
<1>. HIDE DEF e
<1>4. ~e.left
  BY <1>2 DEF Good, GoodEntry
<1>5. Going(i)
  BY <1>2, <1>3 DEF Going, SetPhase
<1>. QED  BY <1>3, <1>4, <1>5, OneStep DEF SetPhase

LEMMA JoinedFields ==
    ASSUME Good, NEW i \in Ids
    PROVE  \E e : /\ Joined(i) = [entry EXCEPT ![i] = e]
                  /\ e.phase \in {"checking", "waiting"} /\ e.left = entry[i].left
                  /\ e.path = entry[i].path /\ e.torrent = entry[i].torrent
<1>. DEFINE e == [entry[i] EXCEPT !.joined = TRUE, !.phase = IF entry[i].info THEN "checking" ELSE "waiting"]
<1>1. Joined(i) = [entry EXCEPT ![i] = e]
  BY DEF Good, Joined
<1>2. /\ e.phase \in {"checking", "waiting"} /\ e.left = entry[i].left
      /\ e.path = entry[i].path /\ e.torrent = entry[i].torrent
  BY DEF Good, Entries
<1>. QED  BY <1>1, <1>2

\* An entry untracked by itself.
LEMMA GoneStep ==
    ASSUME Good, NEW i \in Ids, entry' = Untrack(i), UNCHANGED <<call, deleting>>
    PROVE  /\ \A j \in Ids : EntryStep(j)
           /\ \A c \in Callers : CallStep(c)
           /\ \A d \in deleting' : DeleteStep(d)
BY OneStep, UnusedIsGood

LEMMA EntrySteps ==
    ASSUME Good, NEW i \in Ids, EntryNext(i)
    PROVE  /\ \A j \in Ids : EntryStep(j)
           /\ \A c \in Callers : CallStep(c)
           /\ \A d \in deleting' : DeleteStep(d)
<1>e. GoodEntry(entry[i]) /\ entry[i] \in Entries
  BY DEF Good
<1>1. CASE Promote(i)
  BY <1>1, SetPhaseStep DEF Promote
<1>2. CASE Refuse(i)
  <2>. DEFINE e == Refused(entry[i], i, entry[i].found, entry[i].apart)
  <2>1. entry[i].found \in BOOLEAN /\ Elsewhere(entry[i].apart, entry[i].path)
    BY <1>e, <1>2, EntryFields DEF Refuse, GoodEntry
  <2>2. /\ e.phase = "refused" /\ e.torrent = entry[i].torrent /\ e.path = entry[i].path
    BY <1>e, <2>1, RefusedFields
  <2>3. e.left => Unclaimed(i, entry[i].torrent, entry[i].path)
    BY <1>e, <2>1, RefusalClaims
  <2>4. entry' = [entry EXCEPT ![i] = e] /\ entry'[i] = e /\ UNCHANGED <<call, deleting>>
    BY <1>2 DEF Good, Refuse
  <2>. HIDE DEF e
  <2>5. Going(i)
    BY <2>2, <2>4, <1>2 DEF Going, Refuse
  <2>. QED  BY <2>2, <2>3, <2>4, <2>5, OneStep
<1>3. CASE AttachPromoted(i)
  <2>1. CASE RefuseLook(i)
    BY <2>1, <1>3, RefuseLookStep DEF AttachPromoted
  <2>2. CASE entry' = Joined(i) /\ UNCHANGED <<records, call, deleting, disk>>
    <3>1. PICK e : /\ Joined(i) = [entry EXCEPT ![i] = e]
                   /\ e.phase \in {"checking", "waiting"} /\ e.left = entry[i].left
                   /\ e.path = entry[i].path /\ e.torrent = entry[i].torrent
      BY JoinedFields
    <3>2. entry' = [entry EXCEPT ![i] = e] /\ entry'[i] = e
      BY <2>2, <3>1 DEF Good
    <3>3. ~e.left
      BY <3>1, <1>3, <1>e DEF AttachPromoted, GoodEntry
    <3>4. Going(i)
      BY <3>1, <3>2, <1>3 DEF Going, AttachPromoted
    <3>. QED  BY <3>2, <3>3, <3>4, <2>2, OneStep
  <2>. QED  BY <1>3, <2>1, <2>2 DEF AttachPromoted
<1>4. CASE InfoArrives(i)
  <2>. DEFINE e == [entry[i] EXCEPT !.phase = "checking", !.info = TRUE]
  <2>1. /\ e.phase = "checking" /\ e.left = entry[i].left
        /\ e.path = entry[i].path /\ e.torrent = entry[i].torrent
    BY <1>e DEF Entries
  <2>2. entry' = [entry EXCEPT ![i] = e] /\ entry'[i] = e /\ UNCHANGED <<call, deleting>>
    BY <1>4 DEF Good, InfoArrives
  <2>. HIDE DEF e
  <2>3. ~e.left
    BY <2>1, <1>4, <1>e DEF InfoArrives, GoodEntry
  <2>4. Going(i)
    BY <2>1, <2>2, <1>4 DEF Going, InfoArrives
  <2>. QED  BY <2>2, <2>3, <2>4, OneStep
<1>5. CASE MetadataTimeout(i)
  BY <1>5, RefuseLookStep DEF MetadataTimeout
<1>6. CASE CheckInfo(i)
  BY <1>6, RefuseLookStep, SetPhaseStep DEF CheckInfo
<1>7. CASE AwaitDeletes(i)
  BY <1>7, SetPhaseStep DEF AwaitDeletes
<1>8. CASE Write(i) \/ DeleteByHand(i)
  BY <1>8 DEF Write, DeleteByHand, EntryStep, Claims, CallStep, DeleteStep
<1>9. CASE RemoveEntry(i)
  BY <1>9, GoneStep DEF RemoveEntry
<1>. QED  BY <1>1, <1>2, <1>3, <1>4, <1>5, <1>6, <1>7, <1>8, <1>9 DEF EntryNext

LEMMA AddSteps ==
    ASSUME Good, AttachLinks, NEW c \in Adders, AddNext(c)
    PROVE  /\ \A j \in Ids : EntryStep(j)
           /\ \A b \in Callers : CallStep(b)
           /\ \A d \in deleting' : DeleteStep(d)
<1>c. c \in Callers /\ GoodCall(call[c])
  BY DEF Good, Callers
<1>i. Idle.op = "idle"
  BY DEF Idle
<1>f. \A t, p, info : FailCall(t, p, info).op = "fail"
  BY DEF FailCall
<1>1. CASE AddLook(c)
  <2>1. PICK torrent, path, info, left :
            call' = [call EXCEPT ![c] = AddCall(torrent, path, info, left, FALSE)]
    BY <1>1 DEF AddLook
  <2>. DEFINE x == AddCall(torrent, path, info, left, FALSE)
  <2>2. x.op = "add"
    BY DEF AddCall
  <2>. HIDE DEF x
  <2>3. call' = [call EXCEPT ![c] = x]
    BY <2>1 DEF x
  <2>. QED  BY <2>2, <2>3, <1>1, <1>c, QuietStep DEF AddLook
<1>2. CASE RestoreLook(c)
  <2>. DEFINE r == Head(records)
  <2>1. PICK x : call' = [call EXCEPT ![c] = x] /\ x.op \in {"add", "fail"}
    <3>. HIDE DEF r
    <3>1. CASE call' = [call EXCEPT ![c] = FailCall(r.torrent, r.path, FALSE)]
      <4>. DEFINE x == FailCall(r.torrent, r.path, FALSE)
      <4>1. x.op = "fail"
        BY DEF FailCall
      <4>. HIDE DEF x
      <4>2. call' = [call EXCEPT ![c] = x]
        BY <3>1 DEF x
      <4>. QED  BY <4>1, <4>2
    <3>2. CASE call' = [call EXCEPT ![c] = FailCall(r.torrent, r.path, r.info)]
      BY <3>2, <1>f
    <3>3. CASE \E left \in LeftDataViews(r.torrent, r.path) :
                  call' = [call EXCEPT ![c] = AddCall(r.torrent, r.path, r.info, left, TRUE)]
      <4>1. PICK left : call' = [call EXCEPT ![c] = AddCall(r.torrent, r.path, r.info, left, TRUE)]
        BY <3>3
      <4>. DEFINE x == AddCall(r.torrent, r.path, r.info, left, TRUE)
      <4>2. x.op = "add"
        BY DEF AddCall
      <4>. HIDE DEF x
      <4>3. call' = [call EXCEPT ![c] = x]
        BY <4>1 DEF x
      <4>. QED  BY <4>2, <4>3
    <3>. QED  BY <1>2, <3>1, <3>2, <3>3 DEF RestoreLook, r
  <2>. QED  BY <2>1, <1>2, <1>c, QuietStep DEF RestoreLook
<1>3. CASE FindOrTrack(c)
  <2>. DEFINE a == call[c]
  <2>1. a.torrent \in Torrents /\ a.path \in Paths /\ a.info \in BOOLEAN
    BY <1>3, <1>c, CallShape DEF FindOrTrack, Adds
  <2>2. CASE call' = [call EXCEPT ![c] = Idle] /\ UNCHANGED <<entry, deleting>>
    BY <2>2, <1>c, <1>i, QuietStep
  <2>3. CASE /\ call' = [call EXCEPT ![c] = IF a.restores THEN FailCall(a.torrent, a.path, a.info) ELSE Idle]
             /\ UNCHANGED <<entry, deleting>>
    <3>1. PICK x : call' = [call EXCEPT ![c] = x] /\ x.op \notin {"attach", "remove"}
      BY <2>3, <1>i, <1>f
    <3>. QED  BY <3>1, <2>3, <1>c, QuietStep
  <2>4. ASSUME NEW i \in Mintable(Stale(a.torrent)), NEW full \in BOOLEAN,
               entry' = [j \in Ids |-> IF j = i THEN NewEntry(a.torrent, a.path, a.info, IF full THEN "queued" ELSE "joining")
                                       ELSE IF j \in Stale(a.torrent) THEN Unused
                                       ELSE entry[j]],
               call' = [call EXCEPT ![c] = IF full THEN Idle
                                           ELSE [op |-> "attach", id |-> i, restores |-> a.restores]],
               deleting' = deleting
        PROVE  /\ \A j \in Ids : EntryStep(j)
               /\ \A b \in Callers : CallStep(b)
               /\ \A d \in deleting' : DeleteStep(d)
    <3>. HIDE DEF a
    <3>1. i \in Ids /\ ~Referred(i)
      BY DEF Mintable, Stale, Tracked
    <3>2. PICK phase \in {"queued", "joining"} : phase = IF full THEN "queued" ELSE "joining"
      OBVIOUS
    <3>3. /\ entry'[i] = NewEntry(a.torrent, a.path, a.info, phase)
          /\ entry'[i].phase = phase /\ entry'[i].left = FALSE
      <4>1. entry'[i] = NewEntry(a.torrent, a.path, a.info, phase)
        BY <2>4, <3>1, <3>2
      <4>. DEFINE n == NewEntry(a.torrent, a.path, a.info, phase)
      <4>3. n.phase = phase /\ n.left = FALSE
        BY DEF NewEntry
      <4>. HIDE DEF n
      <4>4. entry'[i] = n
        BY <4>1 DEF n
      <4>. QED  BY <4>1, <4>3, <4>4
    <3>4. EntryStep(i)
      BY <3>1, <3>2, <3>3 DEF EntryStep, Fresh, Claims
    <3>5. \A j \in Ids \ {i} : EntryStep(j)
      <4>1. \A j \in Ids \ {i} : entry'[j] = entry[j] \/ entry'[j] = Unused
        BY <2>4
      <4>. QED  BY <4>1, UnusedIsGood DEF EntryStep, Claims
    <3>6. \A b \in Callers : CallStep(b)
      <4>1. CASE full
        BY <2>4, <4>1, <1>i, <1>c DEF CallStep, Good
      <4>2. CASE ~full
        <5>1. call' = [call EXCEPT ![c] = [op |-> "attach", id |-> i, restores |-> a.restores]]
          BY <2>4, <4>2
        <5>2. call'[c].op = "attach" /\ call'[c].id = i /\ \A b \in Callers \ {c} : call'[b] = call[b]
          BY <5>1, <1>c DEF Good
        <5>3. entry'[i].phase = "joining"
          BY <3>2, <3>3, <4>2
        <5>. QED  BY <5>2, <5>3, <3>1 DEF CallStep
      <4>. QED  BY <4>1, <4>2
    <3>. QED  BY <3>4, <3>5, <3>6, <2>4 DEF DeleteStep
  <2>5. CASE \E i \in Mintable(Stale(a.torrent)) :
                 LET full == Cardinality(Active) >= MaxActive
                     new == NewEntry(a.torrent, a.path, a.info, IF full THEN "queued" ELSE "joining")
                 IN /\ entry' = [j \in Ids |-> IF j = i THEN new
                                              ELSE IF j \in Stale(a.torrent) THEN Unused
                                              ELSE entry[j]]
                    /\ call' = [call EXCEPT ![c] =
                           IF full THEN Idle
                           ELSE [op |-> "attach", id |-> i, restores |-> a.restores]]
                    /\ Restored(a.restores /\ full)
    <3>1. (Cardinality(Active) >= MaxActive) \in BOOLEAN
      OBVIOUS
    <3>2. deleting' = deleting
      BY <1>3 DEF FindOrTrack
    <3>. HIDE DEF a
    <3>. QED  BY <2>4, <2>5, <3>1, <3>2
  <2>. QED  BY <1>3, <2>2, <2>3, <2>5 DEF FindOrTrack
<1>4. CASE Attach(c)
  <2>. DEFINE i == call[c].id
  <2>1. i \in Ids /\ call[c].op = "attach" /\ entry[i].phase \in {"none", "joining"} /\ GoodEntry(entry[i])
    BY <1>4, <1>c, CallShape DEF Attach, Attaches, AttachLinks, Good
  <2>2. PICK x : call' = [call EXCEPT ![c] = x] /\ x.op \in {"idle", "fail"}
    BY <1>4, <1>i, <1>f DEF Attach
  <2>3. deleting' = deleting /\ call'[c].op \in {"idle", "fail"} /\ \A b \in Callers : CallStep(b)
    BY <1>4, <1>c, <2>2 DEF Attach, CallStep, Good
  <2>4. CASE entry' = entry
    BY <2>3, <2>4 DEF EntryStep, Claims, DeleteStep
  <2>5. ASSUME NEW e, entry' = [entry EXCEPT ![i] = e], e.left = FALSE,
               e.phase = "none" \/ Going(i)
        PROVE  \A j \in Ids : EntryStep(j)
    <3>1. entry'[i] = e /\ \A j \in Ids \ {i} : entry'[j] = entry[j]
      BY <2>1, <2>5 DEF Good
    <3>. QED  BY <2>5, <3>1 DEF EntryStep, Claims
  <2>6. CASE i \in Tracked /\ entry' = Joined(i)
    <3>1. PICK e : /\ Joined(i) = [entry EXCEPT ![i] = e]
                   /\ e.phase \in {"checking", "waiting"} /\ e.left = entry[i].left
                   /\ e.path = entry[i].path /\ e.torrent = entry[i].torrent
      BY <2>1, JoinedFields
    <3>2. entry' = [entry EXCEPT ![i] = e] /\ entry'[i] = e
      BY <2>1, <2>6, <3>1 DEF Good
    <3>3. e.left = FALSE
      BY <3>1, <2>1, EntryFields DEF GoodEntry
    <3>4. Going(i)
      BY <3>1, <3>2, <2>1, <2>3, <2>6, <1>c DEF Going, Tracked
    <3>. HIDE DEF i
    <3>. QED  BY <3>2, <3>3, <3>4, <2>3, <2>5 DEF DeleteStep
  <2>7. CASE entry' = Untrack(i)
    <3>. HIDE DEF i
    <3>. QED  BY <2>7, <2>3, <2>5, UnusedIsGood DEF DeleteStep
  <2>. QED  BY <1>4, <2>4, <2>6, <2>7 DEF Attach
<1>5. CASE TrackErroredLook(c)
  <2>1. PICK found \in LeftData(call[c].torrent, call[c].path, call[c].info),
             apart \in DestMatches(call[c].path) :
          call' = [call EXCEPT ![c] = [op |-> "track", torrent |-> call[c].torrent, path |-> call[c].path,
                                       info |-> call[c].info, found |-> found, apart |-> apart]]
    BY <1>5 DEF TrackErroredLook
  <2>. QED  BY <2>1, <1>5, <1>c, QuietStep DEF TrackErroredLook
<1>6. CASE TrackErrored(c)
  <2>. DEFINE a == call[c]
              n == NewEntry(a.torrent, a.path, a.info, "refused")
  <2>1. PICK i \in Mintable({}) : entry' = [entry EXCEPT ![i] = Refused(n, i, a.found, a.apart)]
    BY <1>6 DEF TrackErrored
  <2>2. a.torrent \in Torrents /\ a.path \in Paths /\ a.info \in BOOLEAN /\ a.found \in BOOLEAN
        /\ Elsewhere(a.apart, a.path)
    BY <1>6, <1>c, CallShape DEF TrackErrored, Tracks, GoodCall
  <2>3. n.torrent = a.torrent /\ n.path = a.path
    BY DEF NewEntry
  <2>. HIDE DEF a
  <2>4. GoodEntry(n)
    BY <2>2, RefusedIsGood
  <2>5. i \in Ids /\ ~Referred(i)
    BY DEF Mintable, Tracked
  <2>. DEFINE e == Refused(n, i, a.found, a.apart)
  <2>. HIDE DEF n
  <2>6. /\ e.phase = "refused" /\ e.torrent = a.torrent /\ e.path = a.path
    BY <2>2, <2>3, <2>4, RefusedFields
  <2>7. e.left => Unclaimed(i, a.torrent, a.path)
    BY <2>2, <2>3, <2>4, RefusalClaims
  <2>8. entry'[i] = e /\ Alone(i)
    BY <2>1, <2>5 DEF Good, Alone
  <2>. HIDE DEF e
  <2>9. EntryStep(i)
    BY <2>5, <2>6, <2>7, <2>8 DEF EntryStep, Fresh, Claims
  <2>10. \A j \in Ids \ {i} : EntryStep(j)
    BY <2>8 DEF EntryStep, Claims, Alone
  <2>11. deleting' = deleting /\ \A b \in Callers : CallStep(b)
    BY <1>6, <1>c, <1>i DEF TrackErrored, CallStep, Good
  <2>. QED  BY <2>9, <2>10, <2>11 DEF DeleteStep
<1>. QED  BY <1>1, <1>2, <1>3, <1>4, <1>5, <1>6 DEF AddNext

LEMMA RemoveSteps ==
    ASSUME Good, RemoveLinks, NEW c \in Removers, RemoveNext(c)
    PROVE  /\ \A j \in Ids : EntryStep(j)
           /\ \A b \in Callers : CallStep(b)
           /\ \A d \in deleting' : DeleteStep(d)
<1>c. c \in Callers /\ GoodCall(call[c])
  BY DEF Good, Callers
<1>1. CASE RemoveLook(c)
  <2>1. PICK i \in Tracked : \E apart \in DestMatches(entry[i].path) :
          call' = [call EXCEPT ![c] = [op |-> "remove", id |-> i, apart |-> apart]]
    BY <1>1 DEF RemoveLook
  <2>2. PICK apart \in DestMatches(entry[i].path) :
          call' = [call EXCEPT ![c] = [op |-> "remove", id |-> i, apart |-> apart]]
    BY <2>1
  <2>3. Elsewhere(apart, entry[i].path)
    BY MatchesElsewhere
  <2>4. /\ call'[c].op = "remove" /\ call'[c].id = i /\ call'[c].apart = apart
        /\ \A b \in Callers \ {c} : call'[b] = call[b]
    BY <2>2, <1>c DEF Good
  <2>5. entry' = entry /\ deleting' = deleting
    BY <1>1 DEF RemoveLook
  <2>6. \A b \in Callers : CallStep(b)
    BY <2>3, <2>4, <2>5 DEF CallStep
  <2>. QED  BY <2>5, <2>6 DEF EntryStep, Claims, DeleteStep
<1>2. CASE Remove(c)
  <2>. DEFINE i == call[c].id
  <2>1. i \in Ids /\ call[c].op = "remove" /\ (i \in Tracked => Elsewhere(call[c].apart, entry[i].path))
    BY <1>2, <1>c, CallShape DEF Remove, Removes, RemoveLinks
  <2>2. \A b \in Callers : CallStep(b)
    BY <1>2, <1>c DEF Remove, CallStep, Good, Idle
  <2>3. CASE UNCHANGED <<entry, deleting>>
    BY <2>2, <2>3 DEF EntryStep, Claims, DeleteStep
  <2>4. CASE /\ i \in Tracked
             /\ entry' = Untrack(i)
             /\ deleting' = IF Deletes(i, call[c].apart)
                            THEN deleting \cup {[id |-> i, path |-> entry[i].path,
                                                 name |-> NameAt(i), over |-> FALSE]}
                            ELSE deleting
    <3>1. entry'[i] = Unused /\ \A j \in Ids \ {i} : entry'[j] = entry[j]
      BY <2>1, <2>4 DEF Good
    <3>2. \A j \in Ids : EntryStep(j)
      BY <3>1, UnusedIsGood DEF EntryStep, Claims
    <3>3. ASSUME NEW d \in deleting', d \notin deleting PROVE DeleteStep(d)
      <4>1. /\ d = [id |-> i, path |-> entry[i].path, name |-> NameAt(i), over |-> FALSE]
            /\ Deletes(i, call[c].apart)
        BY <2>4, <3>3
      <4>. QED  BY <4>1, <2>1, <2>4, <3>1, UnusedIsGood DEF DeleteStep, Alone
    <3>. QED  BY <2>2, <3>2, <3>3 DEF DeleteStep
  <2>. QED  BY <1>2, <2>3, <2>4 DEF Remove
<1>. QED  BY <1>1, <1>2 DEF RemoveNext

LEMMA Steps ==
    ASSUME Good, AttachLinks, RemoveLinks, Next
    PROVE  /\ \A j \in Ids : EntryStep(j)
           /\ \A b \in Callers : CallStep(b)
           /\ \A d \in deleting' : DeleteStep(d)
<1>1. ASSUME NEW d \in deleting, DeleteData(d) \/ EndDelete(d)
      PROVE  /\ \A j \in Ids : EntryStep(j)
             /\ \A b \in Callers : CallStep(b)
             /\ \A e \in deleting' : DeleteStep(e)
  <2>1. d \in Deletions
    BY DEF Good
  <2>2. LET e == [d EXCEPT !.over = TRUE] IN e.id = d.id /\ e.path = d.path /\ e.name = d.name
    BY <2>1 DEF Deletions
  <2>. QED  BY <1>1, <2>2 DEF DeleteData, EndDelete, EntryStep, Claims, CallStep, DeleteStep
<1>. QED  BY <1>1, AddSteps, RemoveSteps, EntrySteps DEF Next, DeleteNext

----------------------------------------------------------------------------
(* One call at a time restores, and holds its record until it is done. *)

LEMMA RestoringStep ==
    ASSUME Good, HasRecord, NEW c \in Callers, NEW x, call' = [call EXCEPT ![c] = x],
           \/ records' = records /\ (Restoring(x) => Restoring(call[c]))
           \/ Restoring(call[c]) /\ ~Restoring(x)
    PROVE  HasRecord'
<1>1. call'[c] = x /\ \A b \in Callers \ {c} : call'[b] = call[b]
  BY DEF Good
<1>2. ASSUME NEW b \in Callers, Restoring(call'[b]) PROVE Restoring(call[b]) /\ records' = records
  BY <1>1, <1>2 DEF HasRecord
<1>3. HasRecord' <=> \A a \in Callers : Restoring(call'[a]) =>
          /\ records' # <<>>
          /\ \A b \in Callers : Restoring(call'[b]) => b = a
  BY DEF HasRecord, Restoring
<1>. QED  BY <1>2, <1>3 DEF HasRecord

LEMMA HasRecordStep ==
    ASSUME Good, HasRecord, Next
    PROVE  HasRecord'
<1>i. ~Restoring(Idle)
  BY DEF Restoring, Idle
<1>f. \A t, p, info : FailCall(t, p, info).op = "fail"
  BY DEF FailCall
<1>1. CASE UNCHANGED <<records, call>>
  BY <1>1 DEF HasRecord, Restoring
<1>2. ASSUME NEW c \in Adders, AddNext(c) PROVE HasRecord'
  <2>c. c \in Callers
    BY DEF Callers
  <2>1. CASE AddLook(c)
    <3>1. PICK torrent, path, info, left :
              call' = [call EXCEPT ![c] = AddCall(torrent, path, info, left, FALSE)]
      BY <2>1 DEF AddLook
    <3>. DEFINE x == AddCall(torrent, path, info, left, FALSE)
    <3>2. ~Restoring(x)
      BY DEF AddCall, Restoring
    <3>. HIDE DEF x
    <3>3. call' = [call EXCEPT ![c] = x] /\ records' = records
      BY <2>1, <3>1 DEF AddLook, x
    <3>. QED  BY <2>c, <3>2, <3>3, RestoringStep
  <2>2. CASE RestoreLook(c)
    <3>1. records' = records /\ records # <<>> /\ \A b \in Callers : call[b] = Idle
      BY <2>2 DEF RestoreLook
    <3>2. \A b \in Callers \ {c} : call'[b] = call[b]
      BY <2>2, <2>c DEF RestoreLook, Good
    <3>3. \A b \in Callers \ {c} : ~Restoring(call'[b])
      BY <3>1, <3>2, <1>i
    <3>. QED  BY <3>1, <3>3 DEF HasRecord, Restoring
  <2>3. CASE FindOrTrack(c)
    <3>. DEFINE a == call[c]
    <3>1. a.op = "add" /\ a.restores \in BOOLEAN
      BY <2>3, <2>c, CallShape DEF FindOrTrack, Good, Adds
    <3>2. CASE call' = [call EXCEPT ![c] = Idle] /\ Restored(a.restores)
      BY <3>1, <3>2, <2>c, <1>i, RestoringStep DEF Restored, Restoring
    <3>3. CASE /\ call' = [call EXCEPT ![c] = IF a.restores THEN FailCall(a.torrent, a.path, a.info) ELSE Idle]
               /\ records' = records
      <4>1. CASE a.restores
        BY <3>1, <3>3, <4>1, <2>c, RestoringStep DEF Restoring
      <4>2. CASE ~a.restores
        BY <3>3, <4>2, <2>c, <1>i, RestoringStep
      <4>. QED  BY <4>1, <4>2
    <3>4. ASSUME NEW i, NEW full \in BOOLEAN,
                 call' = [call EXCEPT ![c] = IF full THEN Idle
                                             ELSE [op |-> "attach", id |-> i, restores |-> a.restores]],
                 Restored(a.restores /\ full)
          PROVE  HasRecord'
      <4>1. CASE full
        BY <3>1, <3>4, <4>1, <2>c, <1>i, RestoringStep DEF Restored, Restoring
      <4>2. CASE ~full
        <5>. DEFINE x == [op |-> "attach", id |-> i, restores |-> a.restores]
        <5>1. records' = records /\ call' = [call EXCEPT ![c] = x]
          BY <3>4, <4>2 DEF Restored
        <5>2. Restoring(x) => Restoring(a)
          BY <3>1 DEF Restoring
        <5>. HIDE DEF x
        <5>. QED  BY <5>1, <5>2, <2>c, RestoringStep
      <4>. QED  BY <4>1, <4>2
    <3>5. (Cardinality(Active) >= MaxActive) \in BOOLEAN
      OBVIOUS
    <3>. HIDE DEF a
    <3>. QED  BY <2>3, <3>2, <3>3, <3>4, <3>5 DEF FindOrTrack, a
  <2>4. CASE Attach(c)
    <3>. DEFINE a == call[c]
    <3>1. a.op = "attach" /\ a.restores \in BOOLEAN
      BY <2>4, <2>c, CallShape DEF Attach, Good, Attaches
    <3>2. CASE call' = [call EXCEPT ![c] = Idle] /\ Restored(a.restores)
      BY <3>1, <3>2, <2>c, <1>i, RestoringStep DEF Restored, Restoring
    <3>3. CASE /\ call' = [call EXCEPT ![c] = IF a.restores
                           THEN FailCall(entry[a.id].torrent, entry[a.id].path, entry[a.id].info) ELSE Idle]
               /\ records' = records
      <4>1. CASE a.restores
        BY <3>1, <3>3, <4>1, <2>c, RestoringStep DEF Restoring
      <4>2. CASE ~a.restores
        BY <3>3, <4>2, <2>c, <1>i, RestoringStep
      <4>. QED  BY <4>1, <4>2
    <3>. QED  BY <2>4, <3>2, <3>3 DEF Attach
  <2>5. CASE TrackErroredLook(c)
    <3>1. call[c].op = "fail" /\ records' = records
      BY <2>5 DEF TrackErroredLook
    <3>2. PICK x : call' = [call EXCEPT ![c] = x]
      BY <2>5 DEF TrackErroredLook
    <3>. QED  BY <3>1, <3>2, <2>c, RestoringStep DEF Restoring
  <2>6. CASE TrackErrored(c)
    BY <2>6, <2>c, <1>i, RestoringStep DEF TrackErrored, Restoring
  <2>. QED  BY <1>2, <2>1, <2>2, <2>3, <2>4, <2>5, <2>6 DEF AddNext
<1>3. ASSUME NEW c \in Removers, RemoveNext(c) PROVE HasRecord'
  <2>c. c \in Callers
    BY DEF Callers
  <2>1. CASE RemoveLook(c)
    <3>1. PICK i, apart : call' = [call EXCEPT ![c] = [op |-> "remove", id |-> i, apart |-> apart]]
      BY <2>1 DEF RemoveLook
    <3>2. ~Restoring([op |-> "remove", id |-> i, apart |-> apart])
      BY DEF Restoring
    <3>. QED  BY <2>1, <3>1, <3>2, <2>c, RestoringStep DEF RemoveLook
  <2>2. CASE Remove(c)
    BY <2>2, <2>c, <1>i, RestoringStep DEF Remove
  <2>. QED  BY <1>3, <2>1, <2>2 DEF RemoveNext
<1>4. ASSUME NEW i \in Ids, EntryNext(i) PROVE HasRecord'
  <2>1. UNCHANGED <<records, call>>
    BY <1>4 DEF EntryNext, Promote, Refuse, AttachPromoted, InfoArrives, MetadataTimeout, CheckInfo,
                AwaitDeletes, Write, RemoveEntry, DeleteByHand, SetPhase, RefuseLook
  <2>. QED  BY <2>1, <1>1
<1>5. ASSUME DeleteNext PROVE HasRecord'
  <2>1. UNCHANGED <<records, call>>
    BY <1>5 DEF DeleteNext, DeleteData, EndDelete
  <2>. QED  BY <2>1, <1>1
<1>. QED  BY <1>2, <1>3, <1>4, <1>5 DEF Next

----------------------------------------------------------------------------
(* The invariant. *)

LEMMA AttachLinksStep ==
    ASSUME Good, Good', AttachLinks, RemoveLinks, Next
    PROVE  AttachLinks'
<1>. SUFFICES ASSUME NEW c \in Callers, call'[c].op = "attach"
              PROVE  /\ entry'[call'[c].id].phase \in {"none", "joining"}
                     /\ \A b \in Callers : call'[b].op = "attach" /\ call'[b].id = call'[c].id => b = c
  BY DEF AttachLinks
<1>. DEFINE i == call'[c].id
<1>0. i \in Ids
  BY CallShape DEF Good, Attaches
<1>s. EntryStep(i) /\ CallStep(c) /\ \A b \in Callers : CallStep(b)
  BY <1>0, Steps
<1>1. CASE call'[c] = call[c]
  <2>1. Referred(i)
    BY <1>1 DEF Referred
  <2>2. entry[i].phase \in {"none", "joining"}
    BY <1>1 DEF AttachLinks
  <2>3. ~Going(i)
    <3>1. ASSUME NEW b \in Callers, call[b].op = "attach", call[b].id = i PROVE call'[b].op = "attach"
      BY <1>1, <3>1 DEF AttachLinks
    <3>. QED  BY <2>2, <3>1 DEF Going
  <2>4. entry'[i].phase \in {"none", "joining"}
    BY <1>s, <2>1, <2>2, <2>3 DEF EntryStep, Fresh
  <2>5. ASSUME NEW b \in Callers, call'[b].op = "attach", call'[b].id = i PROVE b = c
    <3>1. call'[b] = call[b]
      BY <1>s, <2>1, <2>5 DEF CallStep
    <3>. QED  BY <1>1, <2>5, <3>1 DEF AttachLinks
  <2>. QED  BY <2>4, <2>5
<1>2. CASE /\ ~Referred(i)
           /\ entry'[i].phase = "joining"
           /\ \A b \in Callers \ {c} : call'[b] = call[b]
  BY <1>2 DEF Referred
<1>. QED  BY <1>s, <1>1, <1>2 DEF CallStep

LEMMA RemoveLinksStep ==
    ASSUME Good, Good', AttachLinks, RemoveLinks, Next
    PROVE  RemoveLinks'
<1>. SUFFICES ASSUME NEW c \in Callers, call'[c].op = "remove", entry'[call'[c].id].phase # "none"
              PROVE  Elsewhere(call'[c].apart, entry'[call'[c].id].path)
  BY DEF RemoveLinks, Tracked, Elsewhere
<1>. DEFINE i == call'[c].id
<1>0. i \in Ids
  BY CallShape DEF Good, Removes
<1>s. EntryStep(i) /\ CallStep(c)
  BY <1>0, Steps
<1>1. CASE call'[c] = call[c]
  <2>1. Referred(i)
    BY <1>1 DEF Referred
  <2>2. entry'[i] = entry[i] \/ Going(i)
    BY <1>s, <2>1 DEF EntryStep, Fresh
  <2>3. i \in Tracked /\ entry'[i].path = entry[i].path
    BY <1>0, <2>2 DEF Going, Tracked
  <2>. QED  BY <1>1, <2>3 DEF RemoveLinks
<1>2. CASE entry' = entry /\ Elsewhere(call'[c].apart, entry[i].path)
  BY <1>2
<1>. QED  BY <1>s, <1>1, <1>2 DEF CallStep

LEMMA DeleteLinksStep ==
    ASSUME Good, Good', AttachLinks, RemoveLinks, DeleteLinks, Next
    PROVE  DeleteLinks'
<1>. SUFFICES ASSUME NEW d \in deleting' PROVE entry'[d.id].phase = "none"
  BY DEF DeleteLinks
<1>s. DeleteStep(d)
  BY Steps
<1>1. ASSUME NEW e \in deleting, e.id = d.id PROVE entry'[d.id].phase = "none"
  <2>1. d.id \in Ids /\ Referred(d.id) /\ entry[d.id].phase = "none"
    BY <1>1 DEF Good, Deletions, Referred, DeleteLinks
  <2>2. EntryStep(d.id)
    BY <2>1, Steps
  <2>. QED  BY <2>1, <2>2 DEF EntryStep, Going, Fresh
<1>. QED  BY <1>s, <1>1 DEF DeleteStep

LEMMA ClearStep ==
    ASSUME Good, Good', AttachLinks, RemoveLinks, Clear, Next
    PROVE  Clear'
<1>. SUFFICES ASSUME NEW d \in deleting', NEW i \in Ids, entry'[i].phase = "running",
                     DataOf(i)' = Where(d.path, d.name)
              PROVE  FALSE
  BY DEF Clear, Where
<1>s. EntryStep(i) /\ DeleteStep(d)
  BY Steps
<1>1. \/ entry[i].phase = "running" /\ entry'[i] = entry[i]
      \/ Awaited(i) = {} /\ deleting' = deleting
  BY <1>s DEF EntryStep, Going, Fresh
<1>2. entry'[i].path = entry[i].path /\ entry'[i].torrent = entry[i].torrent
  BY <1>s DEF EntryStep, Going, Fresh
<1>3. DataOf(i) = Where(d.path, d.name)
  BY <1>2 DEF DataOf, NameAt, Where
<1>4. DirOf[entry[i].path] = DirOf[d.path] /\ NameAt(i) = d.name
  BY <1>3, SamePlace
<1>5. CASE Awaited(i) = {} /\ deleting' = deleting
  BY <1>4, <1>5 DEF Awaited
<1>6. CASE entry[i].phase = "running" /\ entry'[i] = entry[i]
  <2>1. ASSUME NEW e \in deleting, e.path = d.path, e.name = d.name PROVE FALSE
    BY <1>3, <1>6, <2>1 DEF Clear
  <2>2. ASSUME d.id \in Tracked, entry'[d.id].phase = "none", d.path = entry[d.id].path, d.name = NameAt(d.id),
               NEW apart, Elsewhere(apart, entry[d.id].path), Deletes(d.id, apart)
        PROVE  FALSE
    <3>1. i \in Tracked \ {d.id}
      BY <1>6, <2>2 DEF Tracked
    <3>2. i \in Beside(d.id, entry[d.id].path, apart)
      BY <3>1, <1>4, <2>2, SameDirIsBeside
    <3>3. HasName(i, NameAt(d.id))
      BY <1>4, <1>6, <2>2 DEF HasName, Knows, Good, GoodEntry
    <3>4. Taken(d.id, NameAt(d.id), entry[d.id].path, apart)
      BY <3>2, <3>3 DEF Taken
    <3>. QED  BY <3>4, <2>2 DEF Deletes
  <2>. QED  BY <1>s, <2>1, <2>2 DEF DeleteStep
<1>. QED  BY <1>1, <1>5, <1>6

LEMMA OneOwnerStep ==
    ASSUME Good, Good', AttachLinks, RemoveLinks, OneOwner, Next
    PROVE  OneOwner'
<1>1. ASSUME NEW i \in Ids, NEW j \in Ids, i # j, Claims(i), entry'[i] # entry[i], entry'[i].left,
             entry'[j].phase = "refused", entry'[j].left, DataOf(i)' = DataOf(j)'
      PROVE  FALSE
  <2>1. Alone(i) /\ Unclaimed(i, entry'[i].torrent, entry'[i].path)
    BY <1>1 DEF Claims
  <2>2. entry'[j] = entry[j] /\ j \in Tracked \ {i}
    BY <1>1, <2>1 DEF Alone, Tracked
  <2>3. PICK apart : /\ Elsewhere(apart, entry'[i].path)
                     /\ ~Taken(i, NameOf[entry'[i].torrent], entry'[i].path, apart)
    BY <2>1 DEF Unclaimed
  <2>4. DirOf[entry[j].path] = DirOf[entry'[i].path] /\ NameAt(j) = NameOf[entry'[i].torrent]
    BY <1>1, <2>2 DEF DataOf, NameAt, Where
  <2>5. j \in Beside(i, entry'[i].path, apart)
    BY <2>2, <2>3, <2>4, SameDirIsBeside
  <2>6. HasName(j, NameOf[entry'[i].torrent])
    BY <1>1, <2>2, <2>4 DEF HasName, Knows
  <2>. QED  BY <2>3, <2>5, <2>6 DEF Taken
<1>. SUFFICES ASSUME NEW i \in Ids, NEW j \in Ids, i # j,
                     entry'[i].phase = "refused", entry'[i].left,
                     entry'[j].phase = "refused", entry'[j].left, DataOf(i)' = DataOf(j)'
              PROVE  FALSE
  BY DEF OneOwner, Tracked
<1>2. Claims(i) /\ Claims(j)
  BY Steps DEF EntryStep
<1>3. entry'[i] = entry[i] /\ entry'[j] = entry[j]
  BY <1>1, <1>2
<1>4. i \in Tracked /\ j \in Tracked /\ DataOf(i) = DataOf(j)
  BY <1>3 DEF Tracked, DataOf, NameAt, Where
<1>. QED  BY <1>3, <1>4 DEF OneOwner

LEMMA InitOK == Init => IInv
<1>. SUFFICES ASSUME Init PROVE IInv
  OBVIOUS
<1>1. \A i \in Ids : entry[i] = Unused
  BY DEF Init
<1>2. \A c \in Callers : call[c] = Idle
  BY DEF Init
<1>3. Good
  <2>1. Unused \in Entries
    BY UnusedIsGood DEF GoodEntry
  <2>2. disk \subseteq Data
    BY DirOfAssumption DEF Init, Where, Data
  <2>. QED  BY <1>1, <1>2, <2>1, <2>2, UnusedIsGood, IdleIsGood DEF Init, Good
<1>4. AttachLinks /\ RemoveLinks /\ HasRecord
  BY <1>2 DEF AttachLinks, RemoveLinks, HasRecord, Restoring, Idle
<1>5. DeleteLinks /\ Clear
  BY DEF Init, DeleteLinks, Clear
<1>6. OneOwner
  BY <1>1, UnusedIsGood DEF OneOwner, Tracked
<1>. QED  BY <1>3, <1>4, <1>5, <1>6 DEF IInv

LEMMA NextOK == IInv /\ [Next]_vars => IInv'
<1>. SUFFICES ASSUME IInv, [Next]_vars PROVE IInv'
  OBVIOUS
<1>1. CASE Next
  <2>1. Good'
    BY <1>1, GoodStep DEF IInv
  <2>. QED  BY <1>1, <2>1, HasRecordStep, AttachLinksStep, RemoveLinksStep, DeleteLinksStep,
            ClearStep, OneOwnerStep DEF IInv
<1>2. CASE UNCHANGED vars
  BY <1>2 DEF IInv, Good, HasRecord, Restoring, AttachLinks, RemoveLinks, DeleteLinks, Clear, OneOwner,
              Tracked, DataOf, NameAt, Where, GoodEntry, GoodCall, Elsewhere
<1>. QED  BY <1>1, <1>2

THEOREM OwnershipInv == Spec => []IInv
BY InitOK, NextOK, PTL DEF Spec

----------------------------------------------------------------------------
(* What the engine promises of data on disk. *)

\* Of any number of refused entries whose data has one name in one directory,
\* however that directory is written, at most one claims it (keepLeftLocked).
THEOREM OneClaims == Spec => []OneOwner
<1>1. IInv => OneOwner
  BY DEF IInv
<1>. QED  BY <1>1, OwnershipInv, PTL

\* No delete takes what a running torrent may have written: none is under way
\* when it begins to run (awaitDeletes), and none is decided on while it does
\* (removeTargetLocked).
THEOREM RunningKeepsData == Spec => WritesSurvive
<1>. DEFINE Kept == deleting' # deleting =>
        \A i \in Tracked : entry[i].phase = "running" /\ DataOf(i) \in disk => DataOf(i) \in disk'
<1>1. IInv /\ [Next]_vars => [Kept]_vars
  <2>. SUFFICES ASSUME IInv, Next, deleting' # deleting, NEW i \in Tracked,
                       entry[i].phase = "running", DataOf(i) \in disk
                PROVE  DataOf(i) \in disk'
    OBVIOUS
  <2>1. CASE disk' = disk
    BY <2>1
  <2>2. ASSUME NEW d \in deleting, DeleteData(d) PROVE DataOf(i) \in disk'
    <3>1. DataOf(i) # Where(d.path, d.name)
      BY DEF IInv, Clear, Tracked
    <3>. QED  BY <2>2, <3>1 DEF DeleteData
  <2>3. ASSUME NEW d \in deleting, EndDelete(d) PROVE disk' = disk
    BY <2>3 DEF EndDelete
  <2>4. ASSUME NEW c \in Adders, AddNext(c) PROVE disk' = disk
    BY <2>4 DEF AddNext, AddLook, RestoreLook, FindOrTrack, Attach, TrackErroredLook, TrackErrored
  <2>5. ASSUME NEW c \in Removers, RemoveNext(c) PROVE disk' = disk
    BY <2>5 DEF RemoveNext, RemoveLook, Remove
  <2>6. ASSUME NEW j \in Ids, EntryNext(j) PROVE deleting' = deleting
    BY <2>6 DEF EntryNext, Promote, Refuse, AttachPromoted, InfoArrives, MetadataTimeout, CheckInfo,
                AwaitDeletes, Write, RemoveEntry, DeleteByHand, SetPhase, RefuseLook
  <2>. QED  BY <2>1, <2>2, <2>3, <2>4, <2>5, <2>6 DEF Next, DeleteNext
<1>. QED  BY <1>1, OwnershipInv, PTL DEF Spec, WritesSurvive

\* A call that is to add a torrent does so in one step.
LEMMA AddsAtOnce ==
    ASSUME Good, Next, NEW c \in Callers, call[c].op = "add", call'[c] # call[c]
    PROVE  FindOrTrack(c)
<1>i. Idle.op = "idle"
  BY DEF Idle
<1>1. ASSUME NEW b \in Callers, NEW x, call' = [call EXCEPT ![b] = x] PROVE b = c
  BY <1>1 DEF Good
<1>2. ASSUME NEW b \in Adders, AddNext(b) PROVE FindOrTrack(c)
  <2>b. b \in Callers
    BY DEF Callers
  <2>1. CASE FindOrTrack(b)
    <3>1. PICK x : call' = [call EXCEPT ![b] = x]
      BY <2>1 DEF FindOrTrack
    <3>. QED  BY <2>1, <2>b, <3>1, <1>1
  <2>2. CASE AddLook(b)
    <3>1. call[b] = Idle /\ \E x : call' = [call EXCEPT ![b] = x]
      BY <2>2 DEF AddLook
    <3>. QED  BY <2>b, <3>1, <1>1, <1>i
  <2>3. CASE RestoreLook(b)
    <3>1. call[c] = Idle
      BY <2>3 DEF RestoreLook
    <3>. QED  BY <3>1, <1>i
  <2>4. CASE Attach(b)
    <3>1. call[b].op = "attach" /\ \E x : call' = [call EXCEPT ![b] = x]
      BY <2>4 DEF Attach
    <3>. QED  BY <2>b, <3>1, <1>1
  <2>5. CASE TrackErroredLook(b)
    <3>1. call[b].op = "fail" /\ \E x : call' = [call EXCEPT ![b] = x]
      BY <2>5 DEF TrackErroredLook
    <3>. QED  BY <2>b, <3>1, <1>1
  <2>6. CASE TrackErrored(b)
    <3>1. call[b].op = "track" /\ \E x : call' = [call EXCEPT ![b] = x]
      BY <2>6 DEF TrackErrored
    <3>. QED  BY <2>b, <3>1, <1>1
  <2>. QED  BY <1>2, <2>1, <2>2, <2>3, <2>4, <2>5, <2>6 DEF AddNext
<1>3. ASSUME NEW b \in Removers, RemoveNext(b) PROVE FALSE
  <2>b. b \in Callers
    BY DEF Callers
  <2>1. CASE RemoveLook(b)
    <3>1. call[b] = Idle /\ \E x : call' = [call EXCEPT ![b] = x]
      BY <2>1 DEF RemoveLook
    <3>. QED  BY <2>b, <3>1, <1>1, <1>i
  <2>2. CASE Remove(b)
    <3>1. call[b].op = "remove" /\ \E x : call' = [call EXCEPT ![b] = x]
      BY <2>2 DEF Remove
    <3>. QED  BY <2>b, <3>1, <1>1
  <2>. QED  BY <1>3, <2>1, <2>2 DEF RemoveNext
<1>4. ASSUME NEW i \in Ids, EntryNext(i) PROVE FALSE
  BY <1>4 DEF EntryNext, Promote, Refuse, AttachPromoted, InfoArrives, MetadataTimeout, CheckInfo,
              AwaitDeletes, Write, RemoveEntry, DeleteByHand, SetPhase, RefuseLook
<1>5. ASSUME DeleteNext PROVE FALSE
  BY <1>5 DEF DeleteNext, DeleteData, EndDelete
<1>. QED  BY <1>2, <1>3, <1>4, <1>5 DEF Next

\* What a refused entry left is not forgotten by an add of its torrent
\* elsewhere, whatever that add saw before the lock (claimInfoHashLocked).
THEOREM LeftIsKept == Spec => LeftIsNotForgotten
<1>. DEFINE Kept == \A c \in Callers : call[c].op = "add" /\ call'[c] # call[c] =>
        \A i \in LeftOf(call[c].torrent) :
            \/ DataOf(i) \in call[c].left.gone
            \/ DirOf[entry[i].path] = DirOf[call[c].path]
            \/ entry'[i] = entry[i]
<1>1. IInv /\ [Next]_vars => [Kept]_vars
  <2>. SUFFICES ASSUME IInv, Next, NEW c \in Callers, call[c].op = "add", call'[c] # call[c],
                       NEW i \in LeftOf(call[c].torrent),
                       DataOf(i) \notin call[c].left.gone,
                       DirOf[entry[i].path] # DirOf[call[c].path]
                PROVE  entry'[i] = entry[i]
    OBVIOUS
  <2>1. FindOrTrack(c)
    BY AddsAtOnce DEF IInv
  <2>2. \A p \in call[c].left.same : DirOf[p] = DirOf[call[c].path]
    BY DEF IInv, Good, GoodCall
  <2>3. i \in Leaving(call[c].torrent, call[c].path, call[c].left)
    BY <2>2 DEF Leaving, IsSameDir
  <2>. QED  BY <2>1, <2>3 DEF FindOrTrack
<1>. QED  BY <1>1, OwnershipInv, PTL DEF Spec, LeftIsNotForgotten

\* The remove of a refused entry deletes nothing another refused entry has
\* deferred about in that directory (sharedName).
THEOREM DeferredKept == Spec => DeferredIsKept
<1>. DEFINE Kept == \A d \in deleting' \ deleting :
        entry[d.id].phase = "refused" =>
            \A j \in Tracked \ {d.id} : ~(entry[j].shared /\ DataOf(j) = Where(d.path, d.name))
<1>1. IInv /\ [Next]_vars => [Kept]_vars
  <2>. SUFFICES ASSUME IInv, Next, NEW d \in deleting' \ deleting, entry[d.id].phase = "refused",
                       NEW j \in Tracked \ {d.id}, entry[j].shared, DataOf(j) = Where(d.path, d.name)
                PROVE  FALSE
    OBVIOUS
  <2>1. DeleteStep(d)
    BY Steps DEF IInv
  <2>2. ~\E e \in deleting : e.id = d.id
    BY DEF IInv, DeleteLinks
  <2>3. PICK apart : Elsewhere(apart, entry[d.id].path) /\ Deletes(d.id, apart)
    BY <2>1, <2>2 DEF DeleteStep
  <2>4. d.path = entry[d.id].path /\ d.name = NameAt(d.id)
    BY <2>1, <2>2 DEF DeleteStep
  <2>5. DirOf[entry[j].path] = DirOf[entry[d.id].path] /\ NameAt(j) = NameAt(d.id)
    BY <2>4, SamePlace
  <2>6. j \in Beside(d.id, entry[d.id].path, apart)
    BY <2>3, <2>5, SameDirIsBeside
  <2>7. entry[j].phase = "refused"
    BY DEF IInv, Good, GoodEntry, Tracked
  <2>8. SharedNameKept(d.id, NameAt(d.id), entry[d.id].path, apart)
    BY <2>5, <2>6, <2>7 DEF SharedNameKept
  <2>. QED  BY <2>3, <2>8 DEF Deletes
<1>. QED  BY <1>1, OwnershipInv, PTL DEF Spec, DeferredIsKept

\* Neither an add of the torrent elsewhere nor the remove of another refused
\* entry takes what a refused entry left (claimInfoHashLocked, sharedName).
THEOREM RefusedKeepTheirData == Spec => LeftDataKept
<1>. QED  BY LeftIsKept, DeferredKept DEF LeftDataKept
=============================================================================

----------------------------- MODULE StoreProofs -----------------------------
(***************************************************************************)
(* The session database: what a clean store has in memory is in the file   *)
(* and reads back in order, and what a Close keeps of a clear.             *)
(***************************************************************************)
EXTENDS Store, FiniteSetTheorems, SequenceTheorems, TLAPS

\* Entries are recorded by a change, the first of which is 1.
Entries == [seq : Nat, at : Nat \ {0}]

----------------------------------------------------------------------------
(* A history and its bucket. *)

\* A history the store may hold when it has numbered n entries and made c
\* changes.
Ordered(h, n, c) ==
    /\ h \in Seq(Entries)
    /\ \A k, l \in DOMAIN h : k < l => h[k].seq < h[l].seq /\ h[k].at < h[l].at
    /\ \A k \in DOMAIN h : h[k].seq <= n /\ h[k].at <= c

LEMMA HistoryShape ==
    ASSUME NEW h, NEW n, NEW c, Ordered(h, n, c)
    PROVE  /\ Len(h) \in Nat /\ DOMAIN h = 1 .. Len(h)
           /\ \A k \in DOMAIN h : h[k] \in Entries /\ h[k].seq \in Nat /\ h[k].at \in Nat /\ h[k].at > 0
<1>1. Len(h) \in Nat /\ DOMAIN h = 1 .. Len(h) /\ \A k \in DOMAIN h : h[k] \in Entries
  BY DEF Ordered
<1>2. \A e \in Entries : e.seq \in Nat /\ e.at \in Nat /\ e.at > 0
  BY DEF Entries
<1>. QED  BY <1>1, <1>2

\* Every entry of an ordered history has a number of its own.
LEMMA BucketHolds ==
    ASSUME NEW h, NEW n \in Nat, NEW c \in Nat, Ordered(h, n, c)
    PROVE  ToBucket(h) = {h[k] : k \in DOMAIN h}
<1>1. DOMAIN h = 1 .. Len(h) /\ Len(h) \in Nat /\ \A k \in DOMAIN h : h[k] \in Entries
  BY DEF Ordered
<1>2. ASSUME NEW m \in DOMAIN h, NEW l \in DOMAIN h, h[l].seq = h[m].seq PROVE l <= m
  <2>1. h[m].seq \in Nat /\ ~(h[m].seq < h[m].seq)
    BY <1>1 DEF Entries
  <2>2. ~(m < l)
    BY <1>2, <2>1 DEF Ordered
  <2>. QED  BY <1>1, <2>2
<1>. DEFINE last == {m \in DOMAIN h : \A l \in DOMAIN h : h[l].seq = h[m].seq => l <= m}
<1>3. last = DOMAIN h
  BY <1>2
<1>4. ToBucket(h) = {h[k] : k \in last}
  BY DEF ToBucket
<1>. HIDE DEF last
<1>. QED  BY <1>3, <1>4

\* The n-th entry of an ordered history is the one with n numbers up to its own.
LEMMA BucketCounts ==
    ASSUME NEW h, NEW n \in Nat, NEW c \in Nat, Ordered(h, n, c), NEW k \in DOMAIN h
    PROVE  LET upto == {f \in ToBucket(h) : f.seq <= h[k].seq}
           IN IsFiniteSet(upto) /\ Cardinality(upto) = k
<1>. DEFINE upto == {f \in ToBucket(h) : f.seq <= h[k].seq}
            g == [j \in 1 .. k |-> h[j]]
<1>1. DOMAIN h = 1 .. Len(h) /\ Len(h) \in Nat /\ k \in 1 .. Len(h)
      /\ \A j \in DOMAIN h : h[j] \in Entries /\ h[j].seq \in Nat
  BY HistoryShape
<1>2. \A j \in DOMAIN h : h[j].seq <= h[k].seq <=> j <= k
  <2>1. ASSUME NEW j \in DOMAIN h PROVE h[j].seq <= h[k].seq <=> j <= k
    <3>1. CASE j < k
      BY <1>1, <3>1 DEF Ordered
    <3>2. CASE j = k
      BY <1>1, <3>2
    <3>3. CASE k < j
      <4>1. h[k].seq < h[j].seq
        BY <3>3 DEF Ordered
      <4>. QED  BY <1>1, <3>3, <4>1
    <3>. QED  BY <1>1, <3>1, <3>2, <3>3
  <2>. QED  BY <2>1
<1>3. upto = {h[j] : j \in 1 .. k}
  <2>1. ToBucket(h) = {h[j] : j \in DOMAIN h}
    BY BucketHolds
  <2>2. \A j \in 1 .. k : j \in DOMAIN h
    BY <1>1
  <2>. QED  BY <1>1, <1>2, <2>1, <2>2
<1>4. g \in Bijection(1 .. k, upto)
  <2>1. g \in [1 .. k -> upto] /\ \A e \in upto : \E j \in 1 .. k : g[j] = e
    BY <1>3
  <2>2. \A i, j \in 1 .. k : g[i] = g[j] => i = j
    <3>1. ASSUME NEW i \in 1 .. k, NEW j \in 1 .. k, h[i] = h[j], i < j PROVE FALSE
      <4>1. i \in DOMAIN h /\ j \in DOMAIN h
        BY <1>1
      <4>2. h[i].seq < h[j].seq
        BY <3>1, <4>1 DEF Ordered
      <4>. QED  BY <1>1, <3>1, <4>1, <4>2
    <3>2. \A i, j \in 1 .. k : i = j \/ i < j \/ j < i
      BY <1>1
    <3>. QED  BY <3>1, <3>2
  <2>. HIDE DEF g, upto
  <2>3. g \in Injection(1 .. k, upto)
    BY <2>1, <2>2 DEF Injection, IsInjective
  <2>4. g \in Surjection(1 .. k, upto)
    BY <2>1 DEF Surjection
  <2>. QED  BY <2>3, <2>4 DEF Bijection
<1>5. IsFiniteSet(1 .. k) /\ Cardinality(1 .. k) = k
  BY <1>1, FS_Interval
<1>6. ExistsBijection(1 .. k, upto)
  BY <1>4 DEF ExistsBijection
<1>. HIDE DEF upto
<1>7. IsFiniteSet(upto) /\ Cardinality(upto) = k
  BY <1>5, <1>6, FS_Bijection
<1>. QED  BY <1>7 DEF upto

\* What is written reads back as it was.
LEMMA BucketReadsBack ==
    ASSUME NEW h, NEW n \in Nat, NEW c \in Nat, Ordered(h, n, c)
    PROVE  FromBucket(ToBucket(h)) = h
<1>1. DOMAIN h = 1 .. Len(h) /\ Len(h) \in Nat /\ h = [k \in 1 .. Len(h) |-> h[k]]
  BY DEF Ordered
<1>2. ToBucket(h) = {h[k] : k \in DOMAIN h}
  BY BucketHolds
<1>3. Cardinality(ToBucket(h)) = Len(h)
  <2>1. CASE h = <<>>
    <3>1. ToBucket(h) = {}
      BY <1>2, <2>1
    <3>. QED  BY <2>1, <3>1, FS_EmptySet
  <2>2. CASE h # <<>>
    <3>1. Len(h) \in DOMAIN h /\ Len(h) \in 1 .. Len(h)
      BY <1>1, <2>2
    <3>2. \A e \in ToBucket(h) : e.seq <= h[Len(h)].seq
      <4>1. ASSUME NEW j \in DOMAIN h PROVE h[j].seq <= h[Len(h)].seq
        <5>1. h[j] \in Entries /\ h[Len(h)] \in Entries
          BY <3>1 DEF Ordered
        <5>2. CASE j = Len(h)
          BY <5>1, <5>2 DEF Entries
        <5>3. CASE j # Len(h)
          <6>1. h[j].seq < h[Len(h)].seq
            BY <1>1, <3>1, <5>3 DEF Ordered
          <6>. QED  BY <5>1, <6>1 DEF Entries
        <5>. QED  BY <5>2, <5>3
      <4>. QED  BY <1>2, <4>1
    <3>3. {f \in ToBucket(h) : f.seq <= h[Len(h)].seq} = ToBucket(h)
      BY <3>2
    <3>. QED  BY <3>1, <3>3, BucketCounts
  <2>. QED  BY <2>1, <2>2
<1>4. ASSUME NEW k \in DOMAIN h
      PROVE  (CHOOSE e \in ToBucket(h) : Cardinality({f \in ToBucket(h) : f.seq <= e.seq}) = k) = h[k]
  <2>1. h[k] \in ToBucket(h) /\ Cardinality({f \in ToBucket(h) : f.seq <= h[k].seq}) = k
    BY <1>2, BucketCounts
  <2>2. ASSUME NEW e \in ToBucket(h), Cardinality({f \in ToBucket(h) : f.seq <= e.seq}) = k PROVE e = h[k]
    <3>1. PICK j \in DOMAIN h : e = h[j]
      BY <1>2
    <3>2. Cardinality({f \in ToBucket(h) : f.seq <= h[j].seq}) = j
      BY BucketCounts
    <3>. QED  BY <2>2, <3>1, <3>2
  <2>. QED  BY <2>1, <2>2
<1>. DEFINE Read(k) == CHOOSE e \in ToBucket(h) : Cardinality({f \in ToBucket(h) : f.seq <= e.seq}) = k
<1>5. FromBucket(ToBucket(h)) = [k \in 1 .. Cardinality(ToBucket(h)) |-> Read(k)]
  BY DEF FromBucket
<1>6. \A k \in 1 .. Len(h) : Read(k) = h[k]
  BY <1>1, <1>4
<1>. HIDE DEF Read
<1>. QED  BY <1>1, <1>3, <1>5, <1>6

\* The numbering goes on from the last entry that was saved.
LEMMA LastSeqOrders ==
    ASSUME NEW h, NEW n \in Nat, NEW c \in Nat, Ordered(h, n, c)
    PROVE  LastSeq(ToBucket(h)) \in Nat /\ Ordered(h, LastSeq(ToBucket(h)), c)
<1>1. DOMAIN h = 1 .. Len(h) /\ Len(h) \in Nat /\ \A k \in DOMAIN h : h[k] \in Entries /\ h[k].seq \in Nat
  BY HistoryShape
<1>2. ToBucket(h) = {h[k] : k \in DOMAIN h}
  BY BucketHolds
<1>3. CASE h = <<>>
  BY <1>1, <1>2, <1>3 DEF LastSeq, Ordered
<1>4. CASE h # <<>>
  <2>. DEFINE seqs == {e.seq : e \in ToBucket(h)}
              Last(m) == \A e \in ToBucket(h) : e.seq <= m
  <2>1. Len(h) \in DOMAIN h /\ ToBucket(h) # {}
    BY <1>1, <1>2, <1>4
  <2>2. h[Len(h)].seq \in seqs /\ Last(h[Len(h)].seq)
    <3>1. ASSUME NEW j \in DOMAIN h PROVE h[j].seq <= h[Len(h)].seq
      <4>1. CASE j = Len(h)
        BY <1>1, <4>1
      <4>2. CASE j # Len(h)
        <5>1. h[j].seq < h[Len(h)].seq
          BY <1>1, <2>1, <4>2 DEF Ordered
        <5>. QED  BY <1>1, <2>1, <5>1
      <4>. QED  BY <4>1, <4>2
    <3>. QED  BY <1>2, <2>1, <3>1
  <2>3. LastSeq(ToBucket(h)) = CHOOSE m \in seqs : Last(m)
    BY <2>1 DEF LastSeq
  <2>. HIDE DEF Last
  <2>4. LastSeq(ToBucket(h)) \in seqs /\ Last(LastSeq(ToBucket(h)))
    BY <2>2, <2>3
  <2>5. LastSeq(ToBucket(h)) \in Nat
    BY <1>1, <1>2, <2>4
  <2>6. \A k \in DOMAIN h : h[k].seq <= LastSeq(ToBucket(h))
    BY <1>2, <2>4 DEF Last
  <2>. QED  BY <2>5, <2>6 DEF Ordered
<1>. QED  BY <1>3, <1>4

\* AddHistory: the new entry is the last, the oldest ones go.
LEMMA AppendOrders ==
    ASSUME NEW h, NEW n \in Nat, NEW c \in Nat, Ordered(h, n, c)
    PROVE  Ordered(Trimmed(Append(h, [seq |-> n + 1, at |-> c + 1])), n + 1, c + 1)
<1>. DEFINE e == [seq |-> n + 1, at |-> c + 1]
            a == Append(h, e)
<1>1. /\ h \in Seq(Entries) /\ e \in Entries /\ Len(h) \in Nat /\ DOMAIN h = 1 .. Len(h)
      /\ \A k \in DOMAIN h : h[k] \in Entries /\ h[k].seq \in Nat /\ h[k].at \in Nat
  <2>1. e \in Entries
    BY DEF Entries
  <2>2. h \in Seq(Entries)
    BY DEF Ordered
  <2>. QED  BY <2>1, <2>2, HistoryShape
<1>2. /\ a \in Seq(Entries) /\ Len(a) = Len(h) + 1 /\ DOMAIN a = 1 .. Len(a)
      /\ \A k \in DOMAIN h : a[k] = h[k]
      /\ a[Len(h) + 1] = e
  BY <1>1
<1>3. ASSUME NEW k \in DOMAIN a PROVE k \in DOMAIN h \/ (k = Len(h) + 1 /\ a[k] = e)
  BY <1>1, <1>2
<1>4. Ordered(a, n + 1, c + 1)
  <2>1. \A k \in DOMAIN a : a[k].seq <= n + 1 /\ a[k].at <= c + 1
    BY <1>1, <1>2, <1>3 DEF Ordered
  <2>2. ASSUME NEW k \in DOMAIN a, NEW l \in DOMAIN a, k < l
        PROVE  a[k].seq < a[l].seq /\ a[k].at < a[l].at
    <3>1. k \in DOMAIN h
      BY <1>1, <1>2, <2>2
    <3>2. CASE l \in DOMAIN h
      BY <1>2, <2>2, <3>1, <3>2 DEF Ordered
    <3>3. CASE l = Len(h) + 1
      BY <1>1, <1>2, <3>1, <3>3 DEF Ordered
    <3>. QED  BY <1>3, <3>2, <3>3
  <2>. HIDE DEF a, e
  <2>. QED  BY <1>2, <2>1, <2>2 DEF Ordered
<1>. HIDE DEF a, e
<1>5. PICK m \in Nat : /\ 1 <= m /\ m <= Len(a) + 1
                       /\ Trimmed(a) = SubSeq(a, m, Len(a))
  <2>1. CASE Len(a) > MaxHistory
    <3>1. Len(a) - MaxHistory + 1 \in Nat /\ 1 <= Len(a) - MaxHistory + 1 /\ Len(a) - MaxHistory + 1 <= Len(a) + 1
      BY <1>1, <1>2, <2>1, HistoryAssumption
    <3>. QED  BY <2>1, <3>1 DEF Trimmed
  <2>2. CASE ~(Len(a) > MaxHistory)
    BY <1>1, <1>2, <2>2 DEF Trimmed
  <2>. QED  BY <2>1, <2>2
<1>6. PICK s : s = SubSeq(a, m, Len(a))
  OBVIOUS
<1>7. /\ Len(s) \in Nat /\ DOMAIN s = 1 .. Len(s) /\ Len(s) = Len(a) - m + 1
      /\ s \in Seq(Entries)
      /\ \A k \in 1 .. Len(s) : s[k] = a[m + k - 1]
  BY <1>1, <1>2, <1>5, <1>6, SubSeqProperties
<1>8. \A k \in DOMAIN s : m + k - 1 \in DOMAIN a
  BY <1>1, <1>2, <1>5, <1>7
<1>9. Ordered(s, n + 1, c + 1)
  <2>1. \A k \in DOMAIN s : s[k].seq <= n + 1 /\ s[k].at <= c + 1
    BY <1>4, <1>7, <1>8 DEF Ordered
  <2>2. ASSUME NEW k \in DOMAIN s, NEW l \in DOMAIN s, k < l
        PROVE  s[k].seq < s[l].seq /\ s[k].at < s[l].at
    <3>1. m + k - 1 < m + l - 1
      BY <1>7, <2>2
    <3>. QED  BY <1>4, <1>7, <1>8, <2>2, <3>1 DEF Ordered
  <2>. QED  BY <1>7, <2>1, <2>2 DEF Ordered
<1>. QED  BY <1>5, <1>6, <1>9 DEF a, e

LEMMA OrderGrows ==
    ASSUME NEW h, NEW n \in Nat, NEW m \in Nat, NEW c \in Nat, NEW d \in Nat,
           Ordered(h, n, c), n <= m, c <= d
    PROVE  Ordered(h, m, d)
<1>1. \A k \in DOMAIN h : h[k] \in Entries
  BY DEF Ordered
<1>. QED  BY <1>1 DEF Ordered, Entries

----------------------------------------------------------------------------
(* What a clean store has in memory is in the file. *)

Places == {"idle", "flush", "write", "stopped", "stop", "file", "done"}

Buckets == {"torrents", "history", "prefs", "destinations"}

\* m is a memory of a store that has numbered n entries and made c changes.
Memory(m, n, c) ==
    /\ DOMAIN m = Buckets
    /\ m = [b \in Buckets |-> m[b]]
    /\ Ordered(m.history, n, c)

(***************************************************************************)
(* Every snapshot, and whatever the file is an image of, is a memory in    *)
(* order: whichever reaches the file, in whichever order, reads back. No   *)
(* flusher holds a snapshot unless the store is dirty.                     *)
(***************************************************************************)
StoreInv ==
    /\ seq \in Nat /\ clock \in Nat /\ dirty \in BOOLEAN
    /\ pc \in [Flushers -> Places]
    /\ snap = [p \in Flushers |-> snap[p]]
    /\ Memory(mem, seq, clock)
    /\ \A p \in Flushers : Memory(snap[p], seq, clock)
    /\ \E m : Memory(m, seq, clock) /\ disk = Image(m)
    /\ dirty \/ disk = Image(mem)
    /\ \A p \in Flushers : pc[p] = "write" => dirty

\* A later time and a later number change nothing for a memory.
LEMMA MemoryGrows ==
    ASSUME NEW m, NEW n \in Nat, NEW k \in Nat, NEW c \in Nat, NEW d \in Nat,
           Memory(m, n, c), n <= k, c <= d
    PROVE  Memory(m, k, d)
BY OrderGrows DEF Memory

\* The history of the image, and of what is loaded back from it.
LEMMA ImageHistory ==
    ASSUME NEW m, NEW n, NEW c, Memory(m, n, c)
    PROVE  Image(m).history = ToBucket(m.history)
BY DEF Memory, Image, Buckets

\* load is the inverse of flush.
LEMMA LoadsBack ==
    ASSUME NEW m, NEW n \in Nat, NEW c \in Nat, Memory(m, n, c)
    PROVE  Loaded(Image(m)) = m
<1>1. FromBucket(ToBucket(m.history)) = m.history
  BY BucketReadsBack DEF Memory
<1>2. Image(m) = [b \in Buckets |-> IF b = "history" THEN ToBucket(m.history) ELSE m[b]]
  BY DEF Memory, Image, Buckets
<1>3. Loaded(Image(m)) = [b \in Buckets |-> IF b = "history" THEN FromBucket(ToBucket(m.history)) ELSE m[b]]
  BY <1>2 DEF Loaded, Buckets
<1>. QED  BY <1>1, <1>3 DEF Memory

LEMMA EmptyMemory ==
    ASSUME NEW n \in Nat, NEW c \in Nat
    PROVE  Memory(Empty, n, c)
<1>1. Empty.history = <<>> /\ DOMAIN Empty = Buckets /\ Empty = [b \in Buckets |-> Empty[b]]
  BY DEF Empty, Buckets
<1>2. Ordered(<<>>, n, c)
  BY DEF Ordered
<1>. QED  BY <1>1, <1>2 DEF Memory

\* A change that puts the history h in place of the memory's.
LEMMA HistorySet ==
    ASSUME NEW m, NEW n, NEW c, NEW k, NEW d, NEW h, Memory(m, n, c), Ordered(h, k, d)
    PROVE  Memory([m EXCEPT !.history = h], k, d)
<1>1. [m EXCEPT !.history = h].history = h
  BY DEF Memory, Buckets
<1>. QED  BY <1>1 DEF Memory, Buckets

\* A change to any other bucket.
LEMMA BucketSet ==
    ASSUME NEW m, NEW n, NEW c, NEW b \in Buckets \ {"history"}, NEW v, Memory(m, n, c)
    PROVE  Memory([m EXCEPT ![b] = v], n, c)
<1>1. [m EXCEPT ![b] = v].history = m.history
  BY DEF Memory, Buckets
<1>. QED  BY <1>1 DEF Memory, Buckets

\* A call that changes the memory and marks it for the next flush.
LEMMA ChangeKeeps ==
    ASSUME StoreInv, Memory(mem', seq', clock'), seq' \in Nat, seq <= seq',
           clock' = clock + 1, dirty' = TRUE, pc' \in [Flushers -> Places],
           UNCHANGED <<disk, snap>>
    PROVE  StoreInv'
<1>1. clock' \in Nat /\ clock <= clock'
  BY DEF StoreInv
<1>2. \A p \in Flushers : Memory(snap'[p], seq', clock')
  BY <1>1, MemoryGrows DEF StoreInv
<1>3. \E m : Memory(m, seq', clock') /\ disk' = Image(m)
  BY <1>1, MemoryGrows DEF StoreInv
<1>. QED  BY <1>1, <1>2, <1>3 DEF StoreInv

\* A step of the flushers that takes no snapshot.
LEMMA MoveKeeps ==
    ASSUME StoreInv, pc' \in [Flushers -> Places],
           \A p \in Flushers : pc'[p] = "write" => pc[p] = "write",
           UNCHANGED <<mem, seq, dirty, disk, snap, clock>>
    PROVE  StoreInv'
BY DEF StoreInv

\* A snapshot is the memory of its moment.
LEMMA SnapshotKeeps ==
    ASSUME StoreInv, NEW p \in Flushers, Snapshot(p), UNCHANGED <<mem, seq, dirty, disk, clock>>
    PROVE  StoreInv'
<1>1. pc' \in [Flushers -> Places] /\ \A q \in Flushers : pc'[q] = "write" => dirty'
  BY DEF StoreInv, Snapshot, Places
<1>2. snap' = [q \in Flushers |-> snap'[q]] /\ \A q \in Flushers : Memory(snap'[q], seq, clock)
  BY DEF StoreInv, Snapshot
<1>. QED  BY <1>1, <1>2 DEF StoreInv

LEMMA AfterPlaces ==
    \A p \in Flushers : After[p] \in Places \ {"write"}
BY DEF After, Flushers, Places

LEMMA StoreInvStep == StoreInv /\ [Next]_vars => StoreInv'
<1>. SUFFICES ASSUME StoreInv, [Next]_vars PROVE StoreInv'
  OBVIOUS
<1>1. ASSUME NEW t \in Torrents, NEW r, Change, Changed([mem EXCEPT !.torrents[t] = r]),
             UNCHANGED <<seq, disk, pc, snap>>
      PROVE  StoreInv'
  <2>1. Memory(mem', seq', clock')
    <3>1. mem' = [mem EXCEPT !["torrents"] = [mem.torrents EXCEPT ![t] = r]]
      BY <1>1 DEF Changed, StoreInv, Memory, Buckets
    <3>2. Memory(mem', seq, clock)
      BY <3>1, BucketSet DEF StoreInv, Buckets
    <3>. QED  BY <1>1, <3>2, MemoryGrows DEF Change, StoreInv
  <2>. QED  BY <1>1, <2>1, ChangeKeeps DEF Change, Changed, StoreInv
<1>2. ASSUME NEW t \in Torrents, NEW r \in Records, SetTorrent(t, r) PROVE StoreInv'
  BY <1>1, <1>2 DEF SetTorrent
<1>3. ASSUME NEW t \in Torrents, DeleteTorrent(t) PROVE StoreInv'
  BY <1>1, <1>3 DEF DeleteTorrent
<1>4. CASE AddHistory
  <2>1. Ordered(Trimmed(Append(mem.history, [seq |-> seq + 1, at |-> clock + 1])), seq + 1, clock + 1)
    BY AppendOrders DEF StoreInv, Memory
  <2>2. Memory(mem', seq', clock')
    BY <1>4, <2>1, HistorySet DEF AddHistory, Change, Changed, StoreInv
  <2>. QED  BY <1>4, <2>2, ChangeKeeps DEF AddHistory, Change, Changed, StoreInv
<1>5. ASSUME NEW p \in Prefs, SetPrefs(p) PROVE StoreInv'
  <2>1. Memory(mem', seq, clock)
    BY <1>5, BucketSet DEF SetPrefs, Changed, StoreInv, Buckets
  <2>2. Memory(mem', seq', clock')
    BY <1>5, <2>1, MemoryGrows DEF SetPrefs, Change, StoreInv
  <2>. QED  BY <1>5, <2>2, ChangeKeeps DEF SetPrefs, Change, Changed, StoreInv
<1>6. ASSUME NEW d \in Dirs, TouchDestination(d) PROVE StoreInv'
  <2>1. Memory(mem', seq, clock)
    BY <1>6, BucketSet DEF TouchDestination, Changed, StoreInv, Buckets
  <2>2. Memory(mem', seq', clock')
    BY <1>6, <2>1, MemoryGrows DEF TouchDestination, Change, StoreInv
  <2>. QED  BY <1>6, <2>2, ChangeKeeps DEF TouchDestination, Change, Changed, StoreInv
<1>7. CASE ClearHistory
  <2>1. Ordered(<<>>, seq, clock + 1)
    BY DEF Ordered
  <2>2. Memory(mem', seq', clock')
    BY <1>7, <2>1, HistorySet DEF ClearHistory, Change, Changed, StoreInv
  <2>3. pc' \in [Flushers -> Places]
    BY <1>7 DEF ClearHistory, StoreInv, Places
  <2>. QED  BY <1>7, <2>2, <2>3, ChangeKeeps DEF ClearHistory, Change, Changed, StoreInv
<1>8. ASSUME NEW p \in Flushers, Write(p) PROVE StoreInv'
  <2>1. pc' \in [Flushers -> Places] /\ \A q \in Flushers : pc'[q] = "write" => pc[q] = "write"
    BY <1>8, AfterPlaces DEF Write, StoreInv
  <2>2. dirty /\ dirty'
    BY <1>8 DEF Write, StoreInv
  <2>3. \E m : Memory(m, seq, clock) /\ disk' = Image(m)
    BY <1>8 DEF Write, StoreInv
  <2>. QED  BY <1>8, <2>1, <2>2, <2>3 DEF Write, StoreInv
<1>9. ASSUME NEW p \in Flushers, WriteFails(p) PROVE StoreInv'
  <2>1. pc' \in [Flushers -> Places]
    BY <1>9, AfterPlaces DEF WriteFails, StoreInv
  <2>. QED  BY <1>9, <2>1 DEF WriteFails, StoreInv
<1>10. CASE Tick \/ Flush \/ ClearSnapshot
  BY <1>10, SnapshotKeeps DEF Tick, Flush, ClearSnapshot, Flushers
<1>11. CASE StopLoop \/ Close \/ CloseFile
  <2>1. pc' \in [Flushers -> Places] /\ \A q \in Flushers : pc'[q] = "write" => pc[q] = "write"
    BY <1>11 DEF StopLoop, Close, CloseFile, StoreInv, Places
  <2>. QED  BY <1>11, <2>1, MoveKeeps DEF StopLoop, Close, CloseFile
<1>12. CASE FinalFlush
  <2>1. CASE dirty
    BY <1>12, <2>1, SnapshotKeeps DEF FinalFlush, Flushers
  <2>2. CASE ~dirty
    <3>1. pc' \in [Flushers -> Places] /\ \A q \in Flushers : pc'[q] = "write" => pc[q] = "write"
      BY <1>12, <2>2 DEF FinalFlush, StoreInv, Places
    <3>. QED  BY <1>12, <2>2, <3>1, MoveKeeps DEF FinalFlush
  <2>. QED  BY <2>1, <2>2
<1>13. CASE Restart
  <2>1. PICK m : Memory(m, seq, clock) /\ disk = Image(m)
    BY DEF StoreInv
  <2>2. mem' = m
    BY <1>13, <2>1, LoadsBack DEF Restart, StoreInv
  <2>3. seq' \in Nat /\ Memory(m, seq', clock)
    BY <1>13, <2>1, ImageHistory, LastSeqOrders DEF Restart, StoreInv, Memory
  <2>4. snap' = [p \in Flushers |-> snap'[p]] /\ \A p \in Flushers : Memory(snap'[p], seq', clock)
    BY <1>13, <2>3, EmptyMemory DEF Restart, StoreInv
  <2>5. pc' \in [Flushers -> Places] /\ \A p \in Flushers : pc'[p] # "write"
    BY <1>13 DEF Restart, Places
  <2>. QED  BY <1>13, <2>1, <2>2, <2>3, <2>4, <2>5 DEF Restart, StoreInv
<1>14. CASE UNCHANGED vars
  BY <1>14 DEF StoreInv, vars
<1>. QED
  BY <1>2, <1>3, <1>4, <1>5, <1>6, <1>7, <1>8, <1>9, <1>10, <1>11, <1>12, <1>13, <1>14 DEF Next, Set

(***************************************************************************)
(* The session database, for any records, any length of the history and    *)
(* any number of changes, flushes and restarts: a store that is not dirty  *)
(* has nothing its file lacks, history entries are numbered in the order   *)
(* they were added, across restarts too, and what flush writes is what     *)
(* load reads back (store.go, flush and load).                             *)
(***************************************************************************)
THEOREM CleanStoreIsDurable == Spec => []Durable
<1>1. Init => StoreInv
  <2>. SUFFICES ASSUME Init PROVE StoreInv
    OBVIOUS
  <2>1. Memory(Empty, 0, 0)
    BY EmptyMemory
  <2>2. pc \in [Flushers -> Places]
    BY DEF Init, Places
  <2>. QED  BY <2>1, <2>2 DEF Init, StoreInv
<1>2. StoreInv => Durable
  <2>. SUFFICES ASSUME StoreInv PROVE Durable
    OBVIOUS
  <2>1. CleanIsSaved
    BY DEF StoreInv, CleanIsSaved
  <2>2. FromBucket(ToBucket(mem.history)) = mem.history
    BY BucketReadsBack DEF StoreInv, Memory
  <2>3. HistoryOrdered
    BY <2>2 DEF StoreInv, Memory, Ordered, HistoryOrdered
  <2>. QED  BY <2>1, <2>3 DEF Durable
<1>. QED  BY <1>1, <1>2, StoreInvStep, PTL DEF Spec

----------------------------------------------------------------------------
(* What a Close keeps of a clear, when the shutdown's Flush is waited for. *)

\* Every entry of h was recorded after the change c.
Later(h, c) == \A k \in DOMAIN h : h[k].at > c

(***************************************************************************)
(* While a clear is under way the memory, and the snapshots that may still *)
(* reach the file once the loop has stopped - ClearHistory's own and the   *)
(* final one - hold no entry it removed. Close waits for the loop, and     *)
(* finds no Flush running.                                                 *)
(***************************************************************************)
CloseInv ==
    /\ closed \in BOOLEAN /\ flushErr \in BOOLEAN
    /\ clearing \in Nat /\ cleared \in Nat /\ cleared <= clearing /\ clearing <= clock
    /\ closed <=> pc["close"] # "idle"
    /\ closed => pc["flush"] = "idle"
    /\ pc["close"] \in {"write", "file", "done"} => pc["loop"] = "stopped"
    /\ Later(mem.history, clearing)
    /\ \A p \in {"clear", "close"} : pc[p] = "write" => Later(snap[p].history, clearing)
    /\ pc["close"] \in {"file", "done"} /\ ~flushErr => \A e \in disk.history : e.at > clearing

ClosingInv == StoreInv /\ CloseInv

\* What a bucket holds of a history that is later than c is later than c.
LEMMA LaterBucket ==
    ASSUME NEW m, NEW n \in Nat, NEW c \in Nat, NEW d, Memory(m, n, c), Later(m.history, d)
    PROVE  \A e \in Image(m).history : e.at > d
<1>1. Image(m).history = {m.history[k] : k \in DOMAIN m.history}
  BY ImageHistory, BucketHolds DEF Memory
<1>. QED  BY <1>1 DEF Later

\* AddHistory keeps entries of the history and adds one later than all.
LEMMA LaterAppend ==
    ASSUME NEW h, NEW n \in Nat, NEW c \in Nat, NEW d \in Nat, Ordered(h, n, c), Later(h, d), d <= c
    PROVE  Later(Trimmed(Append(h, [seq |-> n + 1, at |-> c + 1])), d)
<1>. DEFINE e == [seq |-> n + 1, at |-> c + 1]
            a == Append(h, e)
<1>1. h \in Seq(Entries) /\ e \in Entries
  BY DEF Ordered, Entries
<1>2. \A k \in DOMAIN h : h[k].at > d
  BY DEF Later
<1>3. Len(a) \in Nat /\ a \in Seq(Entries) /\ DOMAIN a = 1 .. Len(a) /\ \A k \in 1 .. Len(a) : a[k].at > d
  <2>1. Len(h) \in Nat /\ a \in Seq(Entries) /\ Len(a) = Len(h) + 1 /\ a[Len(h) + 1] = e /\ \A k \in DOMAIN h : a[k] = h[k]
    BY <1>1
  <2>2. e.at > d
    OBVIOUS
  <2>3. \A k \in 1 .. Len(a) : k \in DOMAIN h \/ k = Len(h) + 1
    BY <1>1, <2>1
  <2>. HIDE DEF a, e
  <2>. QED  BY <1>2, <2>1, <2>2, <2>3
<1>. HIDE DEF a, e
<1>4. PICK m \in 1 .. (Len(a) + 1) : Trimmed(a) = SubSeq(a, m, Len(a))
  <2>1. CASE Len(a) > MaxHistory
    <3>1. Len(a) - MaxHistory + 1 \in 1 .. (Len(a) + 1)
      BY <1>3, <2>1, HistoryAssumption
    <3>. QED  BY <2>1, <3>1 DEF Trimmed
  <2>2. CASE ~(Len(a) > MaxHistory)
    BY <1>3, <2>2 DEF Trimmed
  <2>. QED  BY <2>1, <2>2
<1>5. PICK s : s = SubSeq(a, m, Len(a))
  OBVIOUS
<1>6. /\ DOMAIN s = 1 .. Len(s) /\ Len(s) = Len(a) - m + 1
      /\ \A k \in 1 .. Len(s) : s[k] = a[m + k - 1]
  BY <1>3, <1>4, <1>5, SubSeqProperties
<1>7. Later(s, d)
  BY <1>3, <1>4, <1>6 DEF Later
<1>. QED  BY <1>4, <1>5, <1>7 DEF a, e

LEMMA CloseInvStep == "timeout" \notin Calls /\ ClosingInv /\ [Next]_vars => CloseInv'
<1>. SUFFICES ASSUME "timeout" \notin Calls, StoreInv, CloseInv, [Next]_vars PROVE CloseInv'
  BY DEF ClosingInv
<1>0. /\ DOMAIN pc = Flushers /\ DOMAIN snap = Flushers
      /\ {"loop", "flush", "clear", "close"} = Flushers
  BY DEF StoreInv, Flushers
<1>1. ASSUME mem'.history = mem.history, Change,
             UNCHANGED <<closed, disk, pc, snap, flushErr, ghosts>>
      PROVE  CloseInv'
  BY <1>1 DEF Change, CloseInv, StoreInv, ghosts
<1>2. ASSUME NEW t \in Torrents, NEW r \in Records, SetTorrent(t, r) PROVE CloseInv'
  <2>1. mem'.history = mem.history
    BY <1>2 DEF SetTorrent, Changed, StoreInv, Memory, Buckets
  <2>. QED  BY <1>1, <1>2, <2>1 DEF SetTorrent
<1>3. ASSUME NEW t \in Torrents, DeleteTorrent(t) PROVE CloseInv'
  <2>1. mem'.history = mem.history
    BY <1>3 DEF DeleteTorrent, Changed, StoreInv, Memory, Buckets
  <2>. QED  BY <1>1, <1>3, <2>1 DEF DeleteTorrent
<1>4. CASE AddHistory
  <2>1. mem'.history = Trimmed(Append(mem.history, [seq |-> seq + 1, at |-> clock + 1]))
    BY <1>4 DEF AddHistory, Changed, StoreInv, Memory, Buckets
  <2>2. Later(mem'.history, clearing)
    BY <2>1, LaterAppend DEF StoreInv, Memory, CloseInv
  <2>. QED  BY <1>4, <2>2 DEF AddHistory, Change, CloseInv, StoreInv, ghosts
<1>5. ASSUME NEW p \in Prefs, SetPrefs(p) PROVE CloseInv'
  <2>1. mem'.history = mem.history
    BY <1>5 DEF SetPrefs, Changed, StoreInv, Memory, Buckets
  <2>. QED  BY <1>1, <1>5, <2>1 DEF SetPrefs
<1>6. ASSUME NEW d \in Dirs, TouchDestination(d) PROVE CloseInv'
  <2>1. mem'.history = mem.history
    BY <1>6 DEF TouchDestination, Changed, StoreInv, Memory, Buckets
  <2>. QED  BY <1>1, <1>6, <2>1 DEF TouchDestination
<1>7. CASE ClearHistory
  \* The close has not begun: nothing is asked of its snapshot or of the file.
  <2>1. pc'["clear"] = "flush" /\ pc'["close"] = "idle" /\ pc["close"] = "idle"
    BY <1>0, <1>7 DEF ClearHistory, Change, CloseInv
  <2>2. Later(mem'.history, clearing')
    <3>1. mem'.history = <<>>
      BY <1>7 DEF ClearHistory, Changed, StoreInv, Memory, Buckets
    <3>. QED  BY <3>1 DEF Later
  <2>3. clearing' = clock + 1 /\ clock' = clock + 1 /\ clock \in Nat /\ ~closed'
    BY <1>7 DEF ClearHistory, Change, StoreInv
  <2>. QED  BY <1>7, <2>1, <2>2, <2>3 DEF ClearHistory, CloseInv
<1>8. ASSUME NEW p \in Flushers, Write(p) PROVE CloseInv'
  <2>1. disk' = Image(snap[p]) /\ Memory(snap[p], seq, clock) /\ pc[p] = "write"
    BY <1>8 DEF Write, StoreInv
  <2>2. /\ pc' = [pc EXCEPT ![p] = After[p]] /\ cleared' \in {cleared, clearing}
        /\ flushErr' = IF p = "close" THEN FALSE ELSE flushErr
        /\ UNCHANGED <<mem, closed, snap, clock, clearing>>
    BY <1>8 DEF Write, Learns
  <2>3. /\ pc'["close"] # "idle" <=> pc["close"] # "idle"
        /\ pc["flush"] = "idle" => pc'["flush"] = "idle"
        /\ pc["loop"] = "stopped" => pc'["loop"] = "stopped"
        /\ pc'["close"] \in {"write", "file", "done"} => pc["close"] \in {"write", "file", "done"}
        /\ \A q \in Flushers : pc'[q] = "write" => pc[q] = "write"
    BY <1>0, <2>1, <2>2 DEF After
  <2>4. pc'["close"] \in {"file", "done"} => \A e \in disk'.history : e.at > clearing
    <3>1. ASSUME pc'["close"] \in {"file", "done"} PROVE p \in {"clear", "close"}
      BY <1>0, <2>1, <2>3, <3>1 DEF CloseInv
    <3>2. Later(snap[p].history, clearing) => \A e \in disk'.history : e.at > clearing
      BY <2>1, LaterBucket DEF StoreInv
    <3>. QED  BY <2>1, <3>1, <3>2 DEF CloseInv
  <2>5. cleared' \in Nat /\ cleared' <= clearing
    BY <2>2 DEF CloseInv
  <2>6. flushErr' \in BOOLEAN
    BY <1>8 DEF Write, Learns, CloseInv
  <2>. QED  BY <1>0, <2>2, <2>3, <2>4, <2>5, <2>6 DEF CloseInv
<1>9. ASSUME NEW p \in Flushers, WriteFails(p) PROVE CloseInv'
  <2>1. /\ pc[p] = "write" /\ pc' = [pc EXCEPT ![p] = After[p]] /\ cleared' \in {cleared, clearing}
        /\ p # "close" => flushErr' = flushErr
        /\ UNCHANGED <<mem, closed, disk, snap, clock, clearing>>
    BY <1>9 DEF WriteFails, Learns
  <2>2. p = "close" => flushErr'
    BY <1>9 DEF WriteFails, Learns
  <2>3. /\ pc'["close"] # "idle" <=> pc["close"] # "idle"
        /\ pc["flush"] = "idle" => pc'["flush"] = "idle"
        /\ pc["loop"] = "stopped" => pc'["loop"] = "stopped"
        /\ pc'["close"] \in {"write", "file", "done"} => pc["close"] \in {"write", "file", "done"}
        /\ p # "close" => pc'["close"] = pc["close"]
        /\ \A q \in Flushers : pc'[q] = "write" => pc[q] = "write"
    BY <1>0, <2>1 DEF After
  <2>4. flushErr' \in BOOLEAN
    BY <1>9 DEF WriteFails, Learns, CloseInv
  <2>5. cleared' \in Nat /\ cleared' <= clearing
    BY <2>1 DEF CloseInv
  <2>. QED  BY <1>0, <2>1, <2>2, <2>3, <2>4, <2>5 DEF CloseInv
<1>10. ASSUME NEW p \in Flushers, Snapshot(p), p = "flush" => ~closed,
              p = "close" => pc["close"] = "stop" /\ pc["loop"] = "stopped",
              p = "loop" => pc["loop"] = "idle",
              UNCHANGED <<mem, closed, disk, flushErr, clock, ghosts>>
       PROVE  CloseInv'
  <2>1. pc' = [pc EXCEPT ![p] = "write"] /\ snap' = [snap EXCEPT ![p] = mem]
    BY <1>10 DEF Snapshot
  <2>2. \A q \in {"clear", "close"} : pc'[q] = "write" => Later(snap'[q].history, clearing)
    BY <1>0, <1>10, <2>1 DEF CloseInv
  <2>3. /\ closed <=> pc'["close"] # "idle"
        /\ closed => pc'["flush"] = "idle"
        /\ pc'["close"] \in {"write", "file", "done"} => pc'["loop"] = "stopped"
        /\ pc'["close"] \in {"file", "done"} => pc["close"] \in {"file", "done"}
    BY <1>0, <1>10, <2>1 DEF CloseInv
  <2>. QED  BY <1>10, <2>2, <2>3 DEF CloseInv, ghosts
<1>11. CASE Tick \/ Flush \/ ClearSnapshot
  BY <1>0, <1>10, <1>11 DEF Tick, Flush, ClearSnapshot
<1>12. ASSUME NEW p \in Flushers, NEW q, q # "write", pc' = [pc EXCEPT ![p] = q],
              p # "flush", p = "loop" => q = "stopped",
              p = "close" => q # "idle" /\ closed' /\ pc'["flush"] = "idle",
              p # "close" => closed' = closed,
              q \in {"file", "done"} => pc["loop"] = "stopped",
              q \in {"file", "done"} /\ ~flushErr => \A e \in disk.history : e.at > clearing,
              closed' \in BOOLEAN,
              UNCHANGED <<mem, disk, snap, flushErr, clock, ghosts>>
       PROVE  CloseInv'
  BY <1>0, <1>12 DEF CloseInv, ghosts
<1>13. CASE StopLoop
  BY <1>0, <1>12, <1>13 DEF StopLoop, CloseInv
<1>14. CASE Close
  <2>1. pc["flush"] = "idle"
    BY <1>14 DEF Close
  <2>. QED  BY <1>0, <1>12, <1>14, <2>1 DEF Close
<1>15. CASE FinalFlush
  <2>1. CASE dirty
    BY <1>0, <1>10, <1>15, <2>1 DEF FinalFlush
  <2>2. CASE ~dirty
    <3>1. pc["close"] = "stop" /\ pc["loop"] = "stopped" /\ pc' = [pc EXCEPT !["close"] = "file"]
          /\ UNCHANGED <<mem, closed, disk, snap, flushErr, clock, ghosts>>
      BY <1>15, <2>2 DEF FinalFlush
    <3>2. \A e \in disk.history : e.at > clearing
      BY <2>2, LaterBucket DEF StoreInv, CloseInv
    <3>3. closed /\ pc'["flush"] = "idle"
      BY <1>0, <3>1 DEF CloseInv
    <3>. QED  BY <1>0, <1>12, <3>1, <3>2, <3>3 DEF CloseInv
  <2>. QED  BY <2>1, <2>2
<1>16. CASE CloseFile
  <2>1. pc["close"] = "file" /\ pc' = [pc EXCEPT !["close"] = "done"]
        /\ UNCHANGED <<mem, closed, disk, snap, flushErr, clock, ghosts>>
    BY <1>16 DEF CloseFile
  <2>2. closed /\ pc'["flush"] = "idle" /\ pc["loop"] = "stopped"
        /\ (~flushErr => \A e \in disk.history : e.at > clearing)
    BY <1>0, <2>1 DEF CloseInv
  <2>. QED  BY <1>0, <1>12, <2>1, <2>2 DEF CloseInv
<1>17. CASE Restart
  <2>1. PICK m : Memory(m, seq, clock) /\ disk = Image(m)
    BY DEF StoreInv
  <2>2. mem' = m
    BY <1>17, <2>1, LoadsBack DEF Restart, StoreInv
  <2>3. Later(m.history, 0)
    BY <2>1, HistoryShape DEF Memory, Later
  <2>4. \A p \in Flushers : pc'[p] = "idle"
    BY <1>17 DEF Restart
  <2>5. /\ ~closed' /\ closed' \in BOOLEAN /\ flushErr' \in BOOLEAN
        /\ clearing' = 0 /\ cleared' = 0 /\ clock' = clock /\ clock \in Nat
    BY <1>17 DEF Restart, StoreInv
  <2>6. pc'["close"] = "idle" /\ pc'["clear"] = "idle"
    BY <1>0, <2>4
  <2>. QED  BY <2>2, <2>3, <2>5, <2>6 DEF CloseInv
<1>18. CASE UNCHANGED vars
  BY <1>18 DEF CloseInv, vars
<1>. QED
  BY <1>2, <1>3, <1>4, <1>5, <1>6, <1>7, <1>8, <1>9, <1>11, <1>13, <1>14, <1>15, <1>16, <1>17, <1>18
  DEF Next, Set

(***************************************************************************)
(* Close and ClearHistory: after a Close whose final flush did not fail,   *)
(* nothing a ClearHistory that returned nil had removed is in the file,    *)
(* however the loop's, the clear's and the final flush followed one        *)
(* another, at any length of the history. The shutdown's own Flush step is *)
(* waited for: one that timed out may still write what was cleared.        *)
(***************************************************************************)
THEOREM CloseKeeps == ASSUME "timeout" \notin Calls PROVE Spec => []CloseKeepsClear
<1>1. Init => ClosingInv
  <2>. SUFFICES ASSUME Init PROVE ClosingInv
    OBVIOUS
  <2>1. StoreInv
    <3>1. Memory(Empty, 0, 0)
      BY EmptyMemory
    <3>2. pc \in [Flushers -> Places]
      BY DEF Init, Places
    <3>. QED  BY <3>1, <3>2 DEF Init, StoreInv
  <2>2. pc["close"] = "idle" /\ pc["clear"] = "idle" /\ pc["flush"] = "idle"
    BY DEF Init, Flushers
  <2>3. Later(mem.history, 0)
    BY DEF Init, Empty, Later
  <2>4. CloseInv
    <3>1. /\ ~closed /\ closed \in BOOLEAN /\ flushErr \in BOOLEAN
          /\ clearing = 0 /\ cleared = 0 /\ clock = 0
      BY DEF Init
    <3>. QED  BY <2>2, <2>3, <3>1 DEF CloseInv
  <2>. QED  BY <2>1, <2>4 DEF ClosingInv
<1>2. ClosingInv /\ [Next]_vars => ClosingInv'
  BY StoreInvStep, CloseInvStep DEF ClosingInv
<1>3. ClosingInv => CloseKeepsClear
  <2>. SUFFICES ASSUME ClosingInv, pc["close"] = "done", ~flushErr, NEW e \in disk.history
                PROVE  e.at > cleared
    BY DEF CloseKeepsClear
  <2>1. PICK m : Memory(m, seq, clock) /\ disk = Image(m)
    BY DEF ClosingInv, StoreInv
  <2>2. disk.history = {m.history[k] : k \in DOMAIN m.history}
    <3>1. Image(m).history = ToBucket(m.history)
      BY <2>1, ImageHistory
    <3>2. seq \in Nat /\ clock \in Nat /\ Ordered(m.history, seq, clock)
      BY <2>1 DEF Memory, ClosingInv, StoreInv
    <3>. QED  BY <2>1, <3>1, <3>2, BucketHolds
  <2>3. e.at \in Nat
    BY <2>1, <2>2, HistoryShape DEF Memory
  <2>. QED  BY <2>3 DEF ClosingInv, CloseInv
<1>. QED  BY <1>1, <1>2, <1>3, PTL DEF Spec
=============================================================================

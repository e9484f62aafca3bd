------------------------- MODULE TorrentEngineProofs -------------------------
(***************************************************************************)
(* What TorrentEngine promises for every set of torrents, every number of  *)
(* download slots and every mix of callers. First what the helpers return, *)
(* then the invariants, one step per action.                               *)
(***************************************************************************)
EXTENDS TorrentEngine, FiniteSetTheorems, SequenceTheorems, WellFoundedInduction, TLAPS

----------------------------------------------------------------------------
(* The helpers on one entry and on one library torrent. *)

\* Every change the engine makes to an entry leaves it an entry.
LEMMA EntryTypes ==
    ASSUME NEW r \in Tracked
    PROVE  /\ Fail(r) \in Tracked
           /\ [Fail(r) EXCEPT !.refused = TRUE] \in Tracked
           /\ StartPaused(r) \in Tracked
           /\ PauseEntry(r) \in Tracked
           /\ [PauseEntry(r) EXCEPT !.userPaused = TRUE] \in Tracked
           /\ Unpause(r) \in Tracked
           /\ Enqueue(r) \in Tracked
<1>1. Fail(r) \in Tracked /\ [Fail(r) EXCEPT !.refused = TRUE] \in Tracked
  BY DEF Tracked, State, Fail
<1>2. StartPaused(r) \in Tracked /\ Enqueue(r) \in Tracked
  BY DEF Tracked, State, StartPaused, Enqueue
<1>3. PauseEntry(r) \in Tracked /\ [PauseEntry(r) EXCEPT !.userPaused = TRUE] \in Tracked
  <2>1. CASE r.state = "errored"
    BY <2>1 DEF Tracked, State, PauseEntry
  <2>2. CASE r.state # "errored"
    BY <2>2 DEF Tracked, State, PauseEntry
  <2>. QED  BY <2>1, <2>2
<1>4. Unpause(r) \in Tracked
  <2>. DEFINE u == [r EXCEPT !.paused = FALSE, !.userPaused = FALSE]
  <2>1. u \in Tracked
    BY DEF Tracked
  <2>2. /\ [u EXCEPT !.spacePaused = FALSE, !.state = u.pre] \in Tracked
        /\ [u EXCEPT !.seedDone = FALSE, !.seedOverride = TRUE, !.state = "seeding"] \in Tracked
        /\ [u EXCEPT !.state = u.pre] \in Tracked
    BY <2>1 DEF Tracked, State
  <2>. QED  BY <2>1, <2>2 DEF Unpause
<1>. QED  BY <1>1, <1>2, <1>3, <1>4

LEMMA NewEntryType ==
    ASSUME NEW p \in BOOLEAN, NEW s \in BOOLEAN
    PROVE  NewTracked(p, s) \in Tracked
  BY DEF Tracked, State, NewTracked

LEMMA LibTypes ==
    /\ NewLib \in LibTorrent
    /\ \A o \in LibTorrent : Hold(o) \in LibTorrent /\ Allow(o) \in LibTorrent /\ Dropped(o) \in LibTorrent
  BY DEF LibTorrent, NewLib, Hold, Allow, Dropped

LEMMA SettledType ==
    ASSUME NEW o \in LibTorrent, NEW held \in BOOLEAN, NEW r \in Tracked
    PROVE  Settled(o, held, r) \in LibTorrent
  BY LibTypes DEF Settled, Tracked, LibTorrent

LEMMA IdleJobType == IdleJob \in Job
  BY DEF IdleJob, Job, Pcs, AttachPcs, AwaitPcs

----------------------------------------------------------------------------
(* The queue: what DequeueAll leaves, in terms of the least k with n       *)
(* elements at or below it.                                                *)

Upto(S, k) == {m \in S : m <= k}

LEMMA PlacesFinite ==
    ASSUME NEW K \in Nat, NEW S \in SUBSET (1..K)
    PROVE  /\ IsFiniteSet(S) /\ Cardinality(S) \in Nat
           /\ \A k \in S : k \in Nat /\ 1 <= k /\ k <= K
<1>1. IsFiniteSet(1..K)
  BY FS_Interval
<1>2. IsFiniteSet(S)
  BY <1>1, FS_Subset
<1>3. Cardinality(S) \in Nat
  BY <1>2, FS_CardinalityType
<1>4. \A k \in S : k \in 1..K
  OBVIOUS
<1>. QED  BY <1>2, <1>3, <1>4

\* What k, k - 1 and another element see of the set.
LEMMA UptoSteps ==
    ASSUME NEW S, \A m \in S : m \in Nat /\ 1 <= m
    PROVE  /\ Upto(S, 0) = {}
           /\ \A k \in Nat \ {0} : k \notin S => Upto(S, k) = Upto(S, k - 1)
           /\ \A k \in Nat \ {0} : k \in S =>
                Upto(S, k) = Upto(S, k - 1) \cup {k} /\ k \notin Upto(S, k - 1)
           /\ \A j, k \in S : j < k => Upto(S, j) \subseteq Upto(S, k) /\ Upto(S, j) # Upto(S, k)
<1>1. Upto(S, 0) = {}
  BY DEF Upto
<1>2. ASSUME NEW k \in Nat \ {0}, k \notin S PROVE Upto(S, k) = Upto(S, k - 1)
  <2>1. \A m \in S : m <= k <=> m <= k - 1
    BY <1>2
  <2>. QED  BY <2>1 DEF Upto
<1>3. ASSUME NEW k \in Nat \ {0}, k \in S
      PROVE  Upto(S, k) = Upto(S, k - 1) \cup {k} /\ k \notin Upto(S, k - 1)
  <2>1. \A m \in S : m <= k <=> m <= k - 1 \/ m = k
    BY <1>3
  <2>2. ~(k <= k - 1) /\ k <= k
    OBVIOUS
  <2>. QED  BY <1>3, <2>1, <2>2 DEF Upto
<1>4. ASSUME NEW j \in S, NEW k \in S, j < k
      PROVE  Upto(S, j) \subseteq Upto(S, k) /\ Upto(S, j) # Upto(S, k)
  <2>1. \A m \in S : m <= j => m <= k
    BY <1>4
  <2>2. k <= k /\ ~(k <= j)
    BY <1>4
  <2>3. k \in Upto(S, k) /\ k \notin Upto(S, j)
    BY <2>2 DEF Upto
  <2>4. Upto(S, j) \subseteq Upto(S, k)
    BY <2>1 DEF Upto
  <2>5. Upto(S, j) # Upto(S, k)
    BY <2>3
  <2>. QED  BY <2>4, <2>5
<1>. QED  BY <1>1, <1>2, <1>3, <1>4

LEMMA UptoFinite ==
    ASSUME NEW K \in Nat, NEW S \in SUBSET (1..K), NEW k
    PROVE  /\ IsFiniteSet(Upto(S, k)) /\ Cardinality(Upto(S, k)) \in Nat
           /\ Cardinality(Upto(S, k)) <= Cardinality(S)
<1>1. IsFiniteSet(S) /\ Upto(S, k) \subseteq S
  BY PlacesFinite DEF Upto
<1>2. IsFiniteSet(Upto(S, k)) /\ Cardinality(Upto(S, k)) <= Cardinality(S)
  BY <1>1, FS_Subset
<1>. QED  BY <1>2, FS_CardinalityType

\* Between two elements of S, the count grows.
LEMMA UptoGrows ==
    ASSUME NEW K \in Nat, NEW S \in SUBSET (1..K), NEW j \in S, NEW k \in S, j < k
    PROVE  Cardinality(Upto(S, j)) < Cardinality(Upto(S, k))
<1>1. \A m \in S : m \in Nat /\ 1 <= m
  BY PlacesFinite
<1>2. Upto(S, j) \subseteq Upto(S, k) /\ Upto(S, j) # Upto(S, k)
  <2>1. \A m, n \in S : m < n => Upto(S, m) \subseteq Upto(S, n) /\ Upto(S, m) # Upto(S, n)
    BY <1>1, UptoSteps
  <2>. QED  BY <2>1
<1>3. IsFiniteSet(Upto(S, k))
  BY UptoFinite
<1>4. /\ Cardinality(Upto(S, j)) <= Cardinality(Upto(S, k))
      /\ Cardinality(Upto(S, j)) # Cardinality(Upto(S, k))
  BY <1>2, <1>3, FS_Subset
<1>5. Cardinality(Upto(S, j)) \in Nat /\ Cardinality(Upto(S, k)) \in Nat
  BY UptoFinite
<1>. QED  BY <1>4, <1>5

LEMMA NthExists ==
    ASSUME NEW K \in Nat, NEW S \in SUBSET (1..K), NEW n \in 1..Cardinality(S)
    PROVE  Nth(S, n) \in S /\ Cardinality(Upto(S, Nth(S, n))) = n
<1>. DEFINE T == {k \in 0..K : Cardinality(Upto(S, k)) >= n}
<1>0. Cardinality(S) \in Nat /\ \A k \in S : k \in Nat /\ 1 <= k /\ k <= K
  BY PlacesFinite
<1>1. n \in Nat /\ 1 <= n /\ n <= Cardinality(S)
  BY <1>0
<1>2. K \in T
  <2>1. Upto(S, K) = S
    BY <1>0 DEF Upto
  <2>. QED  BY <2>1, <1>0, <1>1
<1>3. PICK k \in T : \A j \in T : ~(j < k)
  <2>. DEFINE R == OpToRel(<, Nat)
  <2>1. T \subseteq Nat /\ T # {}
    BY <1>2
  <2>2. IsWellFoundedOn(R, Nat)
    BY NatLessThanWellFounded
  <2>. HIDE DEF R, T
  <2>3. PICK k \in T : \A j \in T : ~(<<j, k>> \in R)
    BY <2>1, <2>2, WFMin
  <2>4. \A j \in Nat, m \in Nat : j < m => <<j, m>> \in R
    BY DEF R, OpToRel
  <2>. QED  BY <2>1, <2>3, <2>4
<1>4. k # 0
  <2>1. Upto(S, 0) = {}
    BY <1>0, UptoSteps
  <2>2. Cardinality(Upto(S, 0)) = 0
    BY <2>1, FS_EmptySet
  <2>. QED  BY <2>2, <1>1, <1>3
<1>5. k - 1 \in Nat /\ k \in Nat \ {0} /\ ~(Cardinality(Upto(S, k - 1)) >= n)
  BY <1>3, <1>4
<1>6. k \in S
  <2>1. ASSUME k \notin S PROVE Upto(S, k) = Upto(S, k - 1)
    BY <2>1, <1>0, <1>5, UptoSteps
  <2>. QED  BY <2>1, <1>3, <1>5
<1>7. Upto(S, k) = Upto(S, k - 1) \cup {k} /\ k \notin Upto(S, k - 1)
  BY <1>0, <1>5, <1>6, UptoSteps
<1>8. Cardinality(Upto(S, k)) = Cardinality(Upto(S, k - 1)) + 1
  BY <1>5, <1>7, UptoFinite, FS_AddElement
<1>9. Cardinality(Upto(S, k)) = n
  BY <1>1, <1>3, <1>5, <1>8, UptoFinite
<1>. QED  BY <1>6, <1>9 DEF Nth, Upto

\* The n-th smallest, for n the count at k, is k.
LEMMA NthCount ==
    ASSUME NEW K \in Nat, NEW S \in SUBSET (1..K), NEW k \in S
    PROVE  /\ Cardinality(Upto(S, k)) \in 1..Cardinality(S)
           /\ Nth(S, Cardinality(Upto(S, k))) = k
<1>. DEFINE n == Cardinality(Upto(S, k))
<1>1. k \in Upto(S, k) /\ Upto(S, k) \subseteq S
  BY PlacesFinite DEF Upto
<1>2. n \in 1..Cardinality(S)
  <2>1. n \in Nat /\ n <= Cardinality(S) /\ Cardinality(S) \in Nat
    BY PlacesFinite, UptoFinite
  <2>2. n # 0
    BY <1>1, UptoFinite, FS_EmptySet
  <2>. QED  BY <2>1, <2>2
<1>3. Nth(S, n) \in S /\ Cardinality(Upto(S, Nth(S, n))) = n
  BY <1>2, NthExists
<1>4. n \in Nat /\ k \in Nat /\ Nth(S, n) \in Nat
  BY <1>3, PlacesFinite, UptoFinite
<1>5. ASSUME Nth(S, n) < k PROVE FALSE
  <2>1. Cardinality(Upto(S, Nth(S, n))) < n
    BY <1>3, <1>5, UptoGrows
  <2>. QED  BY <1>3, <1>4, <2>1
<1>6. ASSUME k < Nth(S, n) PROVE FALSE
  <2>1. n < Cardinality(Upto(S, Nth(S, n)))
    BY <1>3, <1>6, UptoGrows
  <2>. QED  BY <1>3, <1>4, <2>1
<1>. QED  BY <1>2, <1>4, <1>5, <1>6

Distinct(q) == \A m, n \in DOMAIN q : q[m] = q[n] => m = n
Members(q)  == {q[k] : k \in DOMAIN q}

\* dequeueLocked: what is left is the rest of the queue, each id once.
LEMMA DequeueAllLeaves ==
    ASSUME NEW A, NEW q \in Seq(A), NEW ids
    PROVE  /\ DequeueAll(q, ids) \in Seq(A)
           /\ Members(DequeueAll(q, ids)) = Members(q) \ ids
           /\ Distinct(q) => Distinct(DequeueAll(q, ids))
<1>. DEFINE S == {k \in DOMAIN q : q[k] \notin ids}
            d == DequeueAll(q, ids)
<1>1. Len(q) \in Nat /\ DOMAIN q = 1..Len(q) /\ \A k \in DOMAIN q : q[k] \in A
  OBVIOUS
<1>2. S \in SUBSET (1..Len(q)) /\ Cardinality(S) \in Nat
  <2>1. S \in SUBSET (1..Len(q))
    BY <1>1
  <2>. HIDE DEF S
  <2>. QED  BY <1>1, <2>1, PlacesFinite
<1>3. d = [n \in 1..Cardinality(S) |-> q[Nth(S, n)]]
  BY DEF DequeueAll
<1>4. \A n \in 1..Cardinality(S) : Nth(S, n) \in S /\ Cardinality(Upto(S, Nth(S, n))) = n
  BY <1>1, <1>2, NthExists
<1>5. d \in Seq(A)
  <2>1. \A n \in 1..Cardinality(S) : q[Nth(S, n)] \in A
    BY <1>1, <1>4
  <2>. HIDE DEF S
  <2>. QED  BY <1>2, <1>3, <2>1, IsASeq
<1>6. Members(d) \subseteq Members(q) \ ids
  BY <1>3, <1>4 DEF Members
<1>7. ASSUME NEW k \in S PROVE q[k] \in Members(d)
  <2>1. /\ Cardinality(Upto(S, k)) \in 1..Cardinality(S)
        /\ Nth(S, Cardinality(Upto(S, k))) = k
    <3>. HIDE DEF S
    <3>. QED  BY <1>1, <1>2, NthCount
  <2>. HIDE DEF S
  <2>. QED  BY <1>3, <2>1 DEF Members
<1>8. ASSUME Distinct(q) PROVE Distinct(d)
  BY <1>3, <1>4, <1>8 DEF Distinct
<1>. QED  BY <1>5, <1>6, <1>7, <1>8 DEF Members

LEMMA EnqueueLeaves ==
    ASSUME NEW A, NEW q \in Seq(A), NEW i \in A
    PROVE  /\ EnqueueIn(q, i) \in Seq(A)
           /\ Members(EnqueueIn(q, i)) = Members(q) \cup {i}
           /\ Distinct(q) => Distinct(EnqueueIn(q, i))
<1>1. CASE i \in Members(q)
  BY <1>1 DEF EnqueueIn, Members
<1>2. CASE i \notin Members(q)
  <2>1. EnqueueIn(q, i) = Append(q, i)
    BY <1>2 DEF EnqueueIn, Members
  <2>2. /\ Append(q, i) \in Seq(A)
        /\ Len(q) \in Nat /\ DOMAIN q = 1..Len(q) /\ DOMAIN Append(q, i) = 1..(Len(q) + 1)
        /\ \A k \in DOMAIN q : Append(q, i)[k] = q[k]
        /\ Append(q, i)[Len(q) + 1] = i
    BY AppendProperties
  <2>3. \A k \in 1..(Len(q) + 1) : k \in 1..Len(q) \/ k = Len(q) + 1
    BY <2>2
  <2>4. DOMAIN q \subseteq DOMAIN Append(q, i) /\ Len(q) + 1 \in DOMAIN Append(q, i)
    BY <2>2
  <2>5. Members(Append(q, i)) = Members(q) \cup {i}
    BY <2>2, <2>3, <2>4 DEF Members
  <2>6. ASSUME Distinct(q) PROVE Distinct(Append(q, i))
    BY <1>2, <2>2, <2>3, <2>6 DEF Distinct, Members
  <2>. QED  BY <2>1, <2>2, <2>5, <2>6
<1>. QED  BY <1>1, <1>2

LEMMA InsertLeaves ==
    ASSUME NEW A, NEW q \in Seq(A), NEW i \in A, NEW at \in Nat, at <= Len(q)
    PROVE  /\ Insert(q, at, i) \in Seq(A)
           /\ Members(Insert(q, at, i)) = Members(q) \cup {i}
           /\ Distinct(q) /\ i \notin Members(q) => Distinct(Insert(q, at, i))
<1>. DEFINE n == Len(q)
            d == Insert(q, at, i)
<1>1. n \in Nat /\ DOMAIN q = 1..n /\ \A k \in 1..n : q[k] \in A
  OBVIOUS
<1>2. /\ DOMAIN d = 1..(n + 1)
      /\ \A k \in 1..(n + 1) : \/ k <= at /\ k \in 1..n /\ d[k] = q[k]
                               \/ k = at + 1 /\ d[k] = i
                               \/ k > at + 1 /\ k - 1 \in 1..n /\ d[k] = q[k - 1]
  BY <1>1 DEF Insert
<1>3. d \in Seq(A)
  <2>1. d = [k \in 1..(n + 1) |-> d[k]]
    BY DEF Insert
  <2>2. \A k \in 1..(n + 1) : d[k] \in A
    BY <1>1, <1>2
  <2>. HIDE DEF d
  <2>. QED  BY <1>1, <2>1, <2>2, IsASeq
<1>4. Members(d) \subseteq Members(q) \cup {i}
  BY <1>1, <1>2 DEF Members
<1>5. at + 1 \in 1..(n + 1) /\ d[at + 1] = i
  BY <1>1, <1>2
<1>6. ASSUME NEW k \in 1..n PROVE q[k] \in Members(d)
  <2>1. CASE k <= at
    <3>1. k \in 1..(n + 1) /\ d[k] = q[k]
      BY <1>1, <1>2, <2>1
    <3>. QED  BY <1>2, <3>1 DEF Members
  <2>2. CASE k > at
    <3>1. k + 1 \in 1..(n + 1) /\ d[k + 1] = q[k]
      BY <1>1, <2>2 DEF Insert
    <3>. QED  BY <1>2, <3>1 DEF Members
  <2>. QED  BY <1>1, <2>1, <2>2
<1>7. Members(d) = Members(q) \cup {i}
  BY <1>1, <1>2, <1>4, <1>5, <1>6 DEF Members
<1>8. ASSUME Distinct(q), i \notin Members(q) PROVE Distinct(d)
  <2>1. \A k \in 1..n : q[k] # i
    BY <1>1, <1>8 DEF Members
  <2>2. \A k, m \in 1..n : q[k] = q[m] => k = m
    BY <1>1, <1>8 DEF Distinct
  <2>3. ASSUME NEW k \in 1..(n + 1), NEW m \in 1..(n + 1), d[k] = d[m] PROVE k = m
    <3>. HIDE DEF d, n
    <3>. QED  BY <1>1, <1>2, <2>1, <2>2, <2>3
  <2>. HIDE DEF d
  <2>. QED  BY <1>2, <2>3 DEF Distinct
<1>. QED  BY <1>3, <1>7, <1>8

----------------------------------------------------------------------------
(* Type correctness. *)

\* A job that has been handed a library torrent holds it until it is done.
JobTorrent == \A i \in Ids : job[i].pc \in {"publish"} \cup AwaitPcs => job[i].t \in Ids

TypeInv == TypeOK /\ JobTorrent

\* The parts of an entry, of a job and of a library torrent have their types.
LEMMA Parts ==
    ASSUME TypeOK
    PROVE  /\ \A i \in Ids :
                /\ tr[i] \in Tracked /\ job[i] \in Job /\ lib[i] \in LibTorrent
                /\ tr[i].t \in Ids \cup {None} /\ tr[i].paused \in BOOLEAN
                /\ tr[i].userPaused \in BOOLEAN /\ tr[i].seedDone \in BOOLEAN
                /\ job[i].t \in Ids \cup {None} /\ job[i].hash \in Hashes \cup {None}
                /\ job[i].held \in BOOLEAN /\ job[i].dict \in BOOLEAN
                /\ lib[i].hash \in Hashes \cup {None}
           /\ \A k \in DOMAIN queue : queue[k] \in Ids
           /\ \A ids : DequeueAll(queue, ids) \in Seq(Ids)
           /\ \A i : Dequeue(queue, i) \in Seq(Ids)
           /\ \A i \in Ids : \A ids : EnqueueIn(queue, i) \in Seq(Ids) /\ EnqueueIn(DequeueAll(queue, ids), i) \in Seq(Ids)
<1>1. \A i \in Ids : tr[i] \in Tracked /\ job[i] \in Job /\ lib[i] \in LibTorrent
  BY DEF TypeOK
<1>2. \A ids : DequeueAll(queue, ids) \in Seq(Ids)
  BY DequeueAllLeaves DEF TypeOK
<1>3. \A i \in Ids : \A ids : EnqueueIn(queue, i) \in Seq(Ids) /\ EnqueueIn(DequeueAll(queue, ids), i) \in Seq(Ids)
  BY <1>2, EnqueueLeaves DEF TypeOK
<1>4. \A k \in DOMAIN queue : queue[k] \in Ids
  BY DEF TypeOK
<1>. QED  BY <1>1, <1>2, <1>3, <1>4 DEF Tracked, Job, LibTorrent, Dequeue

\* One job changed: the others keep theirs.
LEMMA JobTypes ==
    ASSUME TypeInv, NEW i \in Ids, NEW w \in Job, w.pc \in {"publish"} \cup AwaitPcs => w.t \in Ids,
           job' = [job EXCEPT ![i] = w]
    PROVE  job' \in [Ids -> Job] /\ JobTorrent'
<1>1. job \in [Ids -> Job]
  BY DEF TypeInv, TypeOK
<1>2. job' \in [Ids -> Job] /\ \A j \in Ids : job'[j] = IF j = i THEN w ELSE job[j]
  BY <1>1
<1>. QED  BY <1>2 DEF TypeInv, JobTorrent

LEMMA DoneTypes ==
    ASSUME TypeInv, NEW i \in Ids, Done(i)
    PROVE  job' \in [Ids -> Job] /\ JobTorrent'
<1>1. IdleJob \in Job /\ IdleJob.pc \notin {"publish"} \cup AwaitPcs
  BY IdleJobType DEF IdleJob, AwaitPcs
<1>. QED  BY <1>1, JobTypes DEF Done

LEMMA SetPcTypes ==
    ASSUME TypeInv, NEW i \in Ids, NEW pc \in Pcs,
           pc \notin {"publish"} \cup AwaitPcs \/ job[i].pc \in {"publish"} \cup AwaitPcs,
           SetPc(i, pc)
    PROVE  job' \in [Ids -> Job] /\ JobTorrent'
<1>. DEFINE w == [job[i] EXCEPT !.pc = pc]
<1>1. job[i] \in Job /\ job \in [Ids -> Job]
  BY DEF TypeInv, TypeOK
<1>2. w \in Job /\ w.pc = pc /\ w.t = job[i].t
  BY <1>1 DEF Job
<1>3. w.pc \in {"publish"} \cup AwaitPcs => w.t \in Ids
  BY <1>2 DEF TypeInv, JobTorrent
<1>4. job' = [job EXCEPT ![i] = w]
  BY <1>1 DEF SetPc
<1>. HIDE DEF w
<1>. QED  BY <1>2, <1>3, <1>4, JobTypes

LEMMA TypeInit == Init => TypeInv
<1>. SUFFICES ASSUME Init PROVE TypeInv
  OBVIOUS
<1>1. NewTracked(FALSE, FALSE) \in Tracked /\ NewLib \in LibTorrent
  BY NewEntryType, LibTypes
<1>2. [IdleJob EXCEPT !.pc = "new"] \in Job /\ [IdleJob EXCEPT !.pc = "new"].pc = "new"
  BY IdleJobType DEF Job, Pcs
<1>3. TypeOK
  <2>1. queue \in Seq(Ids)
    BY DEF Init
  <2>2. job \in [Ids -> Job] /\ tr \in [Ids -> Tracked] /\ lib \in [Ids -> LibTorrent]
    BY <1>1, <1>2 DEF Init
  <2>. QED  BY <2>1, <2>2 DEF Init, TypeOK, Phases
<1>4. JobTorrent
  BY <1>2 DEF Init, JobTorrent, AwaitPcs
<1>. QED  BY <1>3, <1>4 DEF TypeInv

LEMMA TypeMint ==
    ASSUME TypeInv, NEW i \in Ids, NEW h \in Hashes \cup {None}, NEW dict \in BOOLEAN,
           NEW via \in {"add", "restore", "url", "promote"}, NEW p \in BOOLEAN, NEW s \in BOOLEAN,
           restored' \in Nat,
           \/ FindOrTrack(i, h, dict, via, p, s)
           \/ TrackURL(i, via, p, s)
    PROVE  TypeInv'
<1>. DEFINE work == [IdleJob EXCEPT !.hash = h, !.dict = dict, !.via = via]
            bare == [IdleJob EXCEPT !.via = via]
            named == [NewTracked(p, s) EXCEPT !.infoHash = h]
<1>1. /\ work \in Job /\ work.pc = "idle" /\ [work EXCEPT !.pc = "attach"] \in Job
      /\ [work EXCEPT !.pc = "attach"].pc = "attach"
      /\ bare \in Job /\ bare.pc = "idle" /\ [bare EXCEPT !.pc = "fetch"] \in Job
      /\ [bare EXCEPT !.pc = "fetch"].pc = "fetch"
      /\ IdleJob \in Job /\ IdleJob.pc = "idle"
  BY DEF IdleJob, Job, Pcs, AttachPcs, AwaitPcs
<1>2. NewTracked(p, s) \in Tracked /\ named \in Tracked
  BY NewEntryType DEF Tracked
<1>3. /\ StartPaused(named) \in Tracked /\ StartPaused(NewTracked(p, s)) \in Tracked
      /\ Enqueue([named EXCEPT !.hold = "spec"]) \in Tracked
      /\ Enqueue([NewTracked(p, s) EXCEPT !.hold = "url"]) \in Tracked
  <2>1. [named EXCEPT !.hold = "spec"] \in Tracked /\ [NewTracked(p, s) EXCEPT !.hold = "url"] \in Tracked
    BY <1>2 DEF Tracked
  <2>. QED  BY <1>2, <2>1, EntryTypes
<1>. HIDE DEF work, bare, named
<1>4. /\ tr \in [Ids -> Tracked] /\ job \in [Ids -> Job] /\ tracked \subseteq Ids
      /\ lib \in [Ids -> LibTorrent] /\ drops \subseteq Ids /\ phase \in Phases /\ queue \in Seq(Ids)
  BY DEF TypeInv, TypeOK
<1>5. CASE FindOrTrack(i, h, dict, via, p, s)
  <2>1. tr' \in [Ids -> Tracked] /\ tracked' \subseteq Ids
    BY <1>2, <1>3, <1>4, <1>5 DEF FindOrTrack, named
  <2>2. queue' \in Seq(Ids)
    BY <1>5, Parts DEF FindOrTrack, TypeInv
  <2>3. job' = [job EXCEPT ![i] = work] \/ job' = [job EXCEPT ![i] = [work EXCEPT !.pc = "attach"]]
    BY <1>5 DEF FindOrTrack, work
  <2>4. job' \in [Ids -> Job] /\ JobTorrent'
    BY <1>1, <2>3, JobTypes DEF AwaitPcs
  <2>. QED  BY <1>4, <1>5, <2>1, <2>2, <2>4 DEF FindOrTrack, TypeInv, TypeOK
<1>6. CASE TrackURL(i, via, p, s)
  <2>1. tr' \in [Ids -> Tracked] /\ tracked' \subseteq Ids
    BY <1>2, <1>3, <1>4, <1>6 DEF TrackURL
  <2>2. queue' \in Seq(Ids)
    BY <1>4, <1>6, Parts DEF TrackURL, TypeInv
  <2>3. job' = [job EXCEPT ![i] = bare] \/ job' = [job EXCEPT ![i] = [bare EXCEPT !.pc = "fetch"]]
    BY <1>6 DEF TrackURL, bare
  <2>4. job' \in [Ids -> Job] /\ JobTorrent'
    BY <1>1, <2>3, JobTypes DEF AwaitPcs
  <2>. QED  BY <1>4, <1>6, <2>1, <2>2, <2>4 DEF TrackURL, TypeInv, TypeOK
<1>. QED  BY <1>5, <1>6

LEMMA TypeErrored ==
    ASSUME TypeInv, NEW i \in Ids, NEW h \in Hashes \cup {None}, NEW p \in BOOLEAN, NEW s \in BOOLEAN,
           restored' \in Nat, TrackErrored(i, h, p, s)
    PROVE  TypeInv'
<1>1. [NewTracked(p, s) EXCEPT !.state = "errored", !.refused = TRUE, !.infoHash = h] \in Tracked
  <2>1. NewTracked(p, s) \in Tracked
    BY NewEntryType
  <2>. QED  BY <2>1 DEF Tracked, State
<1>2. /\ tr \in [Ids -> Tracked] /\ tracked \subseteq Ids /\ lib \in [Ids -> LibTorrent]
      /\ drops \subseteq Ids /\ phase \in Phases /\ queue \in Seq(Ids)
  BY DEF TypeInv, TypeOK
<1>3. job' \in [Ids -> Job] /\ JobTorrent'
  BY DoneTypes DEF TrackErrored, Done
<1>. QED  BY <1>1, <1>2, <1>3 DEF TrackErrored, TypeInv, TypeOK

\* The updates a job gets on its way, and those of the entry and the library
\* torrent it leads to.
LEMMA JobAttach ==
    ASSUME NEW w \in Job, NEW h \in Hashes \cup {None}, NEW dict \in BOOLEAN
    PROVE  /\ [w EXCEPT !.pc = "attach", !.hash = h, !.dict = dict] \in Job
           /\ [w EXCEPT !.pc = "attach", !.hash = h, !.dict = dict].pc = "attach"
  BY DEF Job, Pcs, AttachPcs

LEMMA JobJoin ==
    ASSUME NEW w \in Job, NEW held \in BOOLEAN
    PROVE  /\ [w EXCEPT !.pc = "join", !.held = held] \in Job
           /\ [w EXCEPT !.pc = "join", !.held = held].pc = "join"
  BY DEF Job, Pcs, AttachPcs

LEMMA JobPublish ==
    ASSUME NEW w \in Job, NEW o \in Ids
    PROVE  /\ [w EXCEPT !.pc = "publish", !.t = o] \in Job
           /\ [w EXCEPT !.pc = "publish", !.t = o].t = o
  BY DEF Job, Pcs, AttachPcs

LEMMA EntryPublish ==
    ASSUME NEW r \in Tracked, NEW o \in Ids, NEW h \in Hashes \cup {None}
    PROVE  [r EXCEPT !.t = o, !.infoHash = h] \in Tracked
  BY DEF Tracked

LEMMA EntryDownloads ==
    ASSUME NEW r \in Tracked
    PROVE  [r EXCEPT !.pre = "downloading"] \in Tracked /\ [r EXCEPT !.state = "downloading"] \in Tracked
  BY DEF Tracked, State

LEMMA LibInfo ==
    ASSUME NEW l \in LibTorrent, NEW dict \in BOOLEAN
    PROVE  [l EXCEPT !.info = @ \/ dict] \in LibTorrent
<1>1. (l.info \/ dict) \in BOOLEAN
  OBVIOUS
<1>. QED  BY <1>1 DEF LibTorrent

\* Whoever starts an entry: the fetch, the attach, the wait for metadata.
LEMMA TypeStart ==
    ASSUME TypeInv, NEW i \in Ids, Start(i) \/ Await(i)
    PROVE  TypeInv'
<1>0. /\ tr \in [Ids -> Tracked] /\ job \in [Ids -> Job] /\ tracked \subseteq Ids /\ restored \in Nat
      /\ lib \in [Ids -> LibTorrent] /\ drops \subseteq Ids /\ phase \in Phases /\ queue \in Seq(Ids)
  BY DEF TypeInv, TypeOK
<1>. USE DEF TypeInv
<1>1. /\ Fail(tr[i]) \in Tracked /\ [Fail(tr[i]) EXCEPT !.refused = TRUE] \in Tracked
  BY <1>0, EntryTypes
<1>2. CASE FetchFails(i)
  BY <1>0, <1>1, <1>2, DoneTypes DEF FetchFails, FailEntry, TypeOK
<1>3. CASE FetchClaims(i)
  <2>1. PICK h \in Hashes, dict \in BOOLEAN :
          job' = [job EXCEPT ![i].pc = "attach", ![i].hash = h, ![i].dict = dict]
    BY <1>3 DEF FetchClaims
  <2>. DEFINE w == [job[i] EXCEPT !.pc = "attach", !.hash = h, !.dict = dict]
  <2>6. job[i] \in Job
    BY <1>0
  <2>2. w \in Job /\ w.pc = "attach"
    BY <2>6, JobAttach
  <2>3. job' = [job EXCEPT ![i] = w]
    BY <1>0, <2>1
  <2>. HIDE DEF w
  <2>4. job' \in [Ids -> Job] /\ JobTorrent'
    BY <2>2, <2>3, JobTypes DEF AwaitPcs
  <2>5. queue' \in Seq(Ids) /\ tracked' \subseteq Ids
    BY <1>0, <1>3, Parts DEF FetchClaims
  <2>. QED  BY <1>0, <1>3, <2>4, <2>5 DEF FetchClaims, TypeOK
<1>4. ASSUME AttachFailure(i), UNCHANGED <<phase, restored, lib, drops>> PROVE TypeInv'
  <2>1. CASE job[i].via \in {"add", "restore"}
    <3>1. /\ tracked' = tracked \ {i} /\ queue' = Dequeue(queue, i) /\ tr' = tr
          /\ SetPc(i, "retrack") \/ Done(i)
      BY <1>4, <2>1 DEF AttachFailure
    <3>2. job' \in [Ids -> Job] /\ JobTorrent'
      BY <3>1, DoneTypes, SetPcTypes DEF Pcs, AwaitPcs
    <3>3. queue' \in Seq(Ids)
      BY <3>1, Parts
    <3>. QED  BY <1>0, <1>4, <3>1, <3>2, <3>3 DEF TypeOK
  <2>2. CASE job[i].via = "url"
    <3>1. FailEntry(i) /\ Done(i) /\ UNCHANGED <<tracked, queue>>
      BY <1>4, <2>2 DEF AttachFailure
    <3>. QED  BY <1>0, <1>1, <1>4, <3>1, DoneTypes DEF FailEntry, TypeOK
  <2>3. CASE job[i].via = "promote"
    <3>1. /\ tr' = [tr EXCEPT ![i] = [Fail(tr[i]) EXCEPT !.refused = TRUE]]
          /\ Done(i) /\ UNCHANGED <<tracked, queue>>
      BY <1>0, <1>4, <2>3 DEF AttachFailure
    <3>. QED  BY <1>0, <1>1, <1>4, <3>1, DoneTypes DEF TypeOK
  <2>4. job[i].via \in {"add", "restore", "url", "promote"}
    BY <1>0 DEF Job
  <2>. QED  BY <2>1, <2>2, <2>3, <2>4
<1>5. CASE AttachFails(i)
  BY <1>4, <1>5 DEF AttachFails
<1>6. CASE PublishClosed(i)
  BY <1>4, <1>6 DEF PublishClosed
<1>7. CASE Retrack(i)
  <2>1. restored' \in Nat
    BY <1>0, <1>7 DEF Retrack
  <2>2. /\ job[i].hash \in Hashes \cup {None} /\ tr[i].userPaused \in BOOLEAN
        /\ tr[i].seedDone \in BOOLEAN
    BY Parts
  <2>3. TrackErrored(i, job[i].hash, tr[i].userPaused, tr[i].seedDone)
    BY <1>7 DEF Retrack
  <2>. QED  BY <2>1, <2>2, <2>3, TypeErrored
<1>8. CASE ReadHeld(i)
  <2>. DEFINE w == [job[i] EXCEPT !.pc = "join", !.held = tr[i].paused]
  <2>4. job[i] \in Job /\ tr[i].paused \in BOOLEAN
    BY <1>0 DEF Tracked
  <2>1. w \in Job /\ w.pc = "join"
    BY <2>4, JobJoin
  <2>2. job' = [job EXCEPT ![i] = w]
    BY <1>0, <1>8 DEF ReadHeld
  <2>. HIDE DEF w
  <2>3. job' \in [Ids -> Job] /\ JobTorrent'
    BY <2>1, <2>2, JobTypes DEF AwaitPcs
  <2>. QED  BY <1>0, <1>8, <2>3 DEF ReadHeld, TypeOK
<1>9. CASE Join(i)
  <2>1. PICK o \in Ids, now \in LibTorrent :
          /\ lib' = [lib EXCEPT ![o] = IF job[i].held THEN Hold(now) ELSE now]
          /\ job' = [job EXCEPT ![i].pc = "publish", ![i].t = o]
    <3>. DEFINE old == InClient(job[i].hash)
                o == IF old = {} THEN i ELSE CHOOSE x \in old : TRUE
                was(onDisk) == IF old = {}
                   THEN [NewLib EXCEPT !.hash = job[i].hash, !.live = TRUE, !.dl = TRUE, !.ul = TRUE,
                                       !.complete = onDisk]
                   ELSE lib[o]
                now(onDisk) == [was(onDisk) EXCEPT !.info = @ \/ job[i].dict]
    <3>1. PICK onDisk \in BOOLEAN :
            /\ lib' = [lib EXCEPT ![o] = IF job[i].held THEN Hold(now(onDisk)) ELSE now(onDisk)]
            /\ job' = [job EXCEPT ![i].pc = "publish", ![i].t = o]
      BY <1>9 DEF Join
    <3>2. o \in Ids
      BY DEF InClient
    <3>3. was(onDisk) \in LibTorrent
      <4>1. job[i].hash \in Hashes \cup {None} /\ lib[o] \in LibTorrent
        BY <1>0, <3>2, Parts
      <4>. HIDE DEF o
      <4>. QED  BY <4>1 DEF LibTorrent, NewLib
    <3>4. now(onDisk) \in LibTorrent
      <4>. HIDE DEF was
      <4>1. job[i].dict \in BOOLEAN
        BY <1>0 DEF Job
      <4>. QED  BY <3>3, <4>1, LibInfo
    <3>. HIDE DEF o, now
    <3>. QED  BY <3>1, <3>2, <3>4
  <2>. DEFINE w == [job[i] EXCEPT !.pc = "publish", !.t = o]
  <2>6. job[i] \in Job
    BY <1>0
  <2>2. w \in Job /\ w.t = o
    BY <2>6, JobPublish
  <2>5. job' = [job EXCEPT ![i] = w]
    BY <1>0, <2>1
  <2>. HIDE DEF w
  <2>3. job' \in [Ids -> Job] /\ JobTorrent'
    BY <2>2, <2>5, JobTypes
  <2>4. lib' \in [Ids -> LibTorrent]
    BY <1>0, <2>1, LibTypes
  <2>. QED  BY <1>0, <1>9, <2>3, <2>4 DEF Join, TypeOK
<1>10. CASE PublishRemoved(i)
  <2>1. job[i].t \in Ids
    BY <1>10 DEF PublishRemoved, JobTorrent
  <2>. QED  BY <1>0, <1>10, <2>1, DoneTypes DEF PublishRemoved, TypeOK
<1>11. CASE Publish(i)
  <2>1. job[i].t \in Ids
    BY <1>11 DEF Publish, JobTorrent
  <2>2. tr' \in [Ids -> Tracked]
    <3>1. [tr[i] EXCEPT !.t = job[i].t, !.infoHash = lib[job[i].t].hash] \in Tracked
      <4>1. tr[i] \in Tracked /\ lib[job[i].t].hash \in Hashes \cup {None}
        BY <1>0, <2>1 DEF LibTorrent
      <4>. QED  BY <2>1, <4>1, EntryPublish
    <3>2. tr' = [tr EXCEPT ![i] = [tr[i] EXCEPT !.t = job[i].t, !.infoHash = lib[job[i].t].hash]]
      BY <1>0, <1>11 DEF Publish, PublishTorrent
    <3>. QED  BY <1>0, <3>1, <3>2
  <2>3. lib' \in [Ids -> LibTorrent]
    <3>1. lib[job[i].t] \in LibTorrent /\ tr[i] \in Tracked /\ job[i].held \in BOOLEAN
      BY <1>0, <2>1, Parts
    <3>2. Settled(lib[job[i].t], job[i].held, tr[i]) \in LibTorrent
      BY <3>1, SettledType
    <3>3. lib' = [lib EXCEPT ![job[i].t] = Settled(lib[job[i].t], job[i].held, tr[i])]
      BY <1>0, <1>11, <2>1 DEF Publish, PublishTorrent
    <3>. QED  BY <1>0, <2>1, <3>2, <3>3
  <2>4. job' \in [Ids -> Job] /\ JobTorrent'
    BY <1>11, SetPcTypes DEF Publish, PublishTorrent, Pcs, AwaitPcs
  <2>. QED  BY <1>0, <1>11, <2>2, <2>3, <2>4 DEF Publish, PublishTorrent, TypeOK
<1>12. CASE AwaitEnds(i) \/ DownloadAll(i)
  BY <1>0, <1>12, DoneTypes DEF AwaitEnds, DownloadAll, TypeOK
<1>13. CASE AwaitRefuses(i)
  <2>1. lib' \in [Ids -> LibTorrent]
    BY <1>0, <1>13, LibTypes DEF AwaitRefuses, JobTorrent, AwaitPcs
  <2>2. job' \in [Ids -> Job] /\ JobTorrent'
    BY <1>13, SetPcTypes DEF AwaitRefuses, Pcs, AwaitPcs
  <2>. QED  BY <1>0, <1>13, <2>1, <2>2 DEF AwaitRefuses, TypeOK
<1>14. CASE Refuse(i)
  <2>1. tr' \in [Ids -> Tracked]
    BY <1>0, <1>1, <1>14 DEF Refuse
  <2>. QED  BY <1>0, <1>14, <2>1, DoneTypes DEF Refuse, TypeOK
<1>15. CASE GotInfo(i)
  <2>1. tr' \in [Ids -> Tracked]
    <3>1. \E r \in {tr[i], [tr[i] EXCEPT !.pre = "downloading"], [tr[i] EXCEPT !.state = "downloading"]} :
             tr' = [tr EXCEPT ![i] = r]
      BY <1>0, <1>15 DEF GotInfo
    <3>2. tr[i] \in Tracked
      BY <1>0
    <3>3. \A r \in {tr[i], [tr[i] EXCEPT !.pre = "downloading"], [tr[i] EXCEPT !.state = "downloading"]} :
             r \in Tracked
      BY <3>2, EntryDownloads
    <3>. QED  BY <1>0, <3>1, <3>3
  <2>2. lib' \in [Ids -> LibTorrent]
    BY <1>0, <1>15, LibTypes DEF GotInfo, JobTorrent, AwaitPcs
  <2>3. job' \in [Ids -> Job] /\ JobTorrent'
    BY <1>15, SetPcTypes DEF GotInfo, Pcs, AwaitPcs
  <2>. QED  BY <1>0, <1>15, <2>1, <2>2, <2>3 DEF GotInfo, TypeOK
<1>. QED
  BY <1>2, <1>3, <1>5, <1>6, <1>7, <1>8, <1>9, <1>10, <1>11, <1>12, <1>13, <1>14, <1>15 DEF Start, Await

\* What a user, or Session.Resume, asks of one entry.
LEMMA TypeUser ==
    ASSUME TypeInv, NEW i \in Ids, User(i)
    PROVE  TypeInv'
<1>0. /\ tr \in [Ids -> Tracked] /\ job \in [Ids -> Job] /\ tracked \subseteq Ids /\ restored \in Nat
      /\ lib \in [Ids -> LibTorrent] /\ drops \subseteq Ids /\ phase \in Phases /\ queue \in Seq(Ids)
  BY DEF TypeInv, TypeOK
<1>1. tr[i] \in Tracked /\ tr[i].t \in Ids \cup {None}
  BY Parts DEF TypeInv
<1>2. CASE Add(i)
  <2>1. restored' \in Nat
    BY <1>0, <1>2 DEF Add
  <2>2. CASE \E h \in Hashes, dict \in BOOLEAN : FindOrTrack(i, h, dict, "add", FALSE, FALSE)
    BY <2>1, <2>2, TypeMint
  <2>3. CASE TrackURL(i, "url", FALSE, FALSE)
    <3>1. None \in Hashes \cup {None}
      OBVIOUS
    <3>. QED  BY <2>1, <2>3, <3>1, TypeMint
  <2>. QED  BY <1>2, <2>2, <2>3 DEF Add
<1>3. CASE Restore(i)
  <2>1. restored' \in Nat
    BY <1>0, <1>3 DEF Restore
  <2>2. PICK p \in BOOLEAN, s \in BOOLEAN, h \in Hashes \cup {None}, dict \in BOOLEAN :
          \/ FindOrTrack(i, h, dict, "restore", p, s)
          \/ TrackErrored(i, h, p, s)
          \/ TrackURL(i, "url", p, FALSE)
    BY <1>3 DEF Restore
  <2>3. CASE FindOrTrack(i, h, dict, "restore", p, s)
    BY <2>1, <2>3, TypeMint
  <2>4. CASE TrackErrored(i, h, p, s)
    BY <2>1, <2>4, TypeErrored
  <2>5. CASE TrackURL(i, "url", p, FALSE)
    BY <2>1, <2>5, TypeMint
  <2>. QED  BY <2>2, <2>3, <2>4, <2>5
<1>4. CASE Pause(i)
  <2>1. tr' \in [Ids -> Tracked]
    <3>1. [PauseEntry(tr[i]) EXCEPT !.userPaused = TRUE] \in Tracked
      BY <1>1, EntryTypes
    <3>. QED  BY <1>0, <1>4, <3>1 DEF Pause
  <2>2. lib' \in [Ids -> LibTorrent]
    BY <1>0, <1>1, <1>4, LibTypes DEF Pause
  <2>3. queue' \in Seq(Ids)
    BY <1>0, <1>4, Parts DEF Pause, TypeInv
  <2>. QED  BY <1>0, <1>4, <2>1, <2>2, <2>3 DEF Pause, TypeInv, TypeOK, JobTorrent
<1>5. CASE Resume(i)
  <2>. DEFINE u == Unpause(tr[i])
  <2>1. u \in Tracked /\ u.t \in Ids \cup {None} /\ Enqueue(u) \in Tracked
    <3>1. u \in Tracked
      BY <1>1, EntryTypes
    <3>. HIDE DEF u
    <3>2. Enqueue(u) \in Tracked
      BY <3>1, EntryTypes
    <3>. QED  BY <3>1, <3>2 DEF Tracked
  <2>2. /\ \/ tr' = [tr EXCEPT ![i] = Enqueue(u)] /\ queue' = EnqueueIn(queue, i)
           \/ tr' = [tr EXCEPT ![i] = u] /\ queue' = queue
        /\ \/ lib' = lib
           \/ u.t # None /\ lib' = [lib EXCEPT ![u.t] = Allow(@)]
    BY <1>5 DEF Resume
  <2>. HIDE DEF u
  <2>3. tr' \in [Ids -> Tracked] /\ lib' \in [Ids -> LibTorrent]
    BY <1>0, <2>1, <2>2, LibTypes
  <2>4. queue' \in Seq(Ids)
    BY <1>0, <2>2, Parts DEF TypeInv
  <2>. QED  BY <1>0, <1>5, <2>3, <2>4 DEF Resume, TypeInv, TypeOK, JobTorrent
<1>6. CASE Remove(i)
  <2>1. tr' \in [Ids -> Tracked]
    <3>1. [tr[i] EXCEPT !.removed = TRUE] \in Tracked
      BY <1>1 DEF Tracked
    <3>2. tr' = [tr EXCEPT ![i] = [tr[i] EXCEPT !.removed = TRUE]]
      BY <1>0, <1>6 DEF Remove
    <3>. QED  BY <1>0, <3>1, <3>2
  <2>2. queue' \in Seq(Ids) /\ drops' \subseteq Ids
    BY <1>0, <1>1, <1>6, Parts DEF Remove, TypeInv
  <2>. QED  BY <1>0, <1>6, <2>1, <2>2 DEF Remove, TypeInv, TypeOK, JobTorrent
<1>7. CASE \E pos \in 0..Cardinality(Ids) : MoveInQueue(i, pos)
  <2>1. PICK pos \in 0..Cardinality(Ids) : MoveInQueue(i, pos)
    BY <1>7
  <2>. DEFINE rest == Dequeue(queue, i)
              at   == IF pos > Len(rest) THEN Len(rest) ELSE pos
  <2>2. rest \in Seq(Ids)
    BY Parts DEF TypeInv
  <2>3. at \in Nat /\ at <= Len(rest)
    <3>1. pos \in Nat /\ Len(rest) \in Nat
      BY <2>2
    <3>. HIDE DEF rest
    <3>. QED  BY <3>1
  <2>4. queue' = Insert(rest, at, i)
    BY <2>1 DEF MoveInQueue
  <2>. HIDE DEF rest, at
  <2>5. queue' \in Seq(Ids)
    BY <2>2, <2>3, <2>4, InsertLeaves
  <2>. QED  BY <1>0, <2>1, <2>5 DEF MoveInQueue, TypeInv, TypeOK, JobTorrent
<1>. QED  BY <1>2, <1>3, <1>4, <1>5, <1>6, <1>7 DEF User

\* The sample loop, the swarm, and what ends the engine.
LEMMA TypeRest ==
    ASSUME TypeInv,
           \/ \E i \in Ids : Sampler(i) \/ Swarm(i)
           \/ FinishResume \/ Promote \/ PauseForShutdown \/ CloseBegin \/ CloseEnd
    PROVE  TypeInv'
<1>0. /\ tr \in [Ids -> Tracked] /\ job \in [Ids -> Job] /\ tracked \subseteq Ids /\ restored \in Nat
      /\ lib \in [Ids -> LibTorrent] /\ drops \subseteq Ids /\ phase \in Phases /\ queue \in Seq(Ids)
  BY DEF TypeInv, TypeOK
<1>1. CASE \E i \in Ids : SpacePause(i)
  <2>1. PICK i \in Ids : SpacePause(i)
    BY <1>1
  <2>2. tr[i] \in Tracked /\ tr[i].t \in Ids /\ lib[tr[i].t] \in LibTorrent
    BY <1>0, <2>1, Parts DEF SpacePause, TypeInv
  <2>. DEFINE r == [tr[i] EXCEPT !.paused = TRUE, !.spacePaused = TRUE,
                                 !.pre = "downloading", !.state = "errored"]
  <2>3. r \in Tracked
    BY <2>2 DEF Tracked, State
  <2>4. tr' = [tr EXCEPT ![i] = r]
    BY <1>0, <2>1 DEF SpacePause
  <2>. HIDE DEF r
  <2>5. lib' \in [Ids -> LibTorrent]
    <3>1. [lib[tr[i].t] EXCEPT !.dl = FALSE] \in LibTorrent
      BY <2>2 DEF LibTorrent
    <3>2. lib' = [lib EXCEPT ![tr[i].t] = [lib[tr[i].t] EXCEPT !.dl = FALSE]]
      BY <1>0, <2>1, <2>2 DEF SpacePause
    <3>. QED  BY <1>0, <2>2, <3>1, <3>2
  <2>6. tr' \in [Ids -> Tracked]
    BY <1>0, <2>3, <2>4
  <2>. QED  BY <1>0, <2>1, <2>5, <2>6 DEF SpacePause, TypeInv, TypeOK, JobTorrent
<1>2. CASE \E i \in Ids : ApplyPolicy(i)
  <2>1. PICK i \in Ids : ApplyPolicy(i)
    BY <1>2
  <2>2. tr[i] \in Tracked /\ tr[i].t \in Ids /\ lib[tr[i].t] \in LibTorrent
    BY <1>0, <2>1, Parts DEF ApplyPolicy, TypeInv
  <2>. DEFINE done == tr[i].state = "downloading" /\ lib[tr[i].t].complete
              r == IF done THEN [tr[i] EXCEPT !.state = "seeding"] ELSE tr[i]
              s == [r EXCEPT !.paused = TRUE, !.seedDone = TRUE, !.pre = "seeding", !.state = "paused"]
  <2>3. r \in Tracked
    BY <2>2 DEF Tracked, State
  <2>4. \/ tr' = [tr EXCEPT ![i] = r] /\ lib' = lib
        \/ tr' = [tr EXCEPT ![i] = s] /\ lib' = [lib EXCEPT ![tr[i].t].ul = FALSE]
    BY <2>1 DEF ApplyPolicy
  <2>. HIDE DEF r
  <2>5. s \in Tracked
    BY <2>3 DEF Tracked, State
  <2>. HIDE DEF s
  <2>6. [lib[tr[i].t] EXCEPT !.ul = FALSE] \in LibTorrent
    BY <2>2 DEF LibTorrent
  <2>7. tr' \in [Ids -> Tracked]
    BY <1>0, <2>3, <2>4, <2>5
  <2>8. lib' \in [Ids -> LibTorrent]
    <3>1. lib' = lib \/ lib' = [lib EXCEPT ![tr[i].t] = [lib[tr[i].t] EXCEPT !.ul = FALSE]]
      BY <1>0, <2>2, <2>4
    <3>. QED  BY <1>0, <2>2, <2>6, <3>1
  <2>. QED  BY <1>0, <2>1, <2>7, <2>8 DEF ApplyPolicy, TypeInv, TypeOK, JobTorrent
<1>3. CASE \E o \in Ids : InfoArrives(o) \/ Completes(o)
  <2>1. PICK o \in Ids : InfoArrives(o) \/ Completes(o)
    BY <1>3
  <2>2. [lib[o] EXCEPT !.info = TRUE] \in LibTorrent /\ [lib[o] EXCEPT !.complete = TRUE] \in LibTorrent
    <3>1. lib[o] \in LibTorrent
      BY <1>0
    <3>. QED  BY <3>1 DEF LibTorrent
  <2>3. \/ lib' = [lib EXCEPT ![o] = [lib[o] EXCEPT !.info = TRUE]]
        \/ lib' = [lib EXCEPT ![o] = [lib[o] EXCEPT !.complete = TRUE]]
    BY <1>0, <2>1 DEF InfoArrives, Completes
  <2>4. lib' \in [Ids -> LibTorrent]
    BY <1>0, <2>2, <2>3
  <2>. QED  BY <1>0, <2>1, <2>4 DEF InfoArrives, Completes, TypeInv, TypeOK, JobTorrent
<1>4. CASE \E o \in Ids : Drop(o)
  <2>1. PICK o \in Ids : Drop(o)
    BY <1>4
  <2>2. lib' \in [Ids -> LibTorrent]
    BY <1>0, <2>1, LibTypes DEF Drop
  <2>. QED  BY <1>0, <2>1, <2>2 DEF Drop, TypeInv, TypeOK, JobTorrent
<1>5. CASE FinishResume \/ CloseBegin
  BY <1>0, <1>5 DEF FinishResume, CloseBegin, TypeInv, TypeOK, JobTorrent, Phases
<1>6. CASE PauseForShutdown
  <2>1. tr' \in [Ids -> Tracked] /\ lib' \in [Ids -> LibTorrent]
    <3>1. \A i \in Ids : PauseEntry(tr[i]) \in Tracked /\ Hold(lib[i]) \in LibTorrent
      BY <1>0, EntryTypes, LibTypes
    <3>. QED  BY <1>0, <1>6, <3>1 DEF PauseForShutdown
  <2>2. queue' \in Seq(Ids)
    BY <1>6, Parts DEF PauseForShutdown, TypeInv
  <2>. QED  BY <1>0, <1>6, <2>1, <2>2 DEF PauseForShutdown, TypeInv, TypeOK, JobTorrent
<1>7. CASE CloseEnd
  <2>1. lib' \in [Ids -> LibTorrent]
    BY <1>0, <1>7, LibTypes DEF CloseEnd
  <2>. QED  BY <1>0, <1>7, <2>1 DEF CloseEnd, TypeInv, TypeOK, JobTorrent, Phases
<1>8. CASE Promote
  <2>. DEFINE i == NextUp
  <2>1. i \in Ids
    BY <1>0, <1>8 DEF Promote, NextUp
  <2>2. tr[i] \in Tracked /\ tr[i].t \in Ids \cup {None} /\ queue' \in Seq(Ids)
    BY <1>8, <2>1, Parts DEF Promote, TypeInv
  <2>3. CASE tr[i].t # None
    <3>1. \A st \in {"downloading", "checking"} : [tr[i] EXCEPT !.state = st] \in Tracked
      BY <2>2 DEF Tracked, State
    <3>2. \E st \in {"downloading", "checking"} : tr' = [tr EXCEPT ![i] = [tr[i] EXCEPT !.state = st]]
      BY <1>0, <1>8, <2>1, <2>3 DEF Promote
    <3>3. lib' = lib \/ lib' = [lib EXCEPT ![tr[i].t] = Allow(@)]
      BY <1>8, <2>3 DEF Promote
    <3>4. tr' \in [Ids -> Tracked] /\ lib' \in [Ids -> LibTorrent]
      <4>1. tr' \in [Ids -> Tracked]
        BY <1>0, <2>1, <3>1, <3>2
      <4>2. lib' \in [Ids -> LibTorrent]
        BY <1>0, <2>2, <2>3, <3>3, LibTypes
      <4>. QED  BY <4>1, <4>2
    <3>5. job' = job
      BY <1>8, <2>3 DEF Promote
    <3>. QED  BY <1>0, <1>8, <2>2, <3>4, <3>5 DEF Promote, TypeInv, TypeOK, JobTorrent
  <2>4. CASE tr[i].t = None
    <3>1. [tr[i] EXCEPT !.state = "checking", !.hold = "none"] \in Tracked
      BY <2>2 DEF Tracked, State
    <3>2. tr' = [tr EXCEPT ![i] = [tr[i] EXCEPT !.state = "checking", !.hold = "none"]] /\ lib' = lib
      BY <1>0, <1>8, <2>1, <2>4 DEF Promote
    <3>3. job' \in [Ids -> Job] /\ JobTorrent'
      <4>1. job[i] \in Job
        BY <1>0, <2>1
      <4>2. /\ [job[i] EXCEPT !.pc = "fetch"] \in Job /\ [job[i] EXCEPT !.pc = "fetch"].pc = "fetch"
            /\ [job[i] EXCEPT !.pc = "attach", !.via = "promote"] \in Job
            /\ [job[i] EXCEPT !.pc = "attach", !.via = "promote"].pc = "attach"
        BY <4>1 DEF Job, Pcs, AttachPcs
      <4>3. \/ job' = [job EXCEPT ![i] = [job[i] EXCEPT !.pc = "fetch"]]
            \/ job' = [job EXCEPT ![i] = [job[i] EXCEPT !.pc = "attach", !.via = "promote"]]
        BY <1>0, <1>8, <2>1, <2>4 DEF Promote
      <4>. QED  BY <2>1, <4>2, <4>3, JobTypes DEF AwaitPcs
    <3>. QED  BY <1>0, <1>8, <2>1, <2>2, <3>1, <3>2, <3>3 DEF Promote, TypeInv, TypeOK
  <2>. QED  BY <2>3, <2>4
<1>. QED
  BY <1>1, <1>2, <1>3, <1>4, <1>5, <1>6, <1>7, <1>8 DEF Sampler, Swarm

LEMMA TypeStep == TypeInv /\ [Next]_vars => TypeInv'
<1>. SUFFICES ASSUME TypeInv, [Next]_vars PROVE TypeInv'
  OBVIOUS
<1>1. CASE \E i \in Ids : Start(i) \/ Await(i)
  BY <1>1, TypeStart
<1>2. CASE \E i \in Ids : User(i)
  BY <1>2, TypeUser
<1>3. CASE \/ \E i \in Ids : Sampler(i) \/ Swarm(i)
           \/ FinishResume \/ Promote \/ PauseForShutdown \/ CloseBegin \/ CloseEnd
  BY <1>3, TypeRest
<1>4. CASE UNCHANGED vars
  BY <1>4 DEF vars, TypeInv, TypeOK, JobTorrent
<1>. QED  BY <1>1, <1>2, <1>3, <1>4 DEF Next

(***************************************************************************)
(* Every value the engine's entries, queue, jobs and library torrents take *)
(* is one the code's types name, and a job in the middle of an attach      *)
(* always has the library torrent the later steps index.                   *)
(***************************************************************************)
THEOREM TypeCorrect == Spec => []TypeOK
<1>1. TypeInv => TypeOK
  BY DEF TypeInv
<1>. QED  BY <1>1, TypeInit, TypeStep, PTL DEF Spec

----------------------------------------------------------------------------
(* Close. *)

\* Once the client is closed it stays so, and no step counts a new goroutine:
\* each one that starts a fetch, an attach or a wait checks that it is Open.
LEMMA ClosedSteps ==
    ASSUME TypeInv, Next, phase = "closed", NEW j \in Ids, ~Counted(j)
    PROVE  phase' = "closed" /\ ~Counted(j)'
<1>0. ~Open /\ job \in [Ids -> Job]
  BY DEF Open, TypeInv, TypeOK
<1>1. ASSUME NEW i \in Ids, Done(i) PROVE ~Counted(j)'
  BY <1>0, <1>1 DEF Done, IdleJob, Counted, AttachPcs, AwaitPcs
<1>2. ASSUME NEW i \in Ids, SetPc(i, "retrack") PROVE ~Counted(j)'
  BY <1>0, <1>2 DEF SetPc, Counted, AttachPcs, AwaitPcs
<1>3. ASSUME job' = job PROVE ~Counted(j)'
  BY <1>3 DEF Counted
<1>4. ASSUME NEW i \in Ids, Counted(i), \A k \in Ids \ {i} : job'[k] = job[k] PROVE ~Counted(j)'
  BY <1>4 DEF Counted
<1>5. ASSUME NEW i \in Ids, AttachFailure(i) PROVE ~Counted(j)'
  <2>1. job[i].via \in {"add", "restore", "url", "promote"}
    BY <1>0 DEF Job
  <2>2. Done(i) \/ SetPc(i, "retrack")
    BY <1>5, <2>1 DEF AttachFailure
  <2>. QED  BY <1>1, <1>2, <2>2
<1>6. CASE \E i \in Ids : Start(i)
  <2>1. PICK i \in Ids : Start(i)
    BY <1>6
  <2>2. CASE FetchFails(i)
    BY <1>1, <2>2 DEF FetchFails
  <2>3. CASE FetchClaims(i)
    <3>1. Counted(i) /\ \A k \in Ids \ {i} : job'[k] = job[k]
      BY <1>0, <2>3 DEF FetchClaims, Counted
    <3>. QED  BY <1>4, <2>3, <3>1 DEF FetchClaims
  <2>4. CASE AttachFails(i) \/ PublishClosed(i)
    BY <1>5, <2>4 DEF AttachFails, PublishClosed
  <2>5. CASE Join(i)
    <3>1. \E o \in Ids : job' = [job EXCEPT ![i].pc = "publish", ![i].t = o]
      BY <2>5 DEF Join, InClient
    <3>2. Counted(j)' => Counted(j)
      BY <1>0, <2>5, <3>1 DEF Join, Counted, AttachPcs, AwaitPcs, Job
    <3>. QED  BY <2>5, <3>2 DEF Join
  <2>6. CASE PublishRemoved(i)
    BY <1>1, <2>6 DEF PublishRemoved
  <2>7. CASE Retrack(i) \/ ReadHeld(i) \/ Publish(i)
    BY <1>0, <2>7 DEF Retrack, TrackErrored, ReadHeld, Publish
  <2>. QED  BY <2>1, <2>2, <2>3, <2>4, <2>5, <2>6, <2>7 DEF Start
<1>7. CASE \E i \in Ids : Await(i)
  <2>1. PICK i \in Ids : Await(i)
    BY <1>7
  <2>2. CASE AwaitEnds(i) \/ Refuse(i) \/ DownloadAll(i)
    BY <1>1, <2>2 DEF AwaitEnds, Refuse, DownloadAll
  <2>3. CASE AwaitRefuses(i) \/ GotInfo(i)
    <3>1. job[i].pc \in AwaitPcs /\ \A k \in Ids \ {i} : job'[k] = job[k]
      BY <1>0, <2>3 DEF AwaitRefuses, GotInfo, SetPc, AwaitPcs
    <3>2. phase' = phase
      BY <2>3 DEF AwaitRefuses, GotInfo
    <3>. QED  BY <1>4, <3>1, <3>2 DEF Counted
  <2>. QED  BY <2>1, <2>2, <2>3 DEF Await
<1>8. CASE \E i \in Ids : User(i)
  BY <1>8 DEF User, Add, Restore, Pause, Resume, Remove, MoveInQueue
<1>9. CASE \E i \in Ids : Sampler(i) \/ Swarm(i)
  BY <1>0, <1>3, <1>9 DEF Sampler, Swarm, SpacePause, ApplyPolicy, InfoArrives, Completes, Drop
<1>10. CASE FinishResume \/ Promote \/ PauseForShutdown \/ CloseBegin \/ CloseEnd
  BY <1>0, <1>10 DEF FinishResume, Promote, PauseForShutdown, CloseBegin, CloseEnd
<1>. QED  BY <1>6, <1>7, <1>8, <1>9, <1>10 DEF Next

(***************************************************************************)
(* Whatever was in flight when Close began, no fetch and no wait for       *)
(* metadata runs once the client is closed: Close waits for those that     *)
(* were counted, and none is counted after it began.                       *)
(***************************************************************************)
THEOREM ClosedForGood == Spec => []NoWorkAfterClose
<1>1. Init => NoWorkAfterClose
  BY DEF Init, NoWorkAfterClose
<1>2. TypeInv /\ NoWorkAfterClose /\ [Next]_vars => NoWorkAfterClose'
  <2>. SUFFICES ASSUME TypeInv, NoWorkAfterClose, [Next]_vars, phase' = "closed", NEW j \in Ids
                PROVE  ~Counted(j)'
    BY DEF NoWorkAfterClose
  <2>1. CASE UNCHANGED vars
    BY <2>1 DEF vars, NoWorkAfterClose, Counted
  <2>2. CASE Next /\ phase = "closed"
    BY <2>2, ClosedSteps DEF NoWorkAfterClose
  <2>3. CASE CloseEnd
    BY <2>3 DEF CloseEnd, Counted
  <2>4. ASSUME Next, phase # "closed", ~CloseEnd PROVE FALSE
    <3>1. phase' = phase \/ FinishResume \/ CloseBegin
      <4>1. ASSUME NEW i \in Ids, Start(i) \/ Await(i) PROVE phase' = phase
        <5>1. CASE FetchFails(i) \/ FetchClaims(i) \/ AttachFails(i) \/ Retrack(i) \/ ReadHeld(i)
          BY <5>1 DEF FetchFails, FetchClaims, AttachFails, Retrack, TrackErrored, ReadHeld
        <5>2. CASE Join(i) \/ PublishRemoved(i) \/ PublishClosed(i) \/ Publish(i)
          BY <5>2 DEF Join, PublishRemoved, PublishClosed, Publish, PublishTorrent
        <5>3. CASE Await(i)
          BY <5>3 DEF Await, AwaitEnds, AwaitRefuses, Refuse, GotInfo, DownloadAll
        <5>. QED  BY <4>1, <5>1, <5>2, <5>3 DEF Start
      <4>2. ASSUME NEW i \in Ids, User(i) PROVE phase' = phase
        <5>1. ASSUME NEW h, NEW dict, NEW via, NEW p, NEW s,
                     FindOrTrack(i, h, dict, via, p, s) \/ TrackURL(i, via, p, s) \/ TrackErrored(i, h, p, s)
              PROVE  phase' = phase
          BY <5>1 DEF FindOrTrack, TrackURL, TrackErrored
        <5>2. CASE Add(i)
          BY <5>1, <5>2 DEF Add
        <5>3. CASE Restore(i)
          BY <5>1, <5>3 DEF Restore
        <5>4. CASE Pause(i) \/ Resume(i) \/ Remove(i) \/ \E pos \in 0..Cardinality(Ids) : MoveInQueue(i, pos)
          BY <5>4 DEF Pause, Resume, Remove, MoveInQueue
        <5>. QED  BY <4>2, <5>2, <5>3, <5>4 DEF User
      <4>3. ASSUME NEW i \in Ids, Sampler(i) \/ Swarm(i) PROVE phase' = phase
        BY <4>3 DEF Sampler, Swarm, SpacePause, ApplyPolicy, InfoArrives, Completes, Drop
      <4>4. CASE Promote \/ PauseForShutdown
        BY <4>4 DEF Promote, PauseForShutdown
      <4>. QED  BY <2>4, <4>1, <4>2, <4>3, <4>4 DEF Next
    <3>. QED  BY <2>4, <3>1 DEF FinishResume, CloseBegin
  <2>. QED  BY <2>1, <2>2, <2>3, <2>4
<1>. QED  BY <1>1, <1>2, TypeInit, TypeStep, PTL DEF Spec

----------------------------------------------------------------------------
(* The queue. QueueSound is not inductive: a Resume puts an entry back in  *)
(* the state it was paused in, so what a paused entry remembers matters    *)
(* too, and so does that an entry not tracked yet cannot be in the queue.  *)

Startable(r) == r.t # None \/ r.hold # "none"

\* An entry the sample loop may start.
Ready(r) == ~r.paused /\ r.state \in {"queued", "errored"} /\ Startable(r)

\* An entry a Resume leads to a sound state.
Resumable(r) ==
    /\ r.state = "paused" /\ r.pre = "queued" => Startable(r)
    /\ r.spacePaused => r.paused /\ r.pre = "downloading"

Sound(i) ==
    /\ i \in Queued => i \in tracked /\ Ready(tr[i])
    /\ i \in tracked => Resumable(tr[i]) /\ (tr[i].state = "queued" => i \in Queued)
    /\ job[i].pc \in {"new", "retrack"} => i \notin tracked

QueueInv == Distinct(queue) /\ Queued \subseteq Ids /\ \A i \in Ids : Sound(i)

\* A step that concerns entry i and untracks the entries of gone: only i is
\* left to look at.
LEMMA QueueStep ==
    ASSUME QueueInv, NEW i \in Ids, NEW gone,
           Distinct(queue'), Queued' \subseteq Ids,
           \A k \in Ids \ {i} :
              /\ k \in Queued' <=> k \in Queued /\ k \notin gone
              /\ k \in tracked' <=> k \in tracked /\ k \notin gone
              /\ tr'[k] = tr[k] /\ job'[k] = job[k],
           Sound(i)'
    PROVE  QueueInv'
<1>1. ASSUME NEW k \in Ids \ {i} PROVE Sound(k)'
  <2>1. Sound(k)
    BY DEF QueueInv
  <2>2. CASE k \in gone
    BY <2>2 DEF Sound
  <2>3. CASE k \notin gone
    BY <2>1, <2>3 DEF Sound
  <2>. QED  BY <2>2, <2>3
<1>. QED  BY <1>1 DEF QueueInv

\* What the queue's operations make of its members.
LEMMA QueueMembers ==
    ASSUME TypeInv, QueueInv
    PROVE  /\ Queued = Members(queue) /\ Queued' = Members(queue')
           /\ queue' = queue => Distinct(queue') /\ Queued' = Queued
           /\ \A ids : queue' = DequeueAll(queue, ids) => Distinct(queue') /\ Queued' = Queued \ ids
           /\ \A j : queue' = Dequeue(queue, j) => Distinct(queue') /\ Queued' = Queued \ {j}
           /\ \A i \in Ids : queue' = EnqueueIn(queue, i) => Distinct(queue') /\ Queued' = Queued \cup {i}
           /\ \A i \in Ids : \A ids : queue' = EnqueueIn(DequeueAll(queue, ids), i) =>
                Distinct(queue') /\ Queued' = (Queued \ ids) \cup {i}
<1>1. queue \in Seq(Ids) /\ Distinct(queue)
  BY DEF TypeInv, TypeOK, QueueInv
<1>2. Queued = Members(queue) /\ Queued' = Members(queue')
  BY DEF Queued, Members
<1>3. \A ids : /\ DequeueAll(queue, ids) \in Seq(Ids) /\ Distinct(DequeueAll(queue, ids))
               /\ Members(DequeueAll(queue, ids)) = Members(queue) \ ids
  BY <1>1, DequeueAllLeaves
<1>4. \A i \in Ids : /\ Distinct(EnqueueIn(queue, i))
                     /\ Members(EnqueueIn(queue, i)) = Members(queue) \cup {i}
  BY <1>1, EnqueueLeaves
<1>5. ASSUME NEW i \in Ids, NEW ids
      PROVE  /\ Distinct(EnqueueIn(DequeueAll(queue, ids), i))
             /\ Members(EnqueueIn(DequeueAll(queue, ids), i)) = (Members(queue) \ ids) \cup {i}
  BY <1>3, EnqueueLeaves
<1>. QED  BY <1>1, <1>2, <1>3, <1>4, <1>5 DEF Dequeue

LEMMA QueueInit == Init => QueueInv
<1>. SUFFICES ASSUME Init PROVE QueueInv
  OBVIOUS
<1>1. queue = <<>> /\ Queued = {}
  BY DEF Init, Queued
<1>2. Distinct(queue)
  BY <1>1 DEF Distinct
<1>3. tracked = {}
  BY DEF Init
<1>. QED  BY <1>1, <1>2, <1>3 DEF QueueInv, Sound

\* A new entry: it queues startable, or it does not show queued.
LEMMA QueueMint ==
    ASSUME TypeInv, QueueInv, NEW i \in Ids, NEW h \in Hashes \cup {None}, NEW dict \in BOOLEAN,
           NEW via \in {"add", "restore", "url", "promote"}, NEW p \in BOOLEAN, NEW s \in BOOLEAN,
           \/ FindOrTrack(i, h, dict, via, p, s)
           \/ TrackURL(i, via, p, s)
           \/ job[i].pc \in {"new", "retrack"} /\ TrackErrored(i, h, p, s)
    PROVE  QueueInv'
<1>0. tr \in [Ids -> Tracked] /\ job \in [Ids -> Job] /\ i \notin tracked /\ i \notin Queued
  BY DEF TypeInv, TypeOK, QueueInv, Sound, FindOrTrack, TrackURL, Unminted
<1>. USE DEF Startable, Ready, Resumable
<1>1. CASE FindOrTrack(i, h, dict, via, p, s)
  <2>. DEFINE gone  == Matches(h, None)
              entry == [NewTracked(p, s) EXCEPT !.infoHash = h]
              held  == Enqueue([entry EXCEPT !.hold = "spec"])
  <2>1. i \notin gone
    BY <1>0 DEF Matches
  <2>2. /\ tracked' = (tracked \ gone) \cup {i}
        /\ \A k \in Ids \ {i} : tr'[k] = tr[k] /\ job'[k] = job[k]
        /\ job'[i].pc \in {"idle", "attach"}
    BY <1>0, <1>1 DEF FindOrTrack, IdleJob
  <2>3. \/ /\ queue' = EnqueueIn(DequeueAll(queue, gone), i)
           /\ tr'[i] = held /\ ~entry.paused
        \/ /\ queue' = DequeueAll(queue, gone)
           /\ tr'[i] \in {entry, StartPaused(entry)}
    BY <1>0, <1>1 DEF FindOrTrack, NewTracked
  <2>4. /\ entry.state = "checking" /\ entry.spacePaused = FALSE
        /\ StartPaused(entry).state = "paused" /\ StartPaused(entry).pre = "checking"
        /\ StartPaused(entry).spacePaused = FALSE
    BY DEF NewTracked, StartPaused
  <2>5. held.state = "queued" /\ held.hold = "spec" /\ held.spacePaused = FALSE /\ held.paused = entry.paused
    BY DEF NewTracked, Enqueue
  <2>. HIDE DEF gone, entry, held
  <2>6. CASE queue' = EnqueueIn(DequeueAll(queue, gone), i) /\ tr'[i] = held /\ ~entry.paused
    <3>2. Distinct(queue') /\ Queued' = (Queued \ gone) \cup {i}
      BY <2>6, QueueMembers
    <3>3. Sound(i)'
      BY <2>2, <2>5, <2>6, <3>2 DEF Sound
    <3>. QED  BY <2>2, <3>2, <3>3, QueueStep DEF QueueInv
  <2>7. CASE queue' = DequeueAll(queue, gone) /\ tr'[i] \in {entry, StartPaused(entry)}
    <3>1. Distinct(queue') /\ Queued' = Queued \ gone
      BY <2>7, QueueMembers
    <3>2. Sound(i)'
      BY <1>0, <2>2, <2>4, <2>7, <3>1 DEF Sound
    <3>. QED  BY <2>2, <3>1, <3>2, QueueStep DEF QueueInv
  <2>. QED  BY <2>3, <2>6, <2>7
<1>2. CASE TrackURL(i, via, p, s)
  <2>. DEFINE entry == NewTracked(p, s)
              held  == Enqueue([entry EXCEPT !.hold = "url"])
  <2>1. /\ tracked' = tracked \cup {i}
        /\ \A k \in Ids \ {i} : tr'[k] = tr[k] /\ job'[k] = job[k]
        /\ job'[i].pc \in {"idle", "fetch"}
    BY <1>0, <1>2 DEF TrackURL, IdleJob
  <2>2. \/ /\ queue' = EnqueueIn(queue, i)
           /\ tr'[i] = held /\ ~entry.paused
        \/ /\ queue' = queue
           /\ tr'[i] \in {entry, StartPaused(entry)}
    BY <1>0, <1>2 DEF TrackURL
  <2>3. /\ entry.state = "checking" /\ entry.spacePaused = FALSE
        /\ StartPaused(entry).state = "paused" /\ StartPaused(entry).pre = "checking"
        /\ StartPaused(entry).spacePaused = FALSE
    BY DEF NewTracked, StartPaused
  <2>4. held.state = "queued" /\ held.hold = "url" /\ held.spacePaused = FALSE /\ held.paused = entry.paused
    BY DEF NewTracked, Enqueue
  <2>. HIDE DEF entry, held
  <2>5. CASE queue' = EnqueueIn(queue, i) /\ tr'[i] = held /\ ~entry.paused
    <3>1. Distinct(queue') /\ Queued' = Queued \cup {i}
      BY <2>5, QueueMembers
    <3>2. Sound(i)'
      BY <2>1, <2>4, <2>5, <3>1 DEF Sound
    <3>. QED  BY <2>1, <3>1, <3>2, QueueStep DEF QueueInv
  <2>6. CASE queue' = queue /\ tr'[i] \in {entry, StartPaused(entry)}
    <3>1. Distinct(queue') /\ Queued' = Queued
      BY <2>6, QueueMembers
    <3>2. Sound(i)'
      BY <1>0, <2>1, <2>3, <2>6, <3>1 DEF Sound
    <3>. QED  BY <2>1, <3>1, <3>2, QueueStep DEF QueueInv
  <2>. QED  BY <2>2, <2>5, <2>6
<1>3. CASE TrackErrored(i, h, p, s)
  <2>. DEFINE entry == [NewTracked(p, s) EXCEPT !.state = "errored", !.refused = TRUE, !.infoHash = h]
  <2>1. entry.state = "errored" /\ entry.spacePaused = FALSE
    BY DEF NewTracked
  <2>2. tr'[i] = entry
    BY <1>0, <1>3 DEF TrackErrored
  <2>. HIDE DEF entry
  <2>3. /\ tracked' = tracked \cup {i} /\ queue' = queue
        /\ \A k \in Ids \ {i} : tr'[k] = tr[k] /\ job'[k] = job[k]
        /\ job'[i].pc = "idle"
    BY <1>0, <1>3 DEF TrackErrored, IdleJob
  <2>4. Distinct(queue') /\ Queued' = Queued
    BY <2>3, QueueMembers
  <2>5. Sound(i)'
    BY <1>0, <2>1, <2>2, <2>3, <2>4 DEF Sound
  <2>. QED  BY <2>3, <2>4, <2>5, QueueStep DEF QueueInv
<1>. QED  BY <1>1, <1>2, <1>3

\* A failure leaves the entry errored, in the queue if it was there.
LEMMA FailSound ==
    ASSUME NEW r \in Tracked, NEW f \in {Fail(r), [Fail(r) EXCEPT !.refused = TRUE]}
    PROVE  /\ f.state = "errored" /\ (Ready(r) => Ready(f)) /\ (Resumable(r) => Resumable(f))
  BY DEF Tracked, Fail, Ready, Resumable, Startable

\* A step that leaves the queue and the tracked set alone, and makes no job
\* one of an untracked entry.
LEMMA QueueQuiet ==
    ASSUME TypeInv, QueueInv, NEW i \in Ids, queue' = queue, tracked' = tracked,
           \A k \in Ids \ {i} : tr'[k] = tr[k] /\ job'[k] = job[k],
           job'[i].pc \in {"new", "retrack"} => job[i].pc = job'[i].pc,
           Ready(tr[i]) => Ready(tr'[i]),
           Resumable(tr[i]) => Resumable(tr'[i]),
           tr'[i].state = "queued" => tr[i].state = "queued"
    PROVE  QueueInv'
<1>1. Distinct(queue') /\ Queued' = Queued
  BY QueueMembers
<1>2. Sound(i)
  BY DEF QueueInv
<1>3. Sound(i)'
  BY <1>1, <1>2 DEF Sound
<1>. QED  BY <1>1, <1>3, QueueStep DEF QueueInv

LEMMA QueueStart ==
    ASSUME TypeInv, QueueInv, NEW i \in Ids, Start(i) \/ Await(i)
    PROVE  QueueInv'
<1>0. /\ tr \in [Ids -> Tracked] /\ job \in [Ids -> Job] /\ tr[i] \in Tracked /\ job[i] \in Job
      /\ Sound(i) /\ Queued \subseteq Ids
  BY DEF TypeInv, TypeOK, QueueInv
<1>1. ASSUME Done(i) PROVE job'[i].pc = "idle" /\ \A k \in Ids \ {i} : job'[k] = job[k]
  BY <1>0, <1>1 DEF Done, IdleJob
<1>2. ASSUME NEW pc, SetPc(i, pc) PROVE job'[i].pc = pc /\ \A k \in Ids \ {i} : job'[k] = job[k]
  BY <1>0, <1>2 DEF SetPc, Job
<1>3. ASSUME NEW f \in {Fail(tr[i]), [Fail(tr[i]) EXCEPT !.refused = TRUE]},
             tr' = [tr EXCEPT ![i] = f], Done(i), queue' = queue, tracked' = tracked
      PROVE  QueueInv'
  <2>1. /\ tr'[i] = f /\ \A k \in Ids \ {i} : tr'[k] = tr[k]
    BY <1>0, <1>3
  <2>2. f.state = "errored" /\ (Ready(tr[i]) => Ready(f)) /\ (Resumable(tr[i]) => Resumable(f))
    BY <1>0, FailSound
  <2>. QED  BY <1>1, <1>3, <2>1, <2>2, QueueQuiet
<1>4. ASSUME tr' = tr, queue' = queue, tracked' = tracked, job'[i].pc \notin {"new", "retrack"},
             \A k \in Ids \ {i} : job'[k] = job[k]
      PROVE  QueueInv'
  BY <1>4, QueueQuiet
<1>5. ASSUME AttachFailure(i) PROVE QueueInv'
  <2>1. CASE job[i].via \in {"add", "restore"}
    <3>1. /\ tracked' = tracked \ {i} /\ queue' = Dequeue(queue, i) /\ tr' = tr
          /\ SetPc(i, "retrack") \/ Done(i)
      BY <1>5, <2>1 DEF AttachFailure
    <3>2. Distinct(queue') /\ Queued' = Queued \ {i}
      BY <3>1, QueueMembers
    <3>3. \A k \in Ids \ {i} : job'[k] = job[k]
      BY <1>1, <1>2, <3>1
    <3>4. Sound(i)'
      BY <3>1, <3>2 DEF Sound
    <3>. QED  BY <1>0, <3>1, <3>2, <3>3, <3>4, QueueStep
  <2>2. CASE job[i].via = "url"
    <3>1. tr' = [tr EXCEPT ![i] = Fail(tr[i])] /\ Done(i) /\ queue' = queue /\ tracked' = tracked
      BY <1>0, <1>5, <2>2 DEF AttachFailure, FailEntry
    <3>. QED  BY <1>3, <3>1
  <2>3. CASE job[i].via = "promote"
    <3>1. /\ tr' = [tr EXCEPT ![i] = [Fail(tr[i]) EXCEPT !.refused = TRUE]]
          /\ Done(i) /\ queue' = queue /\ tracked' = tracked
      BY <1>0, <1>5, <2>3 DEF AttachFailure
    <3>. QED  BY <1>3, <3>1
  <2>4. job[i].via \in {"add", "restore", "url", "promote"}
    BY <1>0 DEF Job
  <2>. QED  BY <2>1, <2>2, <2>3, <2>4
<1>6. CASE FetchFails(i)
  <2>1. tr' = [tr EXCEPT ![i] = Fail(tr[i])] /\ Done(i) /\ queue' = queue /\ tracked' = tracked
    BY <1>0, <1>6 DEF FetchFails, FailEntry
  <2>. QED  BY <1>3, <2>1
<1>7. CASE FetchClaims(i)
  <2>1. PICK h \in Hashes :
          /\ tracked' = tracked \ Matches(h, i) /\ queue' = DequeueAll(queue, Matches(h, i))
          /\ tr' = tr /\ job'[i].pc = "attach" /\ \A k \in Ids \ {i} : job'[k] = job[k]
    BY <1>0, <1>7 DEF FetchClaims, Job
  <2>2. i \notin Matches(h, i)
    BY DEF Matches
  <2>. DEFINE gone == Matches(h, i)
  <2>3. Distinct(queue') /\ Queued' = Queued \ gone
    BY <2>1, QueueMembers
  <2>. HIDE DEF gone
  <2>4. tracked' = tracked \ gone /\ i \notin gone
    BY <2>1, <2>2 DEF gone
  <2>5. Sound(i)'
    BY <1>0, <2>1, <2>3, <2>4 DEF Sound
  <2>. QED  BY <1>0, <2>1, <2>3, <2>4, <2>5, QueueStep
<1>8. CASE AttachFails(i) \/ PublishClosed(i)
  BY <1>5, <1>8 DEF AttachFails, PublishClosed
<1>9. CASE Retrack(i)
  <2>1. /\ job[i].hash \in Hashes \cup {None} /\ tr[i].userPaused \in BOOLEAN
        /\ tr[i].seedDone \in BOOLEAN
    BY Parts DEF TypeInv
  <2>2. job[i].pc = "retrack" /\ TrackErrored(i, job[i].hash, tr[i].userPaused, tr[i].seedDone)
    BY <1>9 DEF Retrack
  <2>. QED  BY <2>1, <2>2, QueueMint
<1>10. CASE ReadHeld(i) \/ Join(i)
  <2>1. tr' = tr /\ queue' = queue /\ tracked' = tracked
    BY <1>10 DEF ReadHeld, Join
  <2>2. \/ job' = [job EXCEPT ![i].pc = "join", ![i].held = tr[i].paused]
        \/ \E o : job' = [job EXCEPT ![i].pc = "publish", ![i].t = o]
    BY <1>10 DEF ReadHeld, Join
  <2>3. job'[i].pc \in {"join", "publish"} /\ \A k \in Ids \ {i} : job'[k] = job[k]
    BY <1>0, <2>2 DEF Job
  <2>. QED  BY <1>4, <2>1, <2>3
<1>11. CASE PublishRemoved(i) \/ AwaitEnds(i) \/ DownloadAll(i)
  BY <1>1, <1>4, <1>11 DEF PublishRemoved, AwaitEnds, DownloadAll
<1>12. CASE Publish(i)
  <2>. DEFINE r == [tr[i] EXCEPT !.t = job[i].t, !.infoHash = lib[job[i].t].hash]
  <2>1. tr' = [tr EXCEPT ![i] = r] /\ queue' = queue /\ tracked' = tracked /\ SetPc(i, "await")
    BY <1>0, <1>12 DEF Publish, PublishTorrent
  <2>2. job[i].t # None
    BY <1>12, NoneAssumption DEF Publish, TypeInv, JobTorrent
  <2>3. r.t # None /\ r.state = tr[i].state /\ r.pre = tr[i].pre /\ r.paused = tr[i].paused
        /\ r.spacePaused = tr[i].spacePaused
    BY <1>0, <2>2 DEF Tracked
  <2>. HIDE DEF r
  <2>4. tr'[i] = r /\ \A k \in Ids \ {i} : tr'[k] = tr[k]
    BY <1>0, <2>1
  <2>5. (Ready(tr[i]) => Ready(r)) /\ (Resumable(tr[i]) => Resumable(r))
    BY <2>3 DEF Ready, Resumable, Startable
  <2>. QED  BY <1>2, <2>1, <2>3, <2>4, <2>5, QueueQuiet
<1>13. CASE AwaitRefuses(i)
  BY <1>2, <1>4, <1>13 DEF AwaitRefuses
<1>14. CASE Refuse(i)
  <2>1. /\ tr' = [tr EXCEPT ![i] = [Fail(tr[i]) EXCEPT !.refused = TRUE]]
        /\ Done(i) /\ queue' = queue /\ tracked' = tracked
    BY <1>0, <1>14 DEF Refuse
  <2>. QED  BY <1>3, <2>1
<1>15. CASE GotInfo(i)
  <2>1. queue' = queue /\ tracked' = tracked /\ SetPc(i, "deletes")
    BY <1>15 DEF GotInfo
  <2>2. PICK r \in {tr[i], [tr[i] EXCEPT !.pre = "downloading"], [tr[i] EXCEPT !.state = "downloading"]} :
          /\ tr' = [tr EXCEPT ![i] = r]
          /\ \/ r = tr[i]
             \/ tr[i].paused /\ r = [tr[i] EXCEPT !.pre = "downloading"]
             \/ ~tr[i].paused /\ tr[i].state = "checking" /\ r = [tr[i] EXCEPT !.state = "downloading"]
    BY <1>0, <1>15 DEF GotInfo
  <2>3. (Ready(tr[i]) => Ready(r)) /\ (Resumable(tr[i]) => Resumable(r))
        /\ (r.state = "queued" => tr[i].state = "queued")
    BY <1>0, <2>2 DEF Ready, Resumable, Startable, Tracked
  <2>4. tr'[i] = r /\ \A k \in Ids \ {i} : tr'[k] = tr[k]
    BY <1>0, <2>2
  <2>. QED  BY <1>2, <2>1, <2>3, <2>4, QueueQuiet
<1>. QED
  BY <1>6, <1>7, <1>8, <1>9, <1>10, <1>11, <1>12, <1>13, <1>14, <1>15 DEF Start, Await

\* What Resume makes of an entry: in a state it may show, or to be queued.
LEMMA UnpauseSound ==
    ASSUME NEW r \in Tracked, Resumable(r), r.paused, r.state # "queued"
    PROVE  LET u == Unpause(r)
           IN /\ ~u.paused /\ ~u.spacePaused
              /\ Startable(u) <=> Startable(r)
              /\ u.state = "queued" => Startable(u)
              /\ u.state = "paused" => u.pre # "queued"
<1>. DEFINE v == [r EXCEPT !.paused = FALSE, !.userPaused = FALSE]
<1>1. /\ ~v.paused /\ v.state = r.state /\ v.pre = r.pre /\ v.spacePaused = r.spacePaused
      /\ v.seedDone = r.seedDone /\ v.t = r.t /\ v.hold = r.hold /\ v \in Tracked
  BY DEF Tracked
<1>2. Unpause(r) = IF v.spacePaused THEN [v EXCEPT !.spacePaused = FALSE, !.state = v.pre]
                   ELSE IF v.seedDone /\ v.state # "errored"
                   THEN [v EXCEPT !.seedDone = FALSE, !.seedOverride = TRUE, !.state = "seeding"]
                   ELSE IF v.state = "paused" THEN [v EXCEPT !.state = v.pre] ELSE v
  BY DEF Unpause
<1>. HIDE DEF v
<1>3. CASE v.spacePaused
  BY <1>1, <1>2, <1>3 DEF Tracked, Resumable, Startable
<1>4. CASE ~v.spacePaused /\ v.seedDone /\ v.state # "errored"
  BY <1>1, <1>2, <1>4 DEF Tracked, Resumable, Startable
<1>5. CASE ~v.spacePaused /\ ~(v.seedDone /\ v.state # "errored") /\ v.state = "paused"
  BY <1>1, <1>2, <1>5 DEF Tracked, Resumable, Startable
<1>6. CASE ~v.spacePaused /\ ~(v.seedDone /\ v.state # "errored") /\ v.state # "paused"
  BY <1>1, <1>2, <1>6 DEF Tracked, Resumable, Startable
<1>. QED  BY <1>3, <1>4, <1>5, <1>6

\* A pause takes the entry out of the queue and remembers it was in it.
LEMMA PauseSound ==
    ASSUME NEW r \in Tracked, ~r.paused, Resumable(r), r.state = "queued" => Startable(r),
           NEW u \in {PauseEntry(r), [PauseEntry(r) EXCEPT !.userPaused = TRUE]}
    PROVE  Resumable(u) /\ u.state # "queued"
<1>1. CASE r.state = "errored"
  BY <1>1 DEF Tracked, PauseEntry, Resumable, Startable
<1>2. CASE r.state # "errored"
  BY <1>2 DEF Tracked, PauseEntry, Resumable, Startable
<1>. QED  BY <1>1, <1>2

LEMMA QueueUser ==
    ASSUME TypeInv, QueueInv, NEW i \in Ids, User(i)
    PROVE  QueueInv'
<1>0. /\ tr \in [Ids -> Tracked] /\ job \in [Ids -> Job] /\ tr[i] \in Tracked /\ Sound(i)
      /\ queue \in Seq(Ids) /\ Queued \subseteq Ids
  BY DEF TypeInv, TypeOK, QueueInv
<1>1. CASE Add(i)
  <2>1. CASE \E h \in Hashes, dict \in BOOLEAN : FindOrTrack(i, h, dict, "add", FALSE, FALSE)
    BY <2>1, QueueMint
  <2>2. CASE TrackURL(i, "url", FALSE, FALSE)
    <3>1. None \in Hashes \cup {None}
      OBVIOUS
    <3>. QED  BY <2>2, <3>1, QueueMint
  <2>. QED  BY <1>1, <2>1, <2>2 DEF Add
<1>2. CASE Restore(i)
  <2>1. PICK p \in BOOLEAN, s \in BOOLEAN, h \in Hashes \cup {None}, dict \in BOOLEAN :
          \/ FindOrTrack(i, h, dict, "restore", p, s)
          \/ i \in Unminted /\ TrackErrored(i, h, p, s)
          \/ TrackURL(i, "url", p, FALSE)
    BY <1>2 DEF Restore
  <2>2. CASE FindOrTrack(i, h, dict, "restore", p, s)
    BY <2>2, QueueMint
  <2>3. CASE i \in Unminted /\ TrackErrored(i, h, p, s)
    <3>1. job[i].pc \in {"new", "retrack"}
      BY <2>3 DEF Unminted
    <3>. QED  BY <2>3, <3>1, QueueMint
  <2>4. CASE TrackURL(i, "url", p, FALSE)
    BY <2>4, QueueMint
  <2>. QED  BY <2>1, <2>2, <2>3, <2>4
<1>3. CASE Pause(i) /\ tr[i].paused
  <2>1. tr' = tr /\ queue' = queue /\ tracked' = tracked /\ job' = job
    BY <1>3 DEF Pause
  <2>. QED  BY <2>1, QueueQuiet
<1>4. CASE Pause(i) /\ ~tr[i].paused
  <2>. DEFINE u == [PauseEntry(tr[i]) EXCEPT !.userPaused = TRUE]
  <2>1. /\ i \in tracked /\ tracked' = tracked /\ job' = job
        /\ tr' = [tr EXCEPT ![i] = u] /\ queue' = Dequeue(queue, i)
    BY <1>0, <1>4 DEF Pause
  <2>2. Resumable(u) /\ u.state # "queued"
    <3>1. Resumable(tr[i]) /\ (tr[i].state = "queued" => Startable(tr[i]))
      BY <1>0, <2>1 DEF Sound, Ready
    <3>. QED  BY <1>0, <1>4, <3>1, PauseSound
  <2>. HIDE DEF u
  <2>3. Distinct(queue') /\ Queued' = Queued \ {i}
    BY <2>1, QueueMembers
  <2>4. tr'[i] = u /\ \A k \in Ids \ {i} : tr'[k] = tr[k]
    BY <1>0, <2>1
  <2>5. Sound(i)'
    BY <1>0, <2>1, <2>2, <2>3, <2>4 DEF Sound
  <2>6. \A k \in Ids \ {i} : /\ k \in Queued' <=> k \in Queued /\ k \notin {i}
                            /\ k \in tracked' <=> k \in tracked /\ k \notin {i}
    BY <2>1, <2>3
  <2>. QED  BY <1>0, <2>1, <2>3, <2>4, <2>5, <2>6, QueueStep
<1>5. CASE Resume(i)
  <2>. DEFINE u == Unpause(tr[i])
  <2>1. i \in tracked /\ tr[i].paused /\ tracked' = tracked /\ job' = job
    BY <1>5 DEF Resume
  <2>2. i \notin Queued /\ Resumable(tr[i]) /\ tr[i].state # "queued"
    BY <1>0, <2>1 DEF Sound, Ready
  <2>3. ~u.paused /\ ~u.spacePaused /\ (u.state = "queued" => Startable(u))
        /\ (u.state = "paused" => u.pre # "queued")
    BY <1>0, <2>1, <2>2, UnpauseSound
  <2>4. u \in Tracked
    BY <1>0, EntryTypes
  <2>5. \/ /\ tr' = [tr EXCEPT ![i] = Enqueue(u)] /\ queue' = EnqueueIn(queue, i)
           /\ Startable(u)
        \/ /\ tr' = [tr EXCEPT ![i] = u] /\ queue' = queue
           /\ ~(Startable(u) /\ u.state = "queued")
    BY <1>5 DEF Resume, Startable
  <2>. HIDE DEF u
  <2>6. CASE tr' = [tr EXCEPT ![i] = Enqueue(u)] /\ queue' = EnqueueIn(queue, i) /\ Startable(u)
    <3>1. Distinct(queue') /\ Queued' = Queued \cup {i}
      BY <2>6, QueueMembers
    <3>2. tr'[i] = Enqueue(u) /\ \A k \in Ids \ {i} : tr'[k] = tr[k]
      BY <1>0, <2>6
    <3>3. Ready(Enqueue(u)) /\ Resumable(Enqueue(u))
      BY <2>3, <2>4, <2>6 DEF Enqueue, Ready, Resumable, Startable, Tracked
    <3>4. Sound(i)'
      BY <1>0, <2>1, <3>1, <3>2, <3>3 DEF Sound
    <3>5. \A k \in Ids \ {i} : /\ k \in Queued' <=> k \in Queued /\ k \notin {i}
                              /\ k \in tracked' <=> k \in tracked /\ k \notin {i}
      BY <2>1, <3>1
    <3>. QED  BY <1>0, <2>1, <3>1, <3>2, <3>4, <3>5, QueueStep
  <2>7. CASE tr' = [tr EXCEPT ![i] = u] /\ queue' = queue /\ ~(Startable(u) /\ u.state = "queued")
    <3>1. Distinct(queue') /\ Queued' = Queued
      BY <2>7, QueueMembers
    <3>2. tr'[i] = u /\ \A k \in Ids \ {i} : tr'[k] = tr[k]
      BY <1>0, <2>7
    <3>3. u.state # "queued"
      BY <2>3, <2>7
    <3>5. Sound(i)'
      BY <1>0, <2>1, <2>2, <2>3, <3>1, <3>2, <3>3 DEF Sound, Resumable
    <3>. QED  BY <1>0, <2>1, <3>1, <3>2, <3>5, QueueStep
  <2>. QED  BY <2>5, <2>6, <2>7
<1>6. CASE Remove(i)
  <2>1. /\ tracked' = tracked \ {i} /\ queue' = Dequeue(queue, i) /\ job' = job
        /\ \A k \in Ids \ {i} : tr'[k] = tr[k]
    BY <1>0, <1>6 DEF Remove
  <2>2. Distinct(queue') /\ Queued' = Queued \ {i}
    BY <2>1, QueueMembers
  <2>3. Sound(i)'
    BY <2>1, <2>2 DEF Sound
  <2>. QED  BY <1>0, <2>1, <2>2, <2>3, QueueStep
<1>7. ASSUME NEW pos \in 0..Cardinality(Ids), MoveInQueue(i, pos) PROVE QueueInv'
  <2>. DEFINE rest == Dequeue(queue, i)
              at   == IF pos > Len(rest) THEN Len(rest) ELSE pos
  <2>1. rest \in Seq(Ids) /\ Members(rest) = Queued \ {i} /\ Distinct(rest)
    <3>1. Distinct(queue) /\ Queued = Members(queue)
      BY DEF QueueInv, Queued, Members
    <3>. QED  BY <1>0, <3>1, DequeueAllLeaves DEF Dequeue
  <2>2. at \in Nat /\ at <= Len(rest)
    <3>1. pos \in Nat /\ Len(rest) \in Nat
      BY <2>1
    <3>. HIDE DEF rest
    <3>. QED  BY <3>1
  <2>3. queue' = Insert(rest, at, i) /\ tr' = tr /\ tracked' = tracked /\ job' = job /\ i \in Queued
    BY <1>7 DEF MoveInQueue
  <2>. HIDE DEF rest, at
  <2>4. Distinct(queue') /\ Members(queue') = Queued
    <3>1. i \notin Members(rest)
      BY <2>1
    <3>2. Members(queue') = Members(rest) \cup {i} /\ Distinct(queue')
      BY <2>1, <2>2, <2>3, <3>1, InsertLeaves
    <3>. QED  BY <2>1, <2>3, <3>2
  <2>5. Queued' = Queued
    BY <2>4 DEF Queued, Members
  <2>6. Sound(i)'
    BY <1>0, <2>3, <2>5 DEF Sound
  <2>. QED  BY <1>0, <2>3, <2>4, <2>5, <2>6, QueueStep
<1>. QED  BY <1>1, <1>2, <1>3, <1>4, <1>5, <1>6, <1>7 DEF User

LEMMA QueueRest ==
    ASSUME TypeInv, QueueInv,
           \/ \E i \in Ids : Sampler(i) \/ Swarm(i)
           \/ FinishResume \/ Promote \/ PauseForShutdown \/ CloseBegin \/ CloseEnd
    PROVE  QueueInv'
<1>0. /\ tr \in [Ids -> Tracked] /\ job \in [Ids -> Job] /\ queue \in Seq(Ids) /\ Queued \subseteq Ids
      /\ \A k \in Ids : tr[k] \in Tracked /\ job[k] \in Job /\ Sound(k)
  BY DEF TypeInv, TypeOK, QueueInv
<1>1. ASSUME tr' = tr, queue' = queue, tracked' = tracked, job' = job PROVE QueueInv'
  <2>1. Distinct(queue') /\ Queued' = Queued
    BY <1>1, QueueMembers
  <2>. QED  BY <1>0, <1>1, <2>1 DEF QueueInv, Sound
<1>2. ASSUME NEW i \in Ids, SpacePause(i) PROVE QueueInv'
  <2>. DEFINE r == [tr[i] EXCEPT !.paused = TRUE, !.spacePaused = TRUE,
                                 !.pre = "downloading", !.state = "errored"]
  <2>1. tr' = [tr EXCEPT ![i] = r] /\ queue' = queue /\ tracked' = tracked /\ job' = job
    BY <1>0, <1>2 DEF SpacePause
  <2>2. i \in tracked /\ tr[i].state = "downloading"
    BY <1>2 DEF SpacePause
  <2>3. i \notin Queued
    BY <1>0, <2>2 DEF Sound, Ready
  <2>4. Resumable(r) /\ r.state = "errored"
    <3>1. tr[i] \in Tracked
      BY <1>0
    <3>. QED  BY <3>1 DEF Resumable, Startable, Tracked
  <2>. HIDE DEF r
  <2>5. Distinct(queue') /\ Queued' = Queued
    BY <2>1, QueueMembers
  <2>6. tr'[i] = r /\ \A k \in Ids \ {i} : tr'[k] = tr[k]
    BY <1>0, <2>1
  <2>7. Sound(i)'
    BY <1>0, <2>1, <2>2, <2>3, <2>4, <2>5, <2>6 DEF Sound
  <2>. QED  BY <1>0, <2>1, <2>5, <2>6, <2>7, QueueStep
<1>3. ASSUME NEW i \in Ids, ApplyPolicy(i) PROVE QueueInv'
  <2>1. queue' = queue /\ tracked' = tracked /\ job' = job /\ i \in tracked /\ ~tr[i].paused
    BY <1>3 DEF ApplyPolicy
  <2>. DEFINE u == [tr[i] EXCEPT !.state = "seeding"]
              s == [tr[i] EXCEPT !.paused = TRUE, !.seedDone = TRUE, !.pre = "seeding", !.state = "paused"]
              v == [u EXCEPT !.paused = TRUE, !.seedDone = TRUE, !.pre = "seeding", !.state = "paused"]
  <2>2. tr[i].state \in {"downloading", "seeding"} /\ \E r \in {u, s, v} : tr' = [tr EXCEPT ![i] = r]
    BY <1>0, <1>3 DEF ApplyPolicy
  <2>3. i \notin Queued
    BY <1>0, <2>1, <2>2 DEF Sound, Ready
  <2>4. ~tr[i].spacePaused
    BY <1>0, <2>1 DEF Sound, Resumable
  <2>5. \A r \in {u, s, v} : Resumable(r) /\ r.state # "queued"
    <3>1. tr[i] \in Tracked
      BY <1>0
    <3>. QED  BY <2>4, <3>1 DEF Resumable, Startable, Tracked
  <2>. HIDE DEF u, s, v
  <2>6. Distinct(queue') /\ Queued' = Queued
    BY <2>1, QueueMembers
  <2>7. tr'[i] \in {u, s, v} /\ \A k \in Ids \ {i} : tr'[k] = tr[k]
    BY <1>0, <2>2
  <2>8. Sound(i)'
    BY <1>0, <2>1, <2>3, <2>5, <2>6, <2>7 DEF Sound
  <2>. QED  BY <1>0, <2>1, <2>6, <2>7, <2>8, QueueStep
<1>4. ASSUME NEW o \in Ids, Swarm(o) PROVE QueueInv'
  BY <1>1, <1>4 DEF Swarm, InfoArrives, Completes, Drop
<1>5. CASE FinishResume \/ CloseBegin \/ CloseEnd
  BY <1>1, <1>5 DEF FinishResume, CloseBegin, CloseEnd
<1>6. CASE PauseForShutdown
  <2>. DEFINE now == {k \in tracked : ~tr[k].paused}
  <2>1. /\ queue' = DequeueAll(queue, now) /\ tracked' = tracked /\ job' = job
        /\ \A k \in Ids : tr'[k] = IF k \in now THEN PauseEntry(tr[k]) ELSE tr[k]
    BY <1>6 DEF PauseForShutdown
  <2>2. Queued \subseteq now
    BY <1>0 DEF Sound, Ready
  <2>3. Distinct(queue') /\ Queued' = Queued \ now
    BY <2>1, QueueMembers
  <2>4. Queued' = {}
    BY <2>2, <2>3
  <2>5. ASSUME NEW k \in Ids PROVE Sound(k)'
    <3>1. CASE k \in now
      <4>1. Resumable(tr[k]) /\ ~tr[k].paused /\ (tr[k].state = "queued" => Startable(tr[k]))
        BY <1>0, <3>1 DEF Sound, Ready
      <4>2. Resumable(PauseEntry(tr[k])) /\ PauseEntry(tr[k]).state # "queued"
        BY <1>0, <4>1, PauseSound
      <4>3. tr'[k] = PauseEntry(tr[k])
        BY <2>1, <3>1
      <4>. QED  BY <1>0, <2>1, <2>4, <4>2, <4>3 DEF Sound
    <3>2. CASE k \notin now
      <4>1. tr'[k] = tr[k]
        BY <2>1, <3>2
      <4>2. k \in tracked => tr[k].state # "queued"
        BY <1>0, <2>2, <3>2 DEF Sound
      <4>. QED  BY <1>0, <2>1, <2>4, <4>1, <4>2 DEF Sound
    <3>. QED  BY <3>1, <3>2
  <2>. QED  BY <2>3, <2>4, <2>5 DEF QueueInv
<1>7. CASE Promote
  <2>1. PICK i \in Queued : i = NextUp
    BY <1>0, <1>7 DEF Promote, NextUp, Queued
  <2>2. i \in Ids /\ i \in tracked /\ ~tr[i].paused /\ Resumable(tr[i]) /\ tr[i] \in Tracked
    BY <1>0, <2>1 DEF Sound, Ready
  <2>3. queue' = Dequeue(queue, i) /\ tracked' = tracked
    BY <1>7, <2>1 DEF Promote
  <2>4. Distinct(queue') /\ Queued' = Queued \ {i}
    BY <2>3, QueueMembers
  <2>5. \E st \in {"downloading", "checking"} :
           \/ tr' = [tr EXCEPT ![i] = [tr[i] EXCEPT !.state = st]]
           \/ tr' = [tr EXCEPT ![i] = [tr[i] EXCEPT !.state = st, !.hold = "none"]]
    BY <1>0, <1>7, <2>1, <2>2 DEF Promote
  <2>6. /\ \A k \in Ids \ {i} : job'[k] = job[k]
        /\ job'[i].pc \in {"fetch", "attach"} \/ job'[i].pc = job[i].pc
    <3>1. \/ job' = job
          \/ job' = [job EXCEPT ![i].pc = "fetch"]
          \/ job' = [job EXCEPT ![i].pc = "attach", ![i].via = "promote"]
      BY <1>7, <2>1 DEF Promote
    <3>2. job[i] \in Job
      BY <1>0, <2>2
    <3>. QED  BY <1>0, <2>2, <3>1, <3>2 DEF Job
  <2>7. /\ \A k \in Ids \ {i} : tr'[k] = tr[k]
        /\ tr'[i].state \in {"downloading", "checking"} /\ tr'[i].spacePaused = tr[i].spacePaused
    <3>0. PICK st \in {"downloading", "checking"} :
            \/ tr' = [tr EXCEPT ![i] = [tr[i] EXCEPT !.state = st]]
            \/ tr' = [tr EXCEPT ![i] = [tr[i] EXCEPT !.state = st, !.hold = "none"]]
      BY <2>5
    <3>1. PICK r \in {[tr[i] EXCEPT !.state = st], [tr[i] EXCEPT !.state = st, !.hold = "none"]} :
            tr' = [tr EXCEPT ![i] = r]
      BY <3>0
    <3>2. r.state = st /\ r.spacePaused = tr[i].spacePaused
      BY <2>2 DEF Tracked
    <3>3. tr'[i] = r /\ \A k \in Ids \ {i} : tr'[k] = tr[k]
      BY <1>0, <2>2, <3>1
    <3>. QED  BY <3>2, <3>3
  <2>8. Resumable(tr'[i]) /\ tr'[i].state # "queued"
    BY <2>2, <2>7 DEF Resumable
  <2>9. Sound(i)'
    BY <1>0, <2>2, <2>3, <2>4, <2>6, <2>8 DEF Sound
  <2>10. \A k \in Ids \ {i} : /\ k \in Queued' <=> k \in Queued /\ k \notin {i}
                             /\ k \in tracked' <=> k \in tracked /\ k \notin {i}
    BY <2>3, <2>4
  <2>. QED  BY <1>0, <2>2, <2>4, <2>6, <2>7, <2>9, <2>10, QueueStep
<1>. QED
  BY <1>2, <1>3, <1>4, <1>5, <1>6, <1>7 DEF Sampler

(***************************************************************************)
(* Whatever the callers, the failures and the sample loop interleave to,   *)
(* promoteOneLocked always finds at the head of the queue a tracked,       *)
(* unpaused entry with something to start it from, and no entry shows      *)
(* "queued" outside the queue.                                             *)
(***************************************************************************)
THEOREM QueueCorrect == Spec => []QueueSound
<1>1. TypeInv /\ QueueInv /\ [Next]_vars => QueueInv'
  <2>. SUFFICES ASSUME TypeInv, QueueInv, [Next]_vars PROVE QueueInv'
    OBVIOUS
  <2>1. CASE \E i \in Ids : Start(i) \/ Await(i)
    BY <2>1, QueueStart
  <2>2. CASE \E i \in Ids : User(i)
    BY <2>2, QueueUser
  <2>3. CASE \/ \E i \in Ids : Sampler(i) \/ Swarm(i)
             \/ FinishResume \/ Promote \/ PauseForShutdown \/ CloseBegin \/ CloseEnd
    BY <2>3, QueueRest
  <2>4. CASE UNCHANGED vars
    <3>1. /\ queue' = queue /\ tracked' = tracked /\ tr' = tr /\ job' = job
      BY <2>4 DEF vars
    <3>2. Queued' = Queued
      BY <3>1 DEF Queued
    <3>. QED  BY <3>1, <3>2 DEF QueueInv, Sound
  <2>. QED  BY <2>1, <2>2, <2>3, <2>4 DEF Next
<1>2. TypeInv /\ QueueInv => QueueSound
  <2>. SUFFICES ASSUME TypeInv, QueueInv PROVE QueueSound
    OBVIOUS
  <2>1. tracked \subseteq Ids
    BY DEF TypeInv, TypeOK
  <2>. QED  BY <2>1 DEF QueueInv, QueueSound, Sound, Ready, Startable, Distinct
<1>. QED  BY <1>1, <1>2, TypeInit, TypeStep, QueueInit, PTL DEF Spec

----------------------------------------------------------------------------
(***************************************************************************)
(* Which entry manages which torrent of the library's client, and what     *)
(* follows for the gates: no torrent is left in the client with nobody to  *)
(* manage it, and - as long as every source names its infohash when it is  *)
(* added - one entry per infohash whose gates do what it shows.  Then the  *)
(* slots and the order of the queue: what starts is the head, and only     *)
(* when a slot is free.                                                    *)
(***************************************************************************)
(* The life of an entry and of its torrent, whatever the kinds of source.  *)

\* Entry i has not joined a torrent yet, and may still create one.
Fresh(i) == job[i].pc \in {"new", "fetch", "attach", "join"} \/ tr[i].hold # "none"

\* How far the entry, its job and the tracked set agree on where i is.
Shape(i) ==
    /\ tr[i].refused => job[i].pc = "idle" /\ tr[i].hold = "none"
    /\ job[i].pc = "new" => i \notin tracked /\ ~tr[i].removed
    /\ tr[i].hold # "none" => job[i].pc = "idle"
    /\ tr[i].t # None => tr[i].hold = "none" /\ job[i].pc \in {"idle"} \cup AwaitPcs
    /\ job[i].pc \in AwaitPcs => tr[i].t = job[i].t
    /\ job[i].pc \notin {"publish", "retrack"} \cup AwaitPcs => job[i].t = None
    /\ i \in tracked => ~tr[i].removed
    /\ job[i].pc \in {"fetch"} \cup AttachPcs \cup AwaitPcs => i \in tracked \/ tr[i].removed

\* When the torrent of an entry is out of the client, or about to be.
Gone(i) ==
    /\ tr[i].refused /\ tr[i].t # None => ~lib[tr[i].t].live
    /\ job[i].pc = "refuse" => ~lib[job[i].t].live
    /\ tr[i].removed /\ tr[i].t # None => tr[i].t \in drops \/ ~lib[tr[i].t].live

\* A torrent that was never in the client is nobody's.
Unborn(o) == Fresh(o) =>
    /\ ~lib[o].live /\ o \notin drops
    /\ \A k \in Ids : tr[k].t # o /\ job[k].t # o

\* The gates of a torrent out of the client are shut.
Shut(o) == ~lib[o].live => ~lib[o].dl /\ ~lib[o].ul

\* Somebody manages the torrent o, or is about to publish it.
Managed(o) ==
    \/ o \in drops
    \/ \E k \in tracked : tr[k].t = o
    \/ \E k \in Ids : job[k].pc = "publish" /\ job[k].t = o

ClientInv ==
    /\ \A i \in Ids : Shape(i) /\ Gone(i) /\ Unborn(i) /\ Shut(i)
    /\ Open => \A o \in Ids : lib[o].live => Managed(o)

----------------------------------------------------------------------------
(* One step seen from the entries it is not about, from the library, and   *)
(* from the entry it is about.                                             *)

SameMarks(j) ==
    /\ tr'[j].refused = tr[j].refused /\ tr'[j].removed = tr[j].removed
    /\ tr'[j].hold = tr[j].hold /\ tr'[j].t = tr[j].t
    /\ tr'[j].infoHash = tr[j].infoHash
    /\ job'[j] = job[j]

\* The step leaves j as it was, or untracks it because it was refused.
Bystander(j) ==
    /\ SameMarks(j)
    /\ j \in tracked' => j \in tracked
    /\ j \in tracked => j \in tracked' \/ tr[j].refused

\* i puts its own torrent into the client.
Born(i) == Fresh(i) /\ ~Fresh(i)' /\ job'[i].pc = "publish" /\ job'[i].t = i

\* No torrent but i's own comes into the client; one about to be dropped is
\* dropped or stays so.
LibStep(i) == \A o \in Ids :
    /\ lib'[o].live => lib[o].live \/ (o = i /\ Born(i))
    /\ Shut(o)'
    /\ o \in drops /\ lib'[o].live => o \in drops'
    /\ o \in drops' => o \in drops \/ (i \in Ids /\ (tr[i].t = o \/ job[i].t = o))

\* i hands its torrent on: to drops, or keeps it.
HandsOn(i) == \A o \in Ids :
    /\ lib'[o].live
    /\ (i \in tracked /\ tr[i].t = o) \/ (job[i].pc = "publish" /\ job[i].t = o)
    => \/ o \in drops'
       \/ i \in tracked' /\ tr'[i].t = o
       \/ job'[i].pc = "publish" /\ job'[i].t = o

OwnStep(i) ==
    /\ Shape(i)' /\ Gone(i)'
    /\ Fresh(i)' => Fresh(i)
    /\ \A o \in Ids : tr'[i].t = o \/ job'[i].t = o => ~Fresh(o) \/ (o = i /\ Born(i))
    /\ Open' => HandsOn(i)

LEMMA ClientStep ==
    ASSUME TypeInv, ClientInv, NEW i,
           \A j \in Ids : j # i => Bystander(j),
           LibStep(i), i \in Ids => OwnStep(i), Open' => Open
    PROVE  ClientInv'
<1>0. \A j \in Ids : Shape(j) /\ Gone(j) /\ Unborn(j) /\ tr[j].t \in Ids \cup {None}
  BY Parts DEF ClientInv, TypeInv
<1>1. ASSUME NEW j \in Ids PROVE Shape(j)' /\ Gone(j)'
  <2>1. CASE j = i
    BY <2>1 DEF OwnStep
  <2>2. CASE j # i
    <3>1. Bystander(j)
      BY <2>2
    <3>2. Shape(j)'
      <4>1. /\ tr[j].refused => job[j].pc = "idle"
            /\ j \in tracked => ~tr[j].removed
            /\ job[j].pc \in {"fetch"} \cup AttachPcs \cup AwaitPcs => j \in tracked \/ tr[j].removed
        BY <1>0 DEF Shape
      <4>2. job[j].pc \in {"fetch"} \cup AttachPcs \cup AwaitPcs => job[j].pc # "idle"
        BY DEF AttachPcs, AwaitPcs
      <4>3. job'[j].pc \in {"fetch"} \cup AttachPcs \cup AwaitPcs => j \in tracked' \/ tr'[j].removed
        BY <3>1, <4>1, <4>2 DEF Bystander, SameMarks
      <4>4. j \in tracked' => ~tr'[j].removed
        BY <3>1, <4>1 DEF Bystander, SameMarks
      <4>5. Shape(j)
        BY <1>0
      <4>. QED  BY <3>1, <4>3, <4>4, <4>5 DEF Shape, Bystander, SameMarks
    <3>3. job[j].pc = "refuse" => tr[j].t = job[j].t /\ job[j].t \in Ids
      BY DEF ClientInv, Shape, TypeInv, JobTorrent, AwaitPcs
    <3>5. Gone(j) /\ (tr[j].t # None => tr[j].t \in Ids)
      BY <1>0
    <3>6. \A o \in Ids : tr[j].t = o => ~Fresh(o)
      BY <1>0 DEF Unborn
    <3>4. \A o \in Ids : tr[j].t = o =>
            /\ lib'[o].live => lib[o].live
            /\ o \in drops /\ lib'[o].live => o \in drops'
      BY <3>6 DEF LibStep, Born
    <3>7. Gone(j)'
      BY <3>1, <3>3, <3>4, <3>5 DEF Gone, Bystander, SameMarks
    <3>. QED  BY <3>2, <3>7
  <2>. QED  BY <2>1, <2>2
<1>2. \A j \in Ids : Fresh(j)' => Fresh(j)
  <2>1. \A j \in Ids : j # i => (Fresh(j)' <=> Fresh(j))
    BY DEF Fresh, Bystander, SameMarks
  <2>. QED  BY <2>1 DEF OwnStep
<1>4. ASSUME NEW o \in Ids PROVE Unborn(o)'
  <2>. SUFFICES ASSUME Fresh(o)'
                PROVE  ~lib'[o].live /\ o \notin drops' /\ \A k \in Ids : tr'[k].t # o /\ job'[k].t # o
    BY DEF Unborn
  <2>0. Fresh(o)
    BY <1>2
  <2>1. ~lib[o].live /\ o \notin drops /\ \A k \in Ids : tr[k].t # o /\ job[k].t # o
    BY <1>0, <2>0 DEF Unborn
  <2>2. ~(o = i /\ Born(i))
    BY DEF Born
  <2>3. ~lib'[o].live /\ o \notin drops'
    BY <2>1, <2>2 DEF LibStep
  <2>4. \A k \in Ids : tr'[k].t # o /\ job'[k].t # o
    <3>1. \A k \in Ids : k # i => tr'[k].t # o /\ job'[k].t # o
      BY <2>1 DEF Bystander, SameMarks
    <3>2. i \in Ids => tr'[i].t # o /\ job'[i].t # o
      BY <2>0, <2>2 DEF OwnStep
    <3>. QED  BY <3>1, <3>2
  <2>. QED  BY <2>3, <2>4
<1>5. ASSUME Open', NEW o \in Ids, lib'[o].live PROVE Managed(o)'
  <2>0. CASE o = i /\ Born(i)
    BY <2>0 DEF Managed, Born
  <2>1. ASSUME ~(o = i /\ Born(i))
        PROVE  lib[o].live /\ Managed(o) /\ (o \in drops => o \in drops')
    BY <1>5, <2>1 DEF LibStep, ClientInv
  <2>. SUFFICES ASSUME ~(o = i /\ Born(i)) PROVE Managed(o)'
    BY <2>0
  <2>2. CASE o \in drops
    BY <2>1, <2>2 DEF Managed
  <2>3. ASSUME NEW k \in tracked, tr[k].t = o PROVE Managed(o)'
    <3>0. k \in Ids
      BY DEF TypeInv, TypeOK
    <3>1. CASE k = i
      <4>1. o \in drops' \/ (i \in tracked' /\ tr'[i].t = o) \/ (job'[i].pc = "publish" /\ job'[i].t = o)
        BY <1>5, <2>3, <3>0, <3>1 DEF OwnStep, HandsOn
      <4>. QED  BY <3>0, <3>1, <4>1 DEF Managed
    <3>2. CASE k # i
      <4>1. Bystander(k) /\ Gone(k)
        BY <1>0, <3>0, <3>2
      <4>2. ~tr[k].refused
        BY <2>1, <2>3, <4>1, NoneAssumption DEF Gone
      <4>3. k \in tracked' /\ tr'[k].t = o
        BY <2>3, <4>1, <4>2 DEF Bystander, SameMarks
      <4>. QED  BY <4>3 DEF Managed
    <3>. QED  BY <3>1, <3>2
  <2>4. ASSUME NEW k \in Ids, job[k].pc = "publish", job[k].t = o PROVE Managed(o)'
    <3>1. CASE k = i
      <4>1. o \in drops' \/ (i \in tracked' /\ tr'[i].t = o) \/ (job'[i].pc = "publish" /\ job'[i].t = o)
        BY <1>5, <2>4, <3>1 DEF OwnStep, HandsOn
      <4>. QED  BY <3>1, <4>1 DEF Managed
    <3>2. CASE k # i
      BY <2>4, <3>2 DEF Managed, Bystander, SameMarks
    <3>. QED  BY <3>1, <3>2
  <2>. QED  BY <2>1, <2>2, <2>3, <2>4 DEF Managed
<1>6. \A o \in Ids : Shut(o)'
  BY DEF LibStep
<1>. QED  BY <1>1, <1>4, <1>5, <1>6 DEF ClientInv

----------------------------------------------------------------------------
(* What the updates of the actions change. *)

LEMMA DoneMoves ==
    ASSUME TypeInv, NEW i \in Ids, Done(i)
    PROVE  /\ job'[i].pc = "idle" /\ job'[i].t = None
           /\ \A j \in Ids : j # i => job'[j] = job[j]
  BY DEF TypeInv, TypeOK, Done, IdleJob

LEMMA SetPcMoves ==
    ASSUME TypeInv, NEW i \in Ids, NEW pc, SetPc(i, pc)
    PROVE  /\ job'[i].pc = pc /\ job'[i].t = job[i].t /\ job'[i].hash = job[i].hash
           /\ job'[i].held = job[i].held
           /\ \A j \in Ids : j # i => job'[j] = job[j]
<1>1. job \in [Ids -> Job] /\ job[i] \in Job
  BY DEF TypeInv, TypeOK
<1>2. job'[i] = [job[i] EXCEPT !.pc = pc] /\ \A j \in Ids : j # i => job'[j] = job[j]
  BY <1>1 DEF SetPc
<1>. QED  BY <1>1, <1>2 DEF Job

\* What a failure, a pause and an unpause leave alone of the entry.
LEMMA MarksKept ==
    ASSUME NEW r \in Tracked,
           NEW u \in {Fail(r), PauseEntry(r), [PauseEntry(r) EXCEPT !.userPaused = TRUE], Unpause(r),
                      Enqueue(Unpause(r))}
    PROVE  /\ u.refused = r.refused /\ u.removed = r.removed /\ u.hold = r.hold
           /\ u.t = r.t /\ u.infoHash = r.infoHash
<1>1. CASE u = Fail(r)
  BY <1>1 DEF Fail, Tracked
<1>2. CASE u \in {PauseEntry(r), [PauseEntry(r) EXCEPT !.userPaused = TRUE]}
  BY <1>2 DEF PauseEntry, Tracked
<1>3. CASE u \in {Unpause(r), Enqueue(Unpause(r))}
  <2>. DEFINE v == [r EXCEPT !.paused = FALSE, !.userPaused = FALSE]
  <2>1. /\ v \in Tracked /\ v.refused = r.refused /\ v.removed = r.removed /\ v.hold = r.hold
        /\ v.t = r.t /\ v.infoHash = r.infoHash
    BY DEF Tracked
  <2>2. PICK w \in {[v EXCEPT !.spacePaused = FALSE, !.state = v.pre],
                    [v EXCEPT !.seedDone = FALSE, !.seedOverride = TRUE, !.state = "seeding"],
                    [v EXCEPT !.state = v.pre], v} : Unpause(r) = w
    BY DEF Unpause
  <2>. HIDE DEF v
  <2>3. /\ w.refused = r.refused /\ w.removed = r.removed /\ w.hold = r.hold
        /\ w.t = r.t /\ w.infoHash = r.infoHash
    BY <2>1, <2>2 DEF Tracked
  <2>4. w \in Tracked
    BY <2>2, EntryTypes
  <2>5. /\ Enqueue(w).refused = w.refused /\ Enqueue(w).removed = w.removed /\ Enqueue(w).hold = w.hold
        /\ Enqueue(w).t = w.t /\ Enqueue(w).infoHash = w.infoHash
    BY <2>4 DEF Enqueue, Tracked
  <2>. QED  BY <1>3, <2>2, <2>3, <2>5
<1>. QED  BY <1>1, <1>2, <1>3

\* What opening, shutting and dropping do to a library torrent.
LEMMA LibMoves ==
    \A o \in LibTorrent :
        /\ Hold(o).live = o.live /\ ~Hold(o).dl /\ ~Hold(o).ul /\ Hold(o).hash = o.hash
        /\ Allow(o).live = o.live /\ Allow(o).dl /\ Allow(o).ul /\ Allow(o).hash = o.hash
        /\ ~Dropped(o).live /\ ~Dropped(o).dl /\ ~Dropped(o).ul /\ Dropped(o).hash = o.hash
  BY DEF LibTorrent, Hold, Allow, Dropped

----------------------------------------------------------------------------
(* The client's invariant, action by action. *)

\* A new entry: nothing of it is in the client yet.
LEMMA ClientMint ==
    ASSUME TypeInv, ClientInv, NEW i \in Ids, NEW h \in Hashes \cup {None}, NEW dict \in BOOLEAN,
           NEW via \in {"add", "restore", "url", "promote"}, NEW p \in BOOLEAN, NEW s \in BOOLEAN,
           \/ FindOrTrack(i, h, dict, via, p, s)
           \/ TrackURL(i, via, p, s)
           \/ job[i].pc \in {"new", "retrack"} /\ TrackErrored(i, h, p, s)
    PROVE  ClientInv'
<1>0. /\ tr \in [Ids -> Tracked] /\ job \in [Ids -> Job] /\ lib \in [Ids -> LibTorrent]
      /\ tracked \subseteq Ids
  BY DEF TypeInv, TypeOK
<1>1. /\ job[i].pc \in {"new", "retrack"} /\ Shape(i)
      /\ lib' = lib /\ drops' = drops /\ (Open' => Open)
  BY DEF FindOrTrack, TrackURL, TrackErrored, Unminted, ClientInv, Open
<1>2. tr[i].t = None
  BY <1>1 DEF Shape, AwaitPcs
<1>3. /\ \A j \in Ids : j # i => Bystander(j)
      /\ i \in tracked'
  <2>1. CASE FindOrTrack(i, h, dict, via, p, s)
    <3>1. \A j \in tracked : j \in Matches(h, None) => tr[j].refused
      BY <2>1 DEF FindOrTrack
    <3>2. tracked' = (tracked \ Matches(h, None)) \cup {i}
      BY <2>1 DEF FindOrTrack
    <3>3. \A j \in Ids : j # i => tr'[j] = tr[j] /\ job'[j] = job[j]
      BY <1>0, <2>1 DEF FindOrTrack
    <3>. QED  BY <3>1, <3>2, <3>3 DEF Bystander, SameMarks
  <2>2. CASE TrackURL(i, via, p, s)
    BY <1>0, <2>2 DEF TrackURL, Bystander, SameMarks
  <2>3. CASE TrackErrored(i, h, p, s)
    BY <1>0, <2>3 DEF TrackErrored, Bystander, SameMarks
  <2>. QED  BY <2>1, <2>2, <2>3
<1>4. /\ tr'[i].t = None /\ ~tr'[i].removed /\ job'[i].t = None
      /\ \/ job[i].pc = "new" /\ job'[i].pc = "idle" /\ ~tr'[i].refused
         \/ job[i].pc = "new" /\ job'[i].pc \in {"fetch", "attach"} /\ tr'[i].hold = "none" /\ ~tr'[i].refused
         \/ job'[i].pc = "idle" /\ tr'[i].hold = "none"
  <2>1. CASE FindOrTrack(i, h, dict, via, p, s)
    <3>. DEFINE entry == [NewTracked(p, s) EXCEPT !.infoHash = h]
    <3>1. tr'[i] \in {StartPaused(entry), Enqueue([entry EXCEPT !.hold = "spec"]), entry}
      BY <1>0, <2>1 DEF FindOrTrack
    <3>2. /\ \/ tr'[i] = Enqueue([entry EXCEPT !.hold = "spec"]) /\ job'[i].pc = "idle"
             \/ tr'[i] \in {StartPaused(entry), entry} /\ job'[i].pc = "attach"
          /\ job'[i].t = None
      BY <1>0, <2>1 DEF FindOrTrack, IdleJob, NewTracked
    <3>3. \A r \in {StartPaused(entry), Enqueue([entry EXCEPT !.hold = "spec"]), entry} :
            r.t = None /\ ~r.removed /\ ~r.refused
      BY DEF NewTracked, StartPaused, Enqueue
    <3>4. \A r \in {StartPaused(entry), entry} : r.hold = "none"
      BY DEF NewTracked, StartPaused
    <3>5. job[i].pc = "new"
      BY <2>1 DEF FindOrTrack, Unminted
    <3>. HIDE DEF entry
    <3>. QED  BY <3>1, <3>2, <3>3, <3>4, <3>5
  <2>2. CASE TrackURL(i, via, p, s)
    <3>. DEFINE entry == NewTracked(p, s)
    <3>2. /\ \/ tr'[i] = Enqueue([entry EXCEPT !.hold = "url"]) /\ job'[i].pc = "idle"
             \/ tr'[i] \in {StartPaused(entry), entry} /\ job'[i].pc = "fetch"
          /\ job'[i].t = None
      BY <1>0, <2>2 DEF TrackURL, IdleJob
    <3>1. entry.t = None /\ ~entry.removed /\ ~entry.refused /\ entry.hold = "none" /\ entry \in Tracked
      BY NewEntryType DEF NewTracked
    <3>3. \A r \in {StartPaused(entry), Enqueue([entry EXCEPT !.hold = "url"]), entry} :
            r.t = None /\ ~r.removed /\ ~r.refused
      <4>. HIDE DEF entry
      <4>. QED  BY <3>1 DEF StartPaused, Enqueue, Tracked
    <3>4. \A r \in {StartPaused(entry), entry} : r.hold = "none"
      <4>. HIDE DEF entry
      <4>. QED  BY <3>1 DEF StartPaused, Tracked
    <3>5. job[i].pc = "new"
      BY <2>2 DEF TrackURL, Unminted
    <3>. HIDE DEF entry
    <3>. QED  BY <3>2, <3>3, <3>4, <3>5
  <2>3. CASE TrackErrored(i, h, p, s)
    BY <1>0, <2>3 DEF TrackErrored, NewTracked, IdleJob
  <2>. QED  BY <2>1, <2>2, <2>3
<1>5. OwnStep(i)
  <2>0. \A o \in Ids : tr'[i].t # o /\ job'[i].t # o
    BY <1>4, NoneAssumption
  <2>1. Shape(i)'
    BY <1>3, <1>4 DEF Shape, AwaitPcs, AttachPcs
  <2>2. Gone(i)'
    BY <1>4 DEF Gone
  <2>3. Fresh(i)' => Fresh(i)
    BY <1>4 DEF Fresh
  <2>4. HandsOn(i)
    BY <1>1, <1>2, NoneAssumption DEF HandsOn
  <2>. QED  BY <2>0, <2>1, <2>2, <2>3, <2>4 DEF OwnStep
<1>6. LibStep(i)
  BY <1>1 DEF LibStep, ClientInv, Shut
<1>. QED  BY <1>1, <1>3, <1>5, <1>6, ClientStep

LEMMA LibSame ==
    ASSUME ClientInv, NEW i, lib' = lib, drops' = drops
    PROVE  LibStep(i)
  BY DEF LibStep, ClientInv, Shut

\* One library torrent changed, and no other.
LEMMA LibOne ==
    ASSUME TypeInv, ClientInv, NEW i, NEW o, NEW l, lib' = [lib EXCEPT ![o] = l],
           o \in Ids => (l.live => lib[o].live) /\ (~l.live => ~l.dl /\ ~l.ul), drops' = drops
    PROVE  LibStep(i)
<1>1. \A x \in Ids : lib'[x] = IF x = o THEN l ELSE lib[x]
  BY DEF TypeInv, TypeOK
<1>. QED  BY <1>1 DEF LibStep, ClientInv, Shut

LEMMA NotFresh ==
    ASSUME ClientInv, NEW k \in Ids, NEW o \in Ids, tr[k].t = o \/ job[k].t = o \/ lib[o].live
    PROVE  ~Fresh(o)
  BY DEF ClientInv, Unborn

\* A starter that gives up: its entry is not attached, and never will be.
LEMMA ClientGivesUp ==
    ASSUME TypeInv, ClientInv, NEW i \in Ids, job[i].pc \in {"attach", "join"} \/ (job[i].pc = "publish" /\ ~Open),
           AttachFailure(i), UNCHANGED <<phase, restored, lib, drops>>
    PROVE  ClientInv'
<1>0. tr \in [Ids -> Tracked] /\ tr[i] \in Tracked /\ job[i] \in Job
  BY DEF TypeInv, TypeOK
<1>1. Shape(i) /\ tr[i].t = None /\ tr[i].hold = "none" /\ ~tr[i].refused
  BY DEF ClientInv, Shape, AwaitPcs
<1>2. Fail(tr[i]).refused = tr[i].refused /\ Fail(tr[i]) \in Tracked
  BY <1>0, MarksKept, EntryTypes
<1>3. /\ job'[i].pc \in {"idle", "retrack"}
      /\ job'[i].pc = "idle" => job'[i].t = None
      /\ job'[i].pc = "retrack" => i \notin tracked' /\ job'[i].t = job[i].t
      /\ \A j \in Ids : j # i => job'[j] = job[j]
      /\ tracked' \subseteq tracked /\ \A j \in tracked : j # i => j \in tracked'
      /\ \A j \in Ids : j # i => tr'[j] = tr[j]
      /\ tr'[i].t = None /\ tr'[i].removed = tr[i].removed /\ tr'[i].hold = "none"
      /\ tr'[i].refused => job'[i].pc = "idle"
  <2>1. CASE job[i].via \in {"add", "restore"}
    <3>1. /\ tracked' = tracked \ {i} /\ tr' = tr
          /\ SetPc(i, "retrack") \/ Done(i)
      BY <2>1 DEF AttachFailure
    <3>. QED  BY <1>1, <3>1, SetPcMoves, DoneMoves
  <2>2. CASE job[i].via = "url"
    <3>1. tr' = [tr EXCEPT ![i] = Fail(tr[i])] /\ Done(i) /\ tracked' = tracked
      BY <1>0, <2>2 DEF AttachFailure, FailEntry
    <3>2. /\ Fail(tr[i]).t = tr[i].t /\ Fail(tr[i]).removed = tr[i].removed
          /\ Fail(tr[i]).hold = tr[i].hold
      BY <1>0, MarksKept
    <3>. QED  BY <1>0, <1>1, <1>2, <3>1, <3>2, DoneMoves
  <2>3. CASE job[i].via = "promote"
    <3>. DEFINE f == [Fail(tr[i]) EXCEPT !.refused = TRUE]
    <3>1. tr' = [tr EXCEPT ![i] = f] /\ Done(i) /\ tracked' = tracked
      BY <1>0, <2>3 DEF AttachFailure
    <3>2. /\ Fail(tr[i]).t = tr[i].t /\ Fail(tr[i]).removed = tr[i].removed
          /\ Fail(tr[i]).hold = tr[i].hold
      BY <1>0, MarksKept
    <3>3. f.t = tr[i].t /\ f.removed = tr[i].removed /\ f.hold = tr[i].hold
      BY <1>2, <3>2 DEF Tracked
    <3>. HIDE DEF f
    <3>. QED  BY <1>0, <1>1, <3>1, <3>3, DoneMoves
  <2>4. job[i].via \in {"add", "restore", "url", "promote"}
    BY <1>0 DEF Job
  <2>. QED  BY <2>1, <2>2, <2>3, <2>4
<1>4. \A j \in Ids : j # i => Bystander(j)
  BY <1>3 DEF Bystander, SameMarks
<1>5. OwnStep(i)
  <2>1. Shape(i)'
    BY <1>1, <1>3 DEF Shape, AwaitPcs, AttachPcs
  <2>2. Gone(i)'
    BY <1>3 DEF Gone
  <2>3. Fresh(i)' => Fresh(i)
    BY <1>3 DEF Fresh
  <2>4. Open' => HandsOn(i)
    BY <1>1, NoneAssumption DEF HandsOn, Open
  <2>5. \A o \in Ids : tr'[i].t = o \/ job'[i].t = o => ~Fresh(o)
    BY <1>3, NotFresh, NoneAssumption
  <2>. QED  BY <2>1, <2>2, <2>3, <2>4, <2>5 DEF OwnStep
<1>6. LibStep(i) /\ (Open' => Open)
  BY LibSame DEF Open
<1>. QED  BY <1>4, <1>5, <1>6, ClientStep

\* What a Join does: the torrent it is handed, and what it makes of it.
LEMMA JoinMoves ==
    ASSUME TypeInv, NEW i \in Ids, Join(i)
    PROVE  \E o \in Ids, l \in LibTorrent :
             /\ lib' = [lib EXCEPT ![o] = l] /\ l.live /\ l.hash = job[i].hash
             /\ \/ o = i /\ InClient(job[i].hash) = {} /\ (l.dl <=> ~job[i].held) /\ (l.ul <=> ~job[i].held)
                \/ lib[o].live /\ lib[o].hash = job[i].hash
                   /\ (l.dl <=> lib[o].dl /\ ~job[i].held) /\ (l.ul <=> lib[o].ul /\ ~job[i].held)
             /\ job'[i].pc = "publish" /\ job'[i].t = o /\ job'[i].held = job[i].held
             /\ job'[i].hash = job[i].hash
             /\ \A j \in Ids : j # i => job'[j] = job[j]
<1>0. /\ job \in [Ids -> Job] /\ job[i] \in Job /\ lib \in [Ids -> LibTorrent]
      /\ job[i].hash \in Hashes \cup {None} /\ job[i].dict \in BOOLEAN /\ job[i].held \in BOOLEAN
  BY Parts DEF TypeInv, TypeOK
<1>. DEFINE old == InClient(job[i].hash)
            was(onDisk) == IF old = {}
               THEN [NewLib EXCEPT !.hash = job[i].hash, !.live = TRUE, !.dl = TRUE, !.ul = TRUE,
                                   !.complete = onDisk]
               ELSE lib[IF old = {} THEN i ELSE CHOOSE x \in old : TRUE]
            now(onDisk) == [was(onDisk) EXCEPT !.info = @ \/ job[i].dict]
            last(onDisk) == IF job[i].held THEN Hold(now(onDisk)) ELSE now(onDisk)
<1>1. PICK onDisk \in BOOLEAN :
        /\ lib' = [lib EXCEPT ![IF old = {} THEN i ELSE CHOOSE x \in old : TRUE] = last(onDisk)]
        /\ job' = [job EXCEPT ![i].pc = "publish",
                              ![i].t = IF old = {} THEN i ELSE CHOOSE x \in old : TRUE]
  BY DEF Join
<1>2. PICK o \in Ids : o = IF old = {} THEN i ELSE CHOOSE x \in old : TRUE
  BY DEF InClient
<1>3. PICK w : w = was(onDisk)
  OBVIOUS
<1>4. /\ w \in LibTorrent /\ w.live /\ w.hash = job[i].hash
      /\ \/ o = i /\ old = {} /\ w.dl /\ w.ul
         \/ w = lib[o] /\ lib[o].live /\ lib[o].hash = job[i].hash
  <2>1. CASE old = {}
    <3>1. w = [NewLib EXCEPT !.hash = job[i].hash, !.live = TRUE, !.dl = TRUE, !.ul = TRUE,
                             !.complete = onDisk]
      BY <1>3, <2>1
    <3>. HIDE DEF old
    <3>. QED  BY <1>0, <1>2, <2>1, <3>1 DEF NewLib, LibTorrent
  <2>2. CASE old # {}
    <3>1. w = lib[o] /\ o \in old
      BY <1>2, <1>3, <2>2
    <3>. QED  BY <1>0, <3>1 DEF InClient
  <2>. QED  BY <2>1, <2>2
<1>5. PICK n \in LibTorrent :
        /\ n = now(onDisk) /\ n.live /\ n.hash = w.hash /\ (n.dl <=> w.dl) /\ (n.ul <=> w.ul)
  <2>1. [w EXCEPT !.info = @ \/ job[i].dict] \in LibTorrent
    BY <1>0, <1>4, LibInfo
  <2>2. LET n == [w EXCEPT !.info = @ \/ job[i].dict]
        IN n.live /\ n.hash = w.hash /\ (n.dl <=> w.dl) /\ (n.ul <=> w.ul)
    BY <1>4 DEF LibTorrent
  <2>3. now(onDisk) = [w EXCEPT !.info = @ \/ job[i].dict]
    BY <1>3
  <2>. HIDE DEF now
  <2>. QED  BY <1>4, <2>1, <2>2, <2>3
<1>6. PICK l \in LibTorrent :
        /\ l = IF job[i].held THEN Hold(n) ELSE n
        /\ l.live /\ l.hash = job[i].hash
        /\ (l.dl <=> w.dl /\ ~job[i].held) /\ (l.ul <=> w.ul /\ ~job[i].held)
  <2>1. CASE job[i].held
    <3>1. /\ Hold(n) \in LibTorrent /\ ~Hold(n).dl /\ ~Hold(n).ul /\ Hold(n).hash = n.hash
          /\ Hold(n).live = n.live
      BY LibMoves, LibTypes
    <3>2. Hold(n).live
      BY <1>5, <3>1
    <3>. QED  BY <1>4, <1>5, <2>1, <3>1, <3>2
  <2>2. CASE ~job[i].held
    <3>1. n.dl \in BOOLEAN /\ n.ul \in BOOLEAN
      BY DEF LibTorrent
    <3>. QED  BY <1>0, <1>4, <1>5, <2>2, <3>1
  <2>. QED  BY <2>1, <2>2
<1>7. lib' = [lib EXCEPT ![o] = l]
  BY <1>1, <1>2, <1>5, <1>6
<1>8. /\ job'[i].pc = "publish" /\ job'[i].t = o /\ job'[i].held = job[i].held
      /\ job'[i].hash = job[i].hash
      /\ \A j \in Ids : j # i => job'[j] = job[j]
  <2>1. job'[i] = [job[i] EXCEPT !.pc = "publish", !.t = o] /\ \A j \in Ids : j # i => job'[j] = job[j]
    BY <1>0, <1>1, <1>2
  <2>. QED  BY <1>0, <2>1 DEF Job
<1>9. \/ o = i /\ InClient(job[i].hash) = {} /\ (l.dl <=> ~job[i].held) /\ (l.ul <=> ~job[i].held)
      \/ lib[o].live /\ lib[o].hash = job[i].hash
         /\ (l.dl <=> lib[o].dl /\ ~job[i].held) /\ (l.ul <=> lib[o].ul /\ ~job[i].held)
  <2>. HIDE DEF was, now, last
  <2>. QED  BY <1>4, <1>6, <1>0
<1>. QED  BY <1>6, <1>7, <1>8, <1>9

LEMMA ClientJoin ==
    ASSUME TypeInv, ClientInv, NEW i \in Ids, Join(i)
    PROVE  ClientInv'
<1>1. PICK o \in Ids, l \in LibTorrent :
        /\ lib' = [lib EXCEPT ![o] = l] /\ l.live
        /\ o = i \/ lib[o].live
        /\ job'[i].pc = "publish" /\ job'[i].t = o
        /\ \A j \in Ids : j # i => job'[j] = job[j]
  BY JoinMoves
<1>2. /\ UNCHANGED <<phase, tracked, tr, drops>> /\ job[i].pc = "join"
      /\ \A x \in Ids : lib'[x] = IF x = o THEN l ELSE lib[x]
  BY <1>1 DEF Join, TypeInv, TypeOK
<1>3. Shape(i) /\ Fresh(i) /\ tr[i].t = None /\ tr[i].hold = "none" /\ ~tr[i].refused
  BY <1>2 DEF ClientInv, Shape, Fresh, AwaitPcs
<1>4. ~Fresh(i)'
  BY <1>1, <1>2, <1>3 DEF Fresh
<1>5. LibStep(i)
  BY <1>1, <1>2, <1>3, <1>4 DEF LibStep, ClientInv, Shut, Born
<1>6. \A j \in Ids : j # i => Bystander(j)
  BY <1>1, <1>2 DEF Bystander, SameMarks
<1>7. OwnStep(i)
  <2>1. Shape(i)'
    BY <1>1, <1>2, <1>3 DEF Shape, AwaitPcs, AttachPcs
  <2>2. Gone(i)'
    BY <1>1, <1>2, <1>3 DEF Gone
  <2>3. HandsOn(i)
    BY <1>2, <1>3, NoneAssumption DEF HandsOn
  <2>4. \A x \in Ids : tr'[i].t = x \/ job'[i].t = x => ~Fresh(x) \/ (x = i /\ Born(i))
    <3>1. o = i => Born(i)
      BY <1>1, <1>3, <1>4 DEF Born
    <3>2. lib[o].live => ~Fresh(o)
      BY NotFresh
    <3>. QED  BY <1>1, <1>2, <1>3, <3>1, <3>2, NoneAssumption
  <2>. QED  BY <1>4, <2>1, <2>2, <2>3, <2>4 DEF OwnStep
<1>. QED  BY <1>2, <1>5, <1>6, <1>7, ClientStep DEF Open

LEMMA ClientStart ==
    ASSUME TypeInv, ClientInv, NEW i \in Ids, Start(i) \/ Await(i)
    PROVE  ClientInv'
<1>0. /\ tr \in [Ids -> Tracked] /\ tr[i] \in Tracked /\ job \in [Ids -> Job] /\ job[i] \in Job
      /\ lib \in [Ids -> LibTorrent] /\ tracked \subseteq Ids
  BY DEF TypeInv, TypeOK
<1>1. Shape(i) /\ Gone(i)
  BY DEF ClientInv
<1>2. \A o \in Ids : tr[i].t = o \/ job[i].t = o \/ lib[o].live => ~Fresh(o)
  BY NotFresh
<1>3. CASE AttachFails(i) \/ PublishClosed(i)
  BY <1>3, ClientGivesUp DEF AttachFails, PublishClosed
<1>4. CASE Join(i)
  BY <1>4, ClientJoin
<1>5. CASE Retrack(i)
  <2>1. /\ job[i].hash \in Hashes \cup {None} /\ tr[i].userPaused \in BOOLEAN
        /\ tr[i].seedDone \in BOOLEAN
    BY Parts DEF TypeInv
  <2>. QED  BY <1>5, <2>1, ClientMint DEF Retrack
<1>6. CASE FetchFails(i)
  <2>1. tr' = [tr EXCEPT ![i] = Fail(tr[i])] /\ Done(i) /\ job[i].pc = "fetch"
    BY <1>0, <1>6 DEF FetchFails, FailEntry
  <2>2. SameMarks(i) \/ job'[i].pc = "idle"
    BY <2>1, DoneMoves
  <2>3. /\ Fail(tr[i]).refused = tr[i].refused /\ Fail(tr[i]).removed = tr[i].removed
        /\ Fail(tr[i]).hold = tr[i].hold /\ Fail(tr[i]).t = tr[i].t
    BY <1>0, MarksKept
  <2>4. /\ UNCHANGED <<phase, tracked, lib, drops>>
        /\ tr'[i].refused = tr[i].refused /\ tr'[i].removed = tr[i].removed
        /\ tr'[i].hold = tr[i].hold /\ tr'[i].t = tr[i].t
        /\ job'[i].pc = "idle" /\ job'[i].t = None
        /\ \A j \in Ids : j # i => tr'[j] = tr[j] /\ job'[j] = job[j]
    BY <1>0, <1>6, <2>1, <2>3, DoneMoves DEF FetchFails
  <2>5. tr[i].t = None
    BY <1>1, <2>1 DEF Shape, AwaitPcs
  <2>6. OwnStep(i)
    <3>1. Shape(i)' /\ Gone(i)' /\ (Fresh(i)' => Fresh(i))
      BY <1>1, <2>1, <2>4, <2>5 DEF Shape, Gone, Fresh, AwaitPcs, AttachPcs
    <3>2. HandsOn(i)
      BY <2>1, <2>5, NoneAssumption DEF HandsOn
    <3>. QED  BY <1>2, <2>4, <3>1, <3>2, NoneAssumption DEF OwnStep
  <2>. QED  BY <2>4, <2>6, LibSame, ClientStep DEF Bystander, SameMarks, Open
<1>7. CASE FetchClaims(i)
  <2>1. PICK h \in Hashes, dict \in BOOLEAN :
          /\ \A j \in Matches(h, i) : tr[j].refused
          /\ tracked' = tracked \ Matches(h, i)
          /\ job' = [job EXCEPT ![i].pc = "attach", ![i].hash = h, ![i].dict = dict]
    BY <1>7 DEF FetchClaims
  <2>2. job'[i] = [job[i] EXCEPT !.pc = "attach", !.hash = h, !.dict = dict]
    BY <1>0, <2>1
  <2>3. /\ UNCHANGED <<phase, tr, lib, drops>> /\ job[i].pc = "fetch"
        /\ job'[i].pc = "attach" /\ job'[i].t = job[i].t
        /\ \A j \in Ids : j # i => job'[j] = job[j]
        /\ i \in tracked => i \in tracked'
        /\ tracked' \subseteq tracked
    BY <1>0, <1>7, <2>1, <2>2 DEF FetchClaims, Matches, Job
  <2>4. \A j \in Ids : j # i => Bystander(j)
    BY <2>1, <2>3 DEF Bystander, SameMarks
  <2>5. tr[i].t = None
    BY <1>1, <2>3 DEF Shape, AwaitPcs
  <2>6. OwnStep(i)
    <3>1. Shape(i)' /\ Gone(i)' /\ (Fresh(i)' => Fresh(i))
      BY <1>1, <2>3, <2>5 DEF Shape, Gone, Fresh, AwaitPcs, AttachPcs
    <3>2. HandsOn(i)
      BY <2>3, <2>5, NoneAssumption DEF HandsOn
    <3>. QED  BY <1>2, <2>3, <3>1, <3>2, NoneAssumption DEF OwnStep
  <2>. QED  BY <2>3, <2>4, <2>6, LibSame, ClientStep DEF Open
<1>8. CASE ReadHeld(i)
  <2>2. job'[i] = [job[i] EXCEPT !.pc = "join", !.held = tr[i].paused]
    BY <1>0, <1>8 DEF ReadHeld
  <2>3. /\ UNCHANGED <<phase, tracked, tr, lib, drops>> /\ job[i].pc = "attach"
        /\ job'[i].pc = "join" /\ job'[i].t = job[i].t
        /\ \A j \in Ids : j # i => job'[j] = job[j]
    BY <1>0, <1>8, <2>2 DEF ReadHeld, Job
  <2>5. tr[i].t = None
    BY <1>1, <2>3 DEF Shape, AwaitPcs
  <2>6. OwnStep(i)
    <3>1. Shape(i)' /\ Gone(i)' /\ (Fresh(i)' => Fresh(i))
      BY <1>1, <2>3, <2>5 DEF Shape, Gone, Fresh, AwaitPcs, AttachPcs
    <3>2. HandsOn(i)
      BY <2>3, <2>5, NoneAssumption DEF HandsOn
    <3>. QED  BY <1>2, <2>3, <3>1, <3>2, NoneAssumption DEF OwnStep
  <2>. QED  BY <2>3, <2>6, LibSame, ClientStep DEF Bystander, SameMarks, Open
<1>9. CASE PublishRemoved(i)
  <2>3. /\ UNCHANGED <<phase, tracked, tr, lib>> /\ job[i].pc = "publish" /\ tr[i].removed
        /\ drops' = drops \cup {job[i].t}
        /\ job'[i].pc = "idle" /\ job'[i].t = None
        /\ \A j \in Ids : j # i => job'[j] = job[j]
    BY <1>9, DoneMoves DEF PublishRemoved
  <2>5. tr[i].t = None
    BY <1>1, <2>3 DEF Shape, AwaitPcs
  <2>6. OwnStep(i)
    <3>1. Shape(i)' /\ Gone(i)' /\ (Fresh(i)' => Fresh(i))
      BY <1>1, <2>3, <2>5 DEF Shape, Gone, Fresh, AwaitPcs, AttachPcs
    <3>2. HandsOn(i)
      BY <2>3, <2>5, NoneAssumption DEF HandsOn
    <3>. QED  BY <1>2, <2>3, <3>1, <3>2, NoneAssumption DEF OwnStep
  <2>7. LibStep(i)
    BY <2>3 DEF LibStep, ClientInv, Shut
  <2>. QED  BY <2>3, <2>6, <2>7, ClientStep DEF Bystander, SameMarks, Open
<1>10. CASE Publish(i)
  <2>1. job[i].t \in Ids /\ job[i].pc = "publish"
    BY <1>10 DEF Publish, TypeInv, JobTorrent
  <2>2. tr'[i] = [tr[i] EXCEPT !.t = job[i].t, !.infoHash = lib[job[i].t].hash]
    BY <1>0, <1>10 DEF Publish, PublishTorrent
  <2>3. /\ UNCHANGED <<phase, tracked, drops>> /\ ~tr[i].removed
        /\ tr'[i].t = job[i].t /\ tr'[i].refused = tr[i].refused /\ tr'[i].removed = tr[i].removed
        /\ tr'[i].hold = tr[i].hold
        /\ job'[i].pc = "await" /\ job'[i].t = job[i].t
        /\ \A j \in Ids : j # i => tr'[j] = tr[j] /\ job'[j] = job[j]
    BY <1>0, <1>10, <2>2, SetPcMoves DEF Publish, PublishTorrent, Tracked
  <2>4. i \in tracked /\ ~tr[i].refused /\ tr[i].hold = "none" /\ tr[i].t = None
    BY <1>1, <2>1, <2>3 DEF Shape, AttachPcs, AwaitPcs
  <2>5. LibStep(i)
    <3>1. PICK l : l = Settled(lib[job[i].t], job[i].held, tr[i])
      OBVIOUS
    <3>2. l.live = lib[job[i].t].live /\ (~l.live => ~l.dl /\ ~l.ul)
      <4>1. Shut(job[i].t) /\ lib[job[i].t] \in LibTorrent
        BY <1>0, <2>1 DEF ClientInv
      <4>. QED  BY <3>1, <4>1, LibMoves DEF Settled, Shut
    <3>3. lib' = [lib EXCEPT ![job[i].t] = l]
      BY <1>0, <1>10, <2>1, <3>1 DEF Publish, PublishTorrent
    <3>. QED  BY <2>1, <2>3, <3>2, <3>3, LibOne
  <2>6. OwnStep(i)
    <3>1. Shape(i)' /\ Gone(i)' /\ (Fresh(i)' => Fresh(i))
      BY <1>1, <2>1, <2>3, <2>4 DEF Shape, Gone, Fresh, AwaitPcs, AttachPcs
    <3>2. HandsOn(i)
      BY <2>3, <2>4, NoneAssumption DEF HandsOn
    <3>. QED  BY <1>2, <2>1, <2>3, <3>1, <3>2 DEF OwnStep
  <2>. QED  BY <2>3, <2>5, <2>6, ClientStep DEF Bystander, SameMarks, Open
<1>11. CASE AwaitEnds(i) \/ DownloadAll(i)
  <2>3. /\ UNCHANGED <<phase, tracked, tr, lib, drops>> /\ job[i].pc \in {"await", "deletes"}
        /\ job'[i].pc = "idle" /\ job'[i].t = None
        /\ \A j \in Ids : j # i => job'[j] = job[j]
    BY <1>11, DoneMoves DEF AwaitEnds, DownloadAll
  <2>6. OwnStep(i)
    <3>1. Shape(i)' /\ Gone(i)' /\ (Fresh(i)' => Fresh(i))
      BY <1>1, <2>3 DEF Shape, Gone, Fresh, AwaitPcs, AttachPcs
    <3>2. HandsOn(i)
      BY <2>3 DEF HandsOn
    <3>. QED  BY <1>2, <2>3, <3>1, <3>2, NoneAssumption DEF OwnStep
  <2>. QED  BY <2>3, <2>6, LibSame, ClientStep DEF Bystander, SameMarks, Open
<1>12. CASE AwaitRefuses(i)
  <2>1. job[i].t \in Ids /\ job[i].pc = "await" /\ job[i].t # None
    BY <1>12, NoneAssumption DEF AwaitRefuses, TypeInv, JobTorrent, AwaitPcs
  <2>2. PICK l : l = Dropped(lib[job[i].t])
    OBVIOUS
  <2>3. ~l.live /\ ~l.dl /\ ~l.ul /\ lib' = [lib EXCEPT ![job[i].t] = l]
    BY <1>0, <1>12, <2>1, <2>2, LibMoves DEF AwaitRefuses
  <2>4. /\ UNCHANGED <<phase, tracked, tr, drops>>
        /\ job'[i].pc = "refuse" /\ job'[i].t = job[i].t
        /\ \A j \in Ids : j # i => job'[j] = job[j]
        /\ ~lib'[job[i].t].live /\ \A o \in Ids : lib'[o].live => lib[o].live
    BY <1>0, <1>12, <2>1, <2>3, SetPcMoves DEF AwaitRefuses
  <2>5. LibStep(i)
    BY <2>3, <2>4, LibOne
  <2>6. OwnStep(i)
    <3>1. Shape(i)' /\ (Fresh(i)' => Fresh(i))
      BY <1>1, <2>1, <2>4 DEF Shape, Fresh, AwaitPcs, AttachPcs
    <3>2. tr[i].t = job[i].t
      BY <1>1, <2>1 DEF Shape, AwaitPcs
    <3>3. Gone(i)'
      BY <1>1, <2>4, <3>2 DEF Gone
    <3>4. HandsOn(i)
      BY <2>1, <2>4 DEF HandsOn
    <3>. QED  BY <1>2, <2>4, <3>1, <3>3, <3>4 DEF OwnStep
  <2>. QED  BY <2>4, <2>5, <2>6, ClientStep DEF Bystander, SameMarks, Open
<1>13. CASE Refuse(i)
  <2>1. [Fail(tr[i]) EXCEPT !.refused = TRUE].refused
    BY <1>0, EntryTypes DEF Tracked
  <2>2. /\ Fail(tr[i]).removed = tr[i].removed /\ Fail(tr[i]).t = tr[i].t /\ Fail(tr[i]).hold = tr[i].hold
        /\ Fail(tr[i]) \in Tracked
    BY <1>0, EntryTypes, MarksKept
  <2>3. PICK f : f = [Fail(tr[i]) EXCEPT !.refused = TRUE]
    OBVIOUS
  <2>4. f.refused /\ f.removed = tr[i].removed /\ f.t = tr[i].t /\ f.hold = tr[i].hold
    BY <2>1, <2>2, <2>3 DEF Tracked
  <2>5. /\ UNCHANGED <<phase, tracked, lib, drops>> /\ job[i].pc = "refuse"
        /\ tr'[i] = f /\ \A j \in Ids : j # i => tr'[j] = tr[j]
        /\ job'[i].pc = "idle" /\ job'[i].t = None
        /\ \A j \in Ids : j # i => job'[j] = job[j]
    BY <1>0, <1>13, <2>3, DoneMoves DEF Refuse
  <2>6. tr[i].t = job[i].t /\ ~lib[job[i].t].live /\ tr[i].hold = "none" /\ (i \in tracked => ~tr[i].removed)
    BY <1>1, <2>5 DEF Shape, Gone, AwaitPcs
  <2>7. OwnStep(i)
    <3>1. Shape(i)' /\ (Fresh(i)' => Fresh(i))
      BY <1>1, <2>4, <2>5, <2>6 DEF Shape, Fresh, AwaitPcs, AttachPcs
    <3>2. Gone(i)'
      BY <2>4, <2>5, <2>6 DEF Gone
    <3>3. HandsOn(i)
      BY <2>4, <2>5 DEF HandsOn
    <3>. QED  BY <1>2, <2>4, <2>5, <3>1, <3>2, <3>3, NoneAssumption DEF OwnStep
  <2>. QED  BY <2>5, <2>7, LibSame, ClientStep DEF Bystander, SameMarks, Open
<1>14. CASE GotInfo(i)
  <2>1. job[i].t \in Ids /\ job[i].pc = "await"
    BY <1>14 DEF GotInfo, TypeInv, JobTorrent, AwaitPcs
  <2>2. PICK r \in {tr[i], [tr[i] EXCEPT !.pre = "downloading"], [tr[i] EXCEPT !.state = "downloading"]} :
           tr' = [tr EXCEPT ![i] = r]
    BY <1>0, <1>14 DEF GotInfo
  <2>3. r.refused = tr[i].refused /\ r.removed = tr[i].removed /\ r.t = tr[i].t /\ r.hold = tr[i].hold
    BY <1>0, <2>2 DEF Tracked
  <2>4. /\ UNCHANGED <<phase, tracked, drops>>
        /\ tr'[i] = r /\ \A j \in Ids : j # i => tr'[j] = tr[j]
        /\ job'[i].pc = "deletes" /\ job'[i].t = job[i].t
        /\ \A j \in Ids : j # i => job'[j] = job[j]
    BY <1>0, <1>14, <2>2, SetPcMoves DEF GotInfo
  <2>5. PICK l : l = Hold(lib[job[i].t])
    OBVIOUS
  <2>6. /\ lib' = [lib EXCEPT ![job[i].t] = l] \/ lib' = lib
        /\ l.live = lib[job[i].t].live /\ ~l.dl /\ ~l.ul
    BY <1>0, <1>14, <2>1, <2>5, LibMoves DEF GotInfo
  <2>7. LibStep(i) /\ \A o \in Ids : lib'[o].live => lib[o].live
    BY <1>0, <2>1, <2>4, <2>6, LibOne, LibSame
  <2>8. OwnStep(i)
    <3>1. Shape(i)' /\ (Fresh(i)' => Fresh(i))
      BY <1>1, <2>1, <2>3, <2>4 DEF Shape, Fresh, AwaitPcs, AttachPcs
    <3>2. tr[i].t \in Ids \cup {None}
      BY Parts DEF TypeInv
    <3>3. Gone(i)'
      BY <1>1, <2>1, <2>3, <2>4, <2>7, <3>2 DEF Gone
    <3>4. HandsOn(i)
      BY <2>1, <2>3, <2>4 DEF HandsOn
    <3>. QED  BY <1>2, <2>3, <2>4, <3>1, <3>3, <3>4 DEF OwnStep
  <2>. QED  BY <2>4, <2>7, <2>8, ClientStep DEF Bystander, SameMarks, Open
<1>. QED
  BY <1>3, <1>4, <1>5, <1>6, <1>7, <1>8, <1>9, <1>10, <1>11, <1>12, <1>13, <1>14 DEF Start, Await

LEMMA ClientUser ==
    ASSUME TypeInv, ClientInv, NEW i \in Ids, User(i)
    PROVE  ClientInv'
<1>0. /\ tr \in [Ids -> Tracked] /\ tr[i] \in Tracked /\ job \in [Ids -> Job] /\ job[i] \in Job
      /\ lib \in [Ids -> LibTorrent] /\ tracked \subseteq Ids
  BY DEF TypeInv, TypeOK
<1>1. Shape(i) /\ Gone(i) /\ tr[i].t \in Ids \cup {None}
  BY Parts DEF ClientInv, TypeInv
<1>2. \A o \in Ids : tr[i].t = o \/ job[i].t = o \/ lib[o].live => ~Fresh(o)
  BY NotFresh
\* A step that changes the gates of i's torrent, and of i not what it is.
<1>3. ASSUME \A j \in Ids : Bystander(j), Open' => Open, drops' = drops,
             \/ lib' = lib
             \/ \E l : /\ tr[i].t \in Ids /\ lib' = [lib EXCEPT ![tr[i].t] = l]
                       /\ l.live = lib[tr[i].t].live /\ (~l.live => ~l.dl /\ ~l.ul)
      PROVE  ClientInv'
  <2>1. LibStep(None)
    BY <1>3, LibSame, LibOne
  <2>. QED  BY <1>3, <2>1, NoneAssumption, ClientStep
<1>4. CASE Add(i)
  <2>1. PICK h \in Hashes \cup {None}, dict \in BOOLEAN, via \in {"add", "restore", "url", "promote"},
             p \in BOOLEAN, s \in BOOLEAN :
          FindOrTrack(i, h, dict, via, p, s) \/ TrackURL(i, via, p, s)
    <3>1. CASE \E h \in Hashes : FindOrTrack(i, h, FALSE, "add", FALSE, FALSE)
      BY <3>1
    <3>2. CASE \E h \in Hashes : FindOrTrack(i, h, TRUE, "add", FALSE, FALSE)
      BY <3>2
    <3>3. CASE TrackURL(i, "url", FALSE, FALSE)
      BY <3>3
    <3>. QED  BY <1>4, <3>1, <3>2, <3>3 DEF Add
  <2>. QED  BY <2>1, ClientMint
<1>5. CASE Restore(i)
  <2>1. PICK h \in Hashes \cup {None}, dict \in BOOLEAN, via \in {"add", "restore", "url", "promote"},
             p \in BOOLEAN, s \in BOOLEAN :
          \/ FindOrTrack(i, h, dict, via, p, s) \/ TrackURL(i, via, p, s)
          \/ i \in Unminted /\ TrackErrored(i, h, p, s)
    <3>1. PICK p \in BOOLEAN, s \in BOOLEAN :
            \/ \E h \in Hashes, dict \in BOOLEAN :
                 FindOrTrack(i, h, dict, "restore", p, s) \/ (i \in Unminted /\ TrackErrored(i, h, p, s))
            \/ TrackURL(i, "url", p, FALSE)
      BY <1>5 DEF Restore
    <3>2. CASE TrackURL(i, "url", p, FALSE)
      BY <3>2
    <3>3. CASE \E h \in Hashes, dict \in BOOLEAN :
                 FindOrTrack(i, h, dict, "restore", p, s) \/ (i \in Unminted /\ TrackErrored(i, h, p, s))
      BY <3>3
    <3>. QED  BY <3>1, <3>2, <3>3
  <2>. QED  BY <2>1, ClientMint DEF Unminted
<1>6. CASE Pause(i)
  <2>1. CASE tr[i].paused
    BY <1>3, <1>6, <2>1 DEF Pause, Bystander, SameMarks, Open
  <2>2. CASE ~tr[i].paused
    <3>1. PICK r : r = [PauseEntry(tr[i]) EXCEPT !.userPaused = TRUE]
      OBVIOUS
    <3>2. /\ r.refused = tr[i].refused /\ r.removed = tr[i].removed /\ r.hold = tr[i].hold
          /\ r.t = tr[i].t /\ r.infoHash = tr[i].infoHash
      BY <1>0, <3>1, MarksKept
    <3>3. /\ tr'[i] = r /\ \A j \in Ids : j # i => tr'[j] = tr[j]
          /\ UNCHANGED <<phase, tracked, job, drops>>
      BY <1>0, <1>6, <2>2, <3>1 DEF Pause
    <3>4. \A j \in Ids : Bystander(j)
      BY <3>2, <3>3 DEF Bystander, SameMarks
    <3>5. PICK l : l = Hold(lib[tr[i].t])
      OBVIOUS
    <3>6. tr[i].t \in Ids => l.live = lib[tr[i].t].live /\ ~l.dl /\ ~l.ul
      BY <1>0, <3>5, LibMoves
    <3>7. lib' = lib \/ (tr[i].t \in Ids /\ lib' = [lib EXCEPT ![tr[i].t] = l])
      BY <1>0, <1>1, <1>6, <2>2, <3>5 DEF Pause
    <3>. QED  BY <1>3, <3>3, <3>4, <3>6, <3>7 DEF Open
  <2>. QED  BY <2>1, <2>2
<1>7. CASE Resume(i)
  <2>1. PICK r \in {Unpause(tr[i]), Enqueue(Unpause(tr[i]))} : tr'[i] = r
    BY <1>0, <1>7 DEF Resume
  <2>2. /\ r.refused = tr[i].refused /\ r.removed = tr[i].removed /\ r.hold = tr[i].hold
        /\ r.t = tr[i].t /\ r.infoHash = tr[i].infoHash
    BY <1>0, <2>1, MarksKept
  <2>3. /\ \A j \in Ids : j # i => tr'[j] = tr[j]
        /\ UNCHANGED <<phase, tracked, job, drops>>
    BY <1>0, <1>7 DEF Resume
  <2>4. \A j \in Ids : Bystander(j)
    BY <2>1, <2>2, <2>3 DEF Bystander, SameMarks
  <2>5. PICK l : l = Allow(lib[tr[i].t])
    OBVIOUS
  <2>6. tr[i].t \in Ids => l.live = lib[tr[i].t].live
    BY <1>0, <2>5, LibMoves
  <2>7. Unpause(tr[i]).t = tr[i].t
    BY <1>0, MarksKept
  <2>8. lib' = lib \/ (tr[i].t \in Ids /\ lib[tr[i].t].live /\ lib' = [lib EXCEPT ![tr[i].t] = l])
    BY <1>1, <1>7, <2>5, <2>7 DEF Resume
  <2>. QED  BY <1>3, <2>3, <2>4, <2>6, <2>8 DEF Open
<1>8. CASE Remove(i)
  <2>1. tr'[i] = [tr[i] EXCEPT !.removed = TRUE] /\ tr[i].refused \in BOOLEAN
    BY <1>0, <1>8 DEF Remove, Tracked
  <2>2. /\ tr'[i].refused = tr[i].refused /\ tr'[i].removed /\ tr'[i].hold = tr[i].hold
        /\ tr'[i].t = tr[i].t
        /\ \A j \in Ids : j # i => tr'[j] = tr[j]
        /\ UNCHANGED <<phase, job, lib>> /\ i \in tracked /\ tracked' = tracked \ {i}
        /\ drops' = IF tr[i].t = None THEN drops ELSE drops \cup {tr[i].t}
    BY <1>0, <1>8, <2>1 DEF Remove, Tracked
  <2>3. OwnStep(i)
    <3>0. job[i].pc # "new"
      BY <1>1, <2>2 DEF Shape
    <3>1. Shape(i)' /\ (Fresh(i)' => Fresh(i))
      BY <1>1, <2>2, <3>0 DEF Shape, Fresh, AwaitPcs, AttachPcs
    <3>2. Gone(i)'
      BY <1>1, <2>2 DEF Gone
    <3>3. HandsOn(i)
      BY <2>2, NoneAssumption DEF HandsOn
    <3>. QED  BY <1>2, <2>2, <3>1, <3>2, <3>3 DEF OwnStep
  <2>4. LibStep(i)
    BY <1>1, <2>2 DEF LibStep, ClientInv, Shut
  <2>. QED  BY <2>2, <2>3, <2>4, ClientStep DEF Bystander, SameMarks, Open
<1>9. CASE \E pos \in 0..Cardinality(Ids) : MoveInQueue(i, pos)
  <2>1. \A j \in Ids : Bystander(j)
    BY <1>9 DEF MoveInQueue, Bystander, SameMarks
  <2>. QED  BY <1>3, <1>9, <2>1 DEF MoveInQueue, Open
<1>. QED  BY <1>4, <1>5, <1>6, <1>7, <1>8, <1>9 DEF User

\* The sample loop, the swarm and the shutdown.
LEMMA ClientRest ==
    ASSUME TypeInv, QueueInv, ClientInv,
           \/ \E i \in Ids : Sampler(i) \/ Swarm(i)
           \/ FinishResume \/ Promote \/ PauseForShutdown \/ CloseBegin \/ CloseEnd
    PROVE  ClientInv'
<1>0. /\ tr \in [Ids -> Tracked] /\ job \in [Ids -> Job] /\ lib \in [Ids -> LibTorrent]
      /\ tracked \subseteq Ids /\ \A i \in Ids : Shape(i) /\ tr[i].t \in Ids \cup {None}
  BY Parts DEF ClientInv, TypeInv, TypeOK
\* A step that changes no entry's marks and puts no torrent into the client.
<1>1. ASSUME \A j \in Ids : Bystander(j), Open' => Open, LibStep(None) PROVE ClientInv'
  BY <1>1, NoneAssumption, ClientStep
<1>2. ASSUME NEW i \in Ids, Sampler(i) PROVE ClientInv'
  <2>1. tr[i].t \in Ids /\ lib[tr[i].t] \in LibTorrent /\ tr[i] \in Tracked
    BY <1>0, <1>2 DEF Sampler, SpacePause, ApplyPolicy
  <2>2. PICK r : /\ tr'[i] = r /\ \A j \in Ids : j # i => tr'[j] = tr[j]
                 /\ r.refused = tr[i].refused /\ r.removed = tr[i].removed /\ r.hold = tr[i].hold
                 /\ r.t = tr[i].t /\ r.infoHash = tr[i].infoHash
    <3>1. CASE SpacePause(i)
      <4>1. tr'[i] = [tr[i] EXCEPT !.paused = TRUE, !.spacePaused = TRUE,
                                   !.pre = "downloading", !.state = "errored"]
        BY <1>0, <3>1 DEF SpacePause
      <4>2. \A j \in Ids : j # i => tr'[j] = tr[j]
        BY <1>0, <3>1 DEF SpacePause
      <4>. QED  BY <2>1, <4>1, <4>2 DEF Tracked
    <3>2. CASE ApplyPolicy(i)
      <4>1. PICK r \in {tr[i], [tr[i] EXCEPT !.state = "seeding"]} :
              \/ tr' = [tr EXCEPT ![i] = r]
              \/ tr' = [tr EXCEPT ![i] = [r EXCEPT !.paused = TRUE, !.seedDone = TRUE,
                                                   !.pre = "seeding", !.state = "paused"]]
        BY <3>2 DEF ApplyPolicy
      <4>2. /\ r \in Tracked
            /\ r.refused = tr[i].refused /\ r.removed = tr[i].removed /\ r.hold = tr[i].hold
            /\ r.t = tr[i].t /\ r.infoHash = tr[i].infoHash
        BY <2>1, <4>1 DEF Tracked, State
      <4>3. PICK s \in {r, [r EXCEPT !.paused = TRUE, !.seedDone = TRUE, !.pre = "seeding", !.state = "paused"]} :
              tr' = [tr EXCEPT ![i] = s]
        BY <4>1
      <4>4. /\ s.refused = r.refused /\ s.removed = r.removed /\ s.hold = r.hold
            /\ s.t = r.t /\ s.infoHash = r.infoHash
        BY <4>2, <4>3 DEF Tracked
      <4>5. tr'[i] = s /\ \A j \in Ids : j # i => tr'[j] = tr[j]
        BY <1>0, <4>3
      <4>. QED  BY <4>2, <4>4, <4>5
    <3>. QED  BY <1>2, <3>1, <3>2 DEF Sampler
  <2>3. UNCHANGED <<phase, tracked, job, drops>>
    BY <1>2 DEF Sampler, SpacePause, ApplyPolicy
  <2>4. LibStep(None)
    <3>1. PICK l \in {[lib[tr[i].t] EXCEPT !.dl = FALSE], [lib[tr[i].t] EXCEPT !.ul = FALSE]} :
            lib' = lib \/ lib' = [lib EXCEPT ![tr[i].t] = l]
      BY <1>0, <1>2 DEF Sampler, SpacePause, ApplyPolicy
    <3>2. l.live = lib[tr[i].t].live /\ (l.dl => lib[tr[i].t].dl) /\ (l.ul => lib[tr[i].t].ul)
      BY <2>1, <3>1 DEF LibTorrent
    <3>3. Shut(tr[i].t)
      BY <2>1 DEF ClientInv
    <3>. QED  BY <2>1, <2>3, <3>1, <3>2, <3>3, LibOne, LibSame DEF Shut
  <2>. QED  BY <1>1, <2>2, <2>3, <2>4 DEF Bystander, SameMarks, Open
<1>3. ASSUME NEW o \in Ids, InfoArrives(o) \/ Completes(o) PROVE ClientInv'
  <2>1. PICK l \in {[lib[o] EXCEPT !.info = TRUE], [lib[o] EXCEPT !.complete = TRUE]} :
          lib' = [lib EXCEPT ![o] = l]
    BY <1>0, <1>3 DEF InfoArrives, Completes
  <2>2. lib[o] \in LibTorrent /\ lib[o].live
    BY <1>0, <1>3 DEF InfoArrives, Completes
  <2>3. l.live
    BY <2>1, <2>2 DEF LibTorrent
  <2>4. UNCHANGED <<phase, tracked, tr, job, drops>>
    BY <1>3 DEF InfoArrives, Completes
  <2>5. LibStep(None)
    BY <2>1, <2>2, <2>3, <2>4, LibOne
  <2>. QED  BY <1>1, <2>4, <2>5 DEF Bystander, SameMarks, Open
<1>4. ASSUME NEW o \in Ids, Drop(o) PROVE ClientInv'
  <2>1. /\ UNCHANGED <<phase, tracked, tr, job>> /\ drops' = drops \ {o}
        /\ lib' = [lib EXCEPT ![o] = Dropped(lib[o])]
        /\ ~Dropped(lib[o]).live /\ ~Dropped(lib[o]).dl /\ ~Dropped(lib[o]).ul
    BY <1>0, <1>4, LibMoves DEF Drop
  <2>2. \A x \in Ids : lib'[x] = IF x = o THEN Dropped(lib[o]) ELSE lib[x]
    BY <1>0, <2>1
  <2>3. LibStep(None)
    BY <2>1, <2>2 DEF LibStep, ClientInv, Shut
  <2>. QED  BY <1>1, <2>1, <2>3 DEF Bystander, SameMarks, Open
<1>5. CASE FinishResume \/ CloseBegin
  <2>1. UNCHANGED <<tracked, tr, job, lib, drops>> /\ Open
    BY <1>5 DEF FinishResume, CloseBegin, Open
  <2>. QED  BY <1>1, <2>1, LibSame DEF Bystander, SameMarks
<1>6. CASE PauseForShutdown
  <2>. DEFINE now == {i \in tracked : ~tr[i].paused}
  <2>1. /\ \A i \in Ids : tr'[i] = IF i \in now THEN PauseEntry(tr[i]) ELSE tr[i]
        /\ \A o \in Ids : lib'[o] \in {lib[o], Hold(lib[o])}
        /\ UNCHANGED <<phase, tracked, job, drops>>
    BY <1>0, <1>6 DEF PauseForShutdown
  <2>. HIDE DEF now
  <2>2. \A j \in Ids : Bystander(j)
    <3>1. \A j \in Ids : tr[j] \in Tracked
      BY <1>0
    <3>. QED  BY <2>1, <3>1, MarksKept DEF Bystander, SameMarks
  <2>3. LibStep(None)
    <3>1. \A o \in Ids : Hold(lib[o]).live = lib[o].live /\ ~Hold(lib[o]).dl /\ ~Hold(lib[o]).ul
      BY <1>0, LibMoves
    <3>. QED  BY <2>1, <3>1 DEF LibStep, ClientInv, Shut
  <2>. QED  BY <1>1, <2>1, <2>2, <2>3 DEF Open
<1>7. CASE CloseEnd
  <2>1. /\ UNCHANGED <<tracked, tr, job, drops>> /\ ~Open'
        /\ \A o \in Ids : ~lib'[o].live /\ ~lib'[o].dl /\ ~lib'[o].ul
    BY <1>0, <1>7, LibMoves DEF CloseEnd, Open
  <2>2. LibStep(None)
    BY <2>1 DEF LibStep, Shut
  <2>. QED  BY <1>1, <2>1, <2>2 DEF Bystander, SameMarks
<1>8. CASE Promote
  <2>1. PICK i \in Ids : i = NextUp /\ i \in Queued
    <3>1. queue \in Seq(Ids) /\ queue # <<>>
      BY <1>8 DEF Promote, TypeInv, TypeOK
    <3>2. 1 \in DOMAIN queue /\ NextUp = queue[1] /\ queue[1] \in Ids
      BY <3>1 DEF NextUp
    <3>. QED  BY <3>2 DEF Queued
  <2>2. i \in tracked /\ Startable(tr[i]) /\ tr[i] \in Tracked /\ job[i] \in Job
    BY <1>0, <2>1 DEF QueueInv, Sound, Ready
  <2>3. UNCHANGED <<phase, tracked, drops>>
    BY <1>8 DEF Promote
  <2>4. CASE tr[i].t # None
    <3>1. PICK st \in {"downloading", "checking"} : tr' = [tr EXCEPT ![i] = [tr[i] EXCEPT !.state = st]]
      BY <1>0, <1>8, <2>1, <2>4 DEF Promote
    <3>2. job' = job /\ (lib' = lib \/ (lib[tr[i].t].live /\ lib' = [lib EXCEPT ![tr[i].t] = Allow(lib[tr[i].t])]))
      BY <1>0, <1>8, <2>1, <2>4 DEF Promote
    <3>3. tr'[i] = [tr[i] EXCEPT !.state = st] /\ \A j \in Ids : j # i => tr'[j] = tr[j]
      BY <1>0, <3>1
    <3>4. \A j \in Ids : Bystander(j)
      BY <2>2, <2>3, <3>2, <3>3 DEF Bystander, SameMarks, Tracked
    <3>5. Allow(lib[tr[i].t]).live = lib[tr[i].t].live
      BY <1>0, <2>4, LibMoves
    <3>6. LibStep(None)
      <4>1. PICK l : l = Allow(lib[tr[i].t])
        OBVIOUS
      <4>. QED  BY <2>3, <3>2, <3>5, <4>1, LibOne, LibSame
    <3>. QED  BY <1>1, <2>3, <3>4, <3>6 DEF Open
  <2>5. CASE tr[i].t = None
    <3>1. tr'[i] = [tr[i] EXCEPT !.state = "checking", !.hold = "none"] /\ \A j \in Ids : j # i => tr'[j] = tr[j]
      BY <1>0, <1>8, <2>1, <2>5 DEF Promote
    <3>2. PICK w \in {[job[i] EXCEPT !.pc = "fetch"], [job[i] EXCEPT !.pc = "attach", !.via = "promote"]} :
            job' = [job EXCEPT ![i] = w]
      BY <1>0, <1>8, <2>1, <2>5 DEF Promote
    <3>3. w.pc \in {"fetch", "attach"} /\ w.t = job[i].t
      BY <2>2, <3>2 DEF Job
    <3>4. job'[i] = w /\ \A j \in Ids : j # i => job'[j] = job[j]
      BY <1>0, <3>2
    <3>5. /\ tr'[i].refused = tr[i].refused /\ tr'[i].removed = tr[i].removed /\ tr'[i].t = tr[i].t
          /\ tr'[i].hold = "none"
      BY <2>2, <3>1 DEF Tracked
    <3>6. lib' = lib
      BY <1>8, <2>1, <2>5 DEF Promote
    <3>7. tr[i].hold # "none" /\ job[i].pc = "idle" /\ ~tr[i].refused /\ job[i].t = None
      BY <1>0, <2>2, <2>5 DEF Startable, Shape, AwaitPcs
    <3>8. OwnStep(i)
      <4>1. Shape(i)' /\ Gone(i)' /\ Fresh(i)
        BY <1>0, <2>2, <2>3, <2>5, <3>3, <3>4, <3>5, <3>7 DEF Shape, Gone, Fresh, AwaitPcs, AttachPcs
      <4>2. HandsOn(i)
        BY <2>5, <3>7, NoneAssumption DEF HandsOn
      <4>. QED  BY <2>5, <3>3, <3>4, <3>5, <3>7, <4>1, <4>2, NoneAssumption DEF OwnStep
    <3>9. \A j \in Ids : j # i => Bystander(j)
      BY <2>3, <3>1, <3>4 DEF Bystander, SameMarks
    <3>. QED  BY <2>3, <3>6, <3>8, <3>9, LibSame, ClientStep DEF Open
  <2>. QED  BY <2>4, <2>5
<1>. QED
  BY <1>2, <1>3, <1>4, <1>5, <1>6, <1>7, <1>8 DEF Swarm

LEMMA ClientInit == Init => ClientInv
<1>. SUFFICES ASSUME Init PROVE ClientInv
  OBVIOUS
<1>1. \A i \in Ids : /\ tr[i].t = None /\ ~tr[i].refused /\ ~tr[i].removed /\ tr[i].hold = "none"
                     /\ job[i].pc = "new" /\ job[i].t = None
                     /\ ~lib[i].live /\ ~lib[i].dl /\ ~lib[i].ul
  BY DEF Init, NewTracked, IdleJob, NewLib
<1>2. tracked = {} /\ drops = {}
  BY DEF Init
<1>. QED
  BY <1>1, <1>2, NoneAssumption DEF ClientInv, Shape, Gone, Unborn, Shut, AwaitPcs, AttachPcs

\* What every step keeps: the types, the queue, the client.
EngineInv == TypeInv /\ QueueInv /\ ClientInv

LEMMA EngineStep == EngineInv /\ [Next]_vars => EngineInv'
<1>. SUFFICES ASSUME EngineInv, [Next]_vars PROVE EngineInv'
  OBVIOUS
<1>. USE DEF EngineInv
<1>1. TypeInv'
  BY TypeStep
<1>2. CASE \E i \in Ids : Start(i) \/ Await(i)
  BY <1>1, <1>2, QueueStart, ClientStart
<1>3. CASE \E i \in Ids : User(i)
  BY <1>1, <1>3, QueueUser, ClientUser
<1>4. CASE \/ \E i \in Ids : Sampler(i) \/ Swarm(i)
           \/ FinishResume \/ Promote \/ PauseForShutdown \/ CloseBegin \/ CloseEnd
  BY <1>1, <1>4, QueueRest, ClientRest
<1>5. CASE UNCHANGED vars
  <2>1. QueueInv'
    BY <1>5 DEF vars, QueueInv, Queued, Sound
  <2>2. LibStep(None) /\ (\A j \in Ids : Bystander(j)) /\ (Open' => Open)
    BY <1>5, LibSame DEF vars, Bystander, SameMarks, Open
  <2>3. ClientInv'
    BY <2>2, NoneAssumption, ClientStep
  <2>. QED  BY <1>1, <2>1, <2>3
<1>. QED  BY <1>2, <1>3, <1>4, <1>5 DEF Next

(***************************************************************************)
(* No torrent is left in the client with nobody to manage it, wherever a   *)
(* Remove, a refusal or a second add of the same infohash lands between    *)
(* the steps of addToClient and attach.                                    *)
(***************************************************************************)
THEOREM NothingOrphaned == Spec => []NoOrphan
<1>1. Init => EngineInv
  BY TypeInit, QueueInit, ClientInit DEF EngineInv
<1>2. EngineInv => NoOrphan
  BY DEF EngineInv, ClientInv, Managed, NoOrphan
<1>. QED  BY <1>1, <1>2, EngineStep, PTL DEF Spec

----------------------------------------------------------------------------
(* One entry per infohash, and its gates, when no source is a .torrent URL:*)
(* every entry then names its infohash from the moment it is tracked.      *)

\* Entry i is live: it is tracked and was not refused.
Claims(i) == i \in tracked /\ ~tr[i].refused

\* The torrent o was joined by a start whose entry is removed: it will be
\* dropped, whoever has joined it since.
Stolen(o) == \E k \in Ids : tr[k].removed /\ job[k].pc = "publish" /\ job[k].t = o

\* The torrent o is in the client to stay.
Stays(o) == lib[o].live /\ o \notin drops /\ ~Stolen(o)

\* Entry k, or the job that starts it, has the torrent o.
Has(k, o) ==
    \/ k \in tracked /\ tr[k].t = o
    \/ job[k].pc \in {"publish"} \cup AwaitPcs /\ job[k].t = o

\* The entry, the spec its job carries and its torrent are of one infohash.
Named(i) ==
    /\ job[i].pc # "fetch" /\ tr[i].hold # "url"
    /\ job[i].pc \in AttachPcs \cup {"retrack"} \/ tr[i].hold # "none" =>
         job[i].hash = tr[i].infoHash /\ tr[i].infoHash \in Hashes
    /\ tr[i].t # None => lib[tr[i].t].hash = tr[i].infoHash
    /\ job[i].pc = "publish" => lib[job[i].t].hash = tr[i].infoHash
    /\ i \in tracked => tr[i].infoHash \in Hashes

\* A live entry that has no torrent yet will not be handed one that stays.
Alone(i) == Claims(i) /\ Fresh(i) => \A o \in Ids : Stays(o) => lib[o].hash # tr[i].infoHash

\* A torrent that stays is as its job left it until the entry is published.
JobGates(i) ==
    \A o \in Ids : job[i].pc = "publish" /\ job[i].t = o /\ Stays(o) =>
        (lib[o].dl <=> ~job[i].held) /\ (lib[o].ul <=> ~job[i].held)

\* What the gates l of a published entry r are, also while it still checks.
Gated(r, l) ==
    /\ r.paused /\ ~r.seedDone => ~l.dl
    /\ r.paused /\ ~r.spacePaused => ~l.ul
    /\ ~r.paused /\ r.state \in {"checking", "downloading", "seeding"} => l.dl /\ l.ul

EntryGates(i) ==
    \A o \in Ids : i \in tracked /\ tr[i].t = o /\ Stays(o) => Gated(tr[i], lib[o])

NameInv ==
    /\ \A i \in Ids : Named(i) /\ Alone(i) /\ JobGates(i) /\ EntryGates(i)
    /\ \A i, j \in Ids : Claims(i) /\ Claims(j) /\ tr[i].infoHash = tr[j].infoHash => i = j

\* Whoever has a torrent that stays is a live entry of its infohash ...
LEMMA HolderClaims ==
    ASSUME EngineInv, NameInv, NEW k \in Ids, NEW o \in Ids, Stays(o), Has(k, o)
    PROVE  Claims(k) /\ tr[k].infoHash = lib[o].hash
<1>1. Shape(k) /\ Gone(k) /\ Named(k) /\ o # None
  BY NoneAssumption DEF EngineInv, ClientInv, NameInv
<1>2. CASE k \in tracked /\ tr[k].t = o
  BY <1>1, <1>2 DEF Gone, Named, Claims, Stays
<1>3. CASE job[k].pc = "publish" /\ job[k].t = o
  <2>1. ~tr[k].removed /\ k \in tracked
    BY <1>1, <1>3 DEF Shape, AttachPcs, Stays, Stolen
  <2>2. ~tr[k].refused
    BY <1>1, <1>3 DEF Shape
  <2>. QED  BY <1>1, <1>3, <2>1, <2>2 DEF Named, Claims
<1>4. CASE job[k].pc \in AwaitPcs /\ job[k].t = o
  <2>1. tr[k].t = o /\ ~tr[k].refused /\ (k \in tracked \/ tr[k].removed)
    BY <1>1, <1>4 DEF Shape, AwaitPcs
  <2>2. ~tr[k].removed
    BY <1>1, <2>1 DEF Gone, Stays
  <2>. QED  BY <1>1, <2>1, <2>2 DEF Named, Claims
<1>. QED  BY <1>2, <1>3, <1>4 DEF Has

\* ... so there is one.
LEMMA OneHolder ==
    ASSUME EngineInv, NameInv, NEW j \in Ids, NEW k \in Ids, NEW o \in Ids, Stays(o), Has(j, o), Has(k, o)
    PROVE  j = k
<1>1. Claims(j) /\ Claims(k) /\ tr[j].infoHash = tr[k].infoHash
  BY HolderClaims
<1>. QED  BY <1>1 DEF NameInv

----------------------------------------------------------------------------
(* One step, seen from its entry: what it does to names and claims.        *)

\* No torrent but i's own comes into the client or changes its infohash.
LibNames(i) == \A o \in Ids :
    \/ o = i /\ Born(i)
    \/ /\ lib'[o].live => lib[o].live
       /\ lib'[o].hash = lib[o].hash
       /\ o \in drops /\ lib'[o].live => o \in drops'

\* A claim of i is the one it had, or a new one that no other entry and no
\* torrent contradicts.
NewClaim(i) ==
    /\ \A j \in Ids : j # i /\ Claims(j) => tr[j].infoHash # tr'[i].infoHash
    /\ \A o \in Ids : Stays(o) => lib[o].hash # tr'[i].infoHash
    /\ ~Born(i)

NameOwn(i) ==
    /\ Named(i)'
    /\ Claims(i)' => \/ Claims(i) /\ tr'[i].infoHash = tr[i].infoHash /\ (Fresh(i)' => Fresh(i))
                     \/ NewClaim(i)
    /\ Born(i) => lib'[i].hash = tr[i].infoHash /\ (Stays(i)' => Claims(i))
    /\ \A o \in Ids :
         tr[i].removed /\ job[i].pc = "publish" /\ job[i].t = o /\ lib'[o].live =>
            o \in drops' \/ (tr'[i].removed /\ job'[i].pc = "publish" /\ job'[i].t = o)

LEMMA StaysShrinks ==
    ASSUME NEW i, \A j \in Ids : j # i => Bystander(j), LibNames(i), i \in Ids => NameOwn(i),
           NEW o \in Ids, Stays(o)'
    PROVE  Stays(o) \/ (o = i /\ Born(i))
<1>. SUFFICES ASSUME ~(o = i /\ Born(i)) PROVE Stays(o)
  OBVIOUS
<1>1. lib'[o].live /\ lib[o].live /\ o \notin drops
  BY DEF Stays, LibNames
<1>2. ASSUME NEW k \in Ids, tr[k].removed, job[k].pc = "publish", job[k].t = o PROVE FALSE
  <2>1. CASE k = i
    BY <1>1, <1>2, <2>1 DEF NameOwn, Stays, Stolen
  <2>2. CASE k # i
    BY <1>2, <2>2 DEF Bystander, SameMarks, Stays, Stolen
  <2>. QED  BY <2>1, <2>2
<1>. QED  BY <1>1, <1>2 DEF Stays, Stolen

LEMMA NamesKept ==
    ASSUME EngineInv, NameInv, NEW i, \A j \in Ids : j # i => Bystander(j), LibNames(i),
           i \in Ids => NameOwn(i)
    PROVE  /\ \A j \in Ids : Named(j)' /\ Alone(j)'
           /\ (\A j, k \in Ids : Claims(j) /\ Claims(k) /\ tr[j].infoHash = tr[k].infoHash => j = k)'
<1>0. \A j \in Ids : /\ Shape(j) /\ Unborn(j) /\ Named(j) /\ Alone(j)
                     /\ tr[j].t \in Ids \cup {None} /\ (job[j].pc = "publish" => job[j].t \in Ids)
  BY Parts DEF EngineInv, ClientInv, NameInv, TypeInv, JobTorrent
<1>1. ASSUME NEW j \in Ids, j # i
      PROVE  /\ Claims(j)' => Claims(j)
             /\ tr'[j].infoHash = tr[j].infoHash /\ (Fresh(j)' <=> Fresh(j))
  BY <1>1 DEF Claims, Bystander, SameMarks, Fresh
<1>2. ASSUME NEW j \in Ids, j # i PROVE Named(j)'
  <2>1. \A o \in Ids : tr[j].t = o \/ job[j].t = o => lib'[o].hash = lib[o].hash
    BY <1>0 DEF LibNames, Born, Unborn
  <2>2. Bystander(j) /\ Named(j)
    BY <1>0, <1>2
  <2>3. /\ tr[j].t # None => lib'[tr[j].t].hash = tr[j].infoHash
        /\ job[j].pc = "publish" => lib'[job[j].t].hash = tr[j].infoHash
    BY <1>0, <2>1, <2>2 DEF Named
  <2>. QED  BY <2>2, <2>3 DEF Named, Bystander, SameMarks
<1>3. \A j \in Ids : Named(j)'
  BY <1>2 DEF NameOwn
<1>4. ASSUME NEW j \in Ids, NEW k \in Ids, Claims(j)', Claims(k)', tr'[j].infoHash = tr'[k].infoHash
      PROVE  j = k
  <2>1. ASSUME NEW a \in Ids, NEW b \in Ids, a = i, b # i, Claims(a)', Claims(b)',
               tr'[a].infoHash = tr'[b].infoHash
        PROVE  FALSE
    BY <1>1, <2>1 DEF NameOwn, NewClaim, NameInv
  <2>2. CASE j # i /\ k # i
    BY <1>1, <1>4, <2>2 DEF NameInv
  <2>. QED  BY <1>4, <2>1, <2>2
<1>5. ASSUME NEW j \in Ids, Claims(j)', Fresh(j)', NEW o \in Ids, Stays(o)'
      PROVE  lib'[o].hash # tr'[j].infoHash
  <2>1. CASE o = i /\ Born(i)
    <3>1. j # i
      BY <1>5, <2>1 DEF Born
    <3>2. Claims(j) /\ tr'[j].infoHash = tr[j].infoHash
      BY <1>1, <1>5, <3>1
    <3>3. Claims(i) /\ lib'[o].hash = tr[i].infoHash
      BY <1>5, <2>1 DEF NameOwn
    <3>. QED  BY <2>1, <3>1, <3>2, <3>3 DEF NameInv
  <2>2. CASE ~(o = i /\ Born(i))
    <3>1. Stays(o) /\ lib'[o].hash = lib[o].hash
      BY <1>5, <2>2, StaysShrinks DEF LibNames
    <3>2. CASE j # i
      BY <1>0, <1>1, <1>5, <3>1, <3>2 DEF Alone
    <3>3. CASE j = i
      BY <1>0, <1>5, <3>1, <3>3 DEF Alone, NameOwn, NewClaim
    <3>. QED  BY <3>2, <3>3
  <2>. QED  BY <2>1, <2>2
<1>6. \A j \in Ids : Alone(j)'
  BY <1>5 DEF Alone
<1>. QED  BY <1>3, <1>4, <1>6

(***************************************************************************)
(* The gates: what a step does to a torrent that stays is about the entry  *)
(* that has it, so only that entry is left to look at.                     *)
(***************************************************************************)
SameGates(j) ==
    /\ tr'[j].paused = tr[j].paused /\ tr'[j].state = tr[j].state
    /\ tr'[j].seedDone = tr[j].seedDone /\ tr'[j].spacePaused = tr[j].spacePaused

LEMMA NameStep ==
    ASSUME EngineInv, NameInv, NEW i, \A j \in Ids : j # i => Bystander(j) /\ SameGates(j), LibNames(i),
           i \in Ids => NameOwn(i) /\ JobGates(i)' /\ EntryGates(i)',
           \A o \in Ids : Stays(o)' => (lib'[o].dl = lib[o].dl /\ lib'[o].ul = lib[o].ul)
                                       \/ (i \in Ids /\ Has(i, o)) \/ (o = i /\ Born(i))
    PROVE  NameInv'
<1>0. \A j \in Ids, o \in Ids : Has(j, o) => ~(o = i /\ Born(i))
  BY DEF Has, Born, EngineInv, ClientInv, Unborn
<1>1. ASSUME NEW j \in Ids, j # i, NEW o \in Ids, job'[j].pc = "publish", job'[j].t = o, Stays(o)'
      PROVE  (lib'[o].dl <=> ~job'[j].held) /\ (lib'[o].ul <=> ~job'[j].held)
  <2>1. job'[j] = job[j]
    BY <1>1 DEF Bystander, SameMarks
  <2>2. Has(j, o) /\ ~(o = i /\ Born(i))
    BY <1>0, <1>1, <2>1 DEF Has
  <2>3. Stays(o)
    BY <1>1, <2>2, StaysShrinks
  <2>4. lib'[o].dl = lib[o].dl /\ lib'[o].ul = lib[o].ul
    BY <1>1, <2>2, <2>3, OneHolder
  <2>5. JobGates(j)
    BY DEF NameInv
  <2>. QED  BY <1>1, <2>1, <2>3, <2>4, <2>5 DEF JobGates
<1>2. ASSUME NEW j \in Ids, j # i, NEW o \in Ids, j \in tracked', tr'[j].t = o, Stays(o)'
      PROVE  Gated(tr'[j], lib'[o])
  <2>1. tr'[j].t = tr[j].t /\ j \in tracked /\ SameGates(j)
    BY <1>2 DEF Bystander, SameMarks
  <2>2. Has(j, o) /\ ~(o = i /\ Born(i))
    BY <1>0, <1>2, <2>1 DEF Has
  <2>3. Stays(o)
    BY <1>2, <2>2, StaysShrinks
  <2>4. lib'[o].dl = lib[o].dl /\ lib'[o].ul = lib[o].ul
    BY <1>2, <2>2, <2>3, OneHolder
  <2>5. EntryGates(j)
    BY DEF NameInv
  <2>. QED  BY <1>2, <2>1, <2>3, <2>4, <2>5 DEF EntryGates, Gated, SameGates
<1>3. \A j \in Ids : JobGates(j)' /\ EntryGates(j)'
  BY <1>1, <1>2 DEF JobGates, EntryGates, Gated
<1>. QED  BY <1>3, NamesKept DEF NameInv

----------------------------------------------------------------------------
(* Names and gates, action by action.                                      *)

LEMMA NamesSame ==
    ASSUME NEW i, lib' = lib, drops' = drops
    PROVE  LibNames(i)
  BY DEF LibNames

LEMMA NamesOne ==
    ASSUME EngineInv, NEW i, NEW o, NEW l, lib' = [lib EXCEPT ![o] = l],
           o \in Ids => (l.live => lib[o].live) /\ l.hash = lib[o].hash, drops' = drops
    PROVE  LibNames(i) /\ \A x \in Ids : x # o => lib'[x] = lib[x]
<1>1. \A x \in Ids : lib'[x] = IF x = o THEN l ELSE lib[x]
  BY DEF EngineInv, TypeInv, TypeOK
<1>. QED  BY <1>1 DEF LibNames

\* A new entry of infohash h: nobody claims h, and no torrent of h stays.
LEMMA NameMint ==
    ASSUME EngineInv, NameInv, NEW i \in Ids, NEW h \in Hashes, NEW dict \in BOOLEAN,
           NEW via, NEW p \in BOOLEAN, NEW s \in BOOLEAN,
           \/ FindOrTrack(i, h, dict, via, p, s)
           \/ job[i].pc \in {"new", "retrack"} /\ TrackErrored(i, h, p, s)
    PROVE  NameInv'
<1>0. /\ tr \in [Ids -> Tracked] /\ job \in [Ids -> Job] /\ tracked \subseteq Ids
      /\ Shape(i) /\ job[i].pc \in {"new", "retrack"}
  BY DEF EngineInv, TypeInv, TypeOK, ClientInv, FindOrTrack, Unminted
<1>1. /\ lib' = lib /\ drops' = drops
      /\ \A j \in Ids : j # i => Bystander(j) /\ SameGates(j)
      /\ tr'[i].t = None /\ tr'[i].infoHash = h /\ tr'[i].hold # "url"
      /\ job'[i].pc \in {"idle", "attach"}
      /\ job'[i].pc = "attach" \/ tr'[i].hold # "none" => job'[i].hash = h
      /\ Claims(i)' => FindOrTrack(i, h, dict, via, p, s)
  <2>1. CASE FindOrTrack(i, h, dict, via, p, s)
    <3>. DEFINE entry == [NewTracked(p, s) EXCEPT !.infoHash = h]
    <3>1. /\ tr'[i] \in {StartPaused(entry), Enqueue([entry EXCEPT !.hold = "spec"]), entry}
          /\ \A j \in Ids : j # i => tr'[j] = tr[j] /\ job'[j] = job[j]
          /\ job'[i].pc \in {"idle", "attach"} /\ job'[i].hash = h
      BY <1>0, <2>1 DEF FindOrTrack, IdleJob
    <3>2. \A r \in {StartPaused(entry), Enqueue([entry EXCEPT !.hold = "spec"]), entry} :
            r.t = None /\ r.infoHash = h /\ r.hold # "url"
      BY DEF NewTracked, StartPaused, Enqueue
    <3>3. \A j \in tracked : j \in Matches(h, None) => tr[j].refused
      BY <2>1 DEF FindOrTrack
    <3>4. tracked' = (tracked \ Matches(h, None)) \cup {i} /\ lib' = lib /\ drops' = drops
      BY <2>1 DEF FindOrTrack
    <3>. HIDE DEF entry
    <3>. QED  BY <2>1, <3>1, <3>2, <3>3, <3>4 DEF Bystander, SameMarks, SameGates
  <2>2. CASE TrackErrored(i, h, p, s)
    BY <1>0, <2>2 DEF TrackErrored, NewTracked, IdleJob, Claims, Bystander, SameMarks, SameGates
  <2>. QED  BY <2>1, <2>2
<1>2. ~Born(i)
  BY <1>1 DEF Born
<1>3. ASSUME FindOrTrack(i, h, dict, via, p, s) PROVE NewClaim(i)
  <2>1. Open /\ \A j \in Matches(h, None) : tr[j].refused
    BY <1>3 DEF FindOrTrack
  <2>2. \A j \in Ids : Claims(j) => tr[j].infoHash # h
    <3>1. \A j \in Ids : j # None
      BY NoneAssumption
    <3>. QED  BY <2>1, <3>1 DEF Claims, Matches
  <2>3. ASSUME NEW o \in Ids, Stays(o), lib[o].hash = h PROVE FALSE
    <3>1. Managed(o) /\ o \notin drops
      BY <2>1, <2>3 DEF EngineInv, ClientInv, Stays
    <3>2. PICK k \in Ids : Has(k, o)
      BY <1>0, <3>1 DEF Managed, Has
    <3>. QED  BY <2>2, <2>3, <3>2, HolderClaims
  <2>. QED  BY <1>1, <1>2, <2>2, <2>3 DEF NewClaim
<1>4. NameOwn(i) /\ JobGates(i)' /\ EntryGates(i)'
  <2>1. Named(i)'
    BY <1>1 DEF Named, AttachPcs
  <2>2. job[i].pc # "publish"
    BY <1>0
  <2>3. JobGates(i)' /\ EntryGates(i)'
    BY <1>1, NoneAssumption DEF JobGates, EntryGates, Gated
  <2>. QED  BY <1>1, <1>2, <1>3, <2>1, <2>2, <2>3 DEF NameOwn
<1>. QED  BY <1>1, <1>4, NamesSame, NameStep

LEMMA NameGivesUp ==
    ASSUME EngineInv, NameInv, NEW i \in Ids,
           job[i].pc \in {"attach", "join"} \/ (job[i].pc = "publish" /\ ~tr[i].removed),
           AttachFailure(i), UNCHANGED <<phase, restored, lib, drops>>
    PROVE  NameInv'
<1>0. /\ tr \in [Ids -> Tracked] /\ tr[i] \in Tracked /\ job[i] \in Job
      /\ Shape(i) /\ Named(i)
  BY DEF EngineInv, TypeInv, TypeOK, ClientInv, NameInv
<1>1. tr[i].t = None /\ tr[i].hold = "none" /\ job[i].hash = tr[i].infoHash /\ tr[i].infoHash \in Hashes
  BY <1>0 DEF Shape, Named, AwaitPcs, AttachPcs
<1>2. /\ Fail(tr[i]) \in Tracked
      /\ Fail(tr[i]).refused = tr[i].refused /\ Fail(tr[i]).t = tr[i].t
      /\ Fail(tr[i]).hold = tr[i].hold /\ Fail(tr[i]).infoHash = tr[i].infoHash
  BY <1>0, MarksKept, EntryTypes
<1>3. /\ job'[i].pc \in {"idle", "retrack"}
      /\ job'[i].pc = "retrack" => job'[i].hash = job[i].hash
      /\ \A j \in Ids : j # i => job'[j] = job[j]
      /\ tracked' \subseteq tracked /\ \A j \in tracked : j # i => j \in tracked'
      /\ \A j \in Ids : j # i => tr'[j] = tr[j]
      /\ tr'[i].t = None /\ tr'[i].hold = "none" /\ tr'[i].infoHash = tr[i].infoHash
      /\ tr[i].refused => tr'[i].refused
  <2>. USE DEF EngineInv
  <2>1. CASE job[i].via \in {"add", "restore"}
    <3>1. /\ tracked' = tracked \ {i} /\ tr' = tr
          /\ SetPc(i, "retrack") \/ Done(i)
      BY <2>1 DEF AttachFailure
    <3>. QED  BY <1>1, <3>1, SetPcMoves, DoneMoves
  <2>2. CASE job[i].via = "url"
    <3>1. tr' = [tr EXCEPT ![i] = Fail(tr[i])] /\ Done(i) /\ tracked' = tracked
      BY <1>0, <2>2 DEF AttachFailure, FailEntry
    <3>. QED  BY <1>0, <1>1, <1>2, <3>1, DoneMoves
  <2>3. CASE job[i].via = "promote"
    <3>. DEFINE f == [Fail(tr[i]) EXCEPT !.refused = TRUE]
    <3>1. tr' = [tr EXCEPT ![i] = f] /\ Done(i) /\ tracked' = tracked
      BY <1>0, <2>3 DEF AttachFailure
    <3>3. f.t = tr[i].t /\ f.hold = tr[i].hold /\ f.infoHash = tr[i].infoHash /\ f.refused
      BY <1>2 DEF Tracked
    <3>. HIDE DEF f
    <3>. QED  BY <1>0, <1>1, <3>1, <3>3, DoneMoves
  <2>4. job[i].via \in {"add", "restore", "url", "promote"}
    BY <1>0 DEF Job
  <2>. QED  BY <2>1, <2>2, <2>3, <2>4
<1>4. \A j \in Ids : j # i => Bystander(j) /\ SameGates(j)
  BY <1>3 DEF Bystander, SameMarks, SameGates
<1>5. NameOwn(i) /\ JobGates(i)' /\ EntryGates(i)'
  <2>1. Named(i)'
    BY <1>0, <1>1, <1>3 DEF Named, AttachPcs
  <2>2. Claims(i)' => Claims(i) /\ ~Fresh(i)'
    BY <1>3 DEF Claims, Fresh
  <2>3. ~Born(i)
    BY <1>3 DEF Born
  <2>4. JobGates(i)' /\ EntryGates(i)'
    BY <1>3, NoneAssumption DEF JobGates, EntryGates, Gated
  <2>5. ~(tr[i].removed /\ job[i].pc = "publish")
    OBVIOUS
  <2>. QED  BY <1>3, <2>1, <2>2, <2>3, <2>4, <2>5 DEF NameOwn
<1>. QED  BY <1>4, <1>5, NamesSame, NameStep

LEMMA NameJoin ==
    ASSUME EngineInv, NameInv, NEW i \in Ids, Join(i)
    PROVE  NameInv'
<1>0. /\ Shape(i) /\ Named(i) /\ Alone(i) /\ Unborn(i) /\ job[i].pc = "join"
      /\ UNCHANGED <<tracked, tr, drops>> /\ lib \in [Ids -> LibTorrent]
  BY DEF EngineInv, TypeInv, TypeOK, ClientInv, NameInv, Join
<1>1. PICK o \in Ids, l \in LibTorrent :
        /\ lib' = [lib EXCEPT ![o] = l] /\ l.live /\ l.hash = job[i].hash
        /\ \/ o = i /\ InClient(job[i].hash) = {} /\ (l.dl <=> ~job[i].held) /\ (l.ul <=> ~job[i].held)
           \/ lib[o].live /\ lib[o].hash = job[i].hash
        /\ job'[i].pc = "publish" /\ job'[i].t = o /\ job'[i].held = job[i].held
        /\ job'[i].hash = job[i].hash
        /\ \A j \in Ids : j # i => job'[j] = job[j]
  BY JoinMoves DEF EngineInv
<1>2. /\ job[i].hash = tr[i].infoHash /\ tr[i].infoHash \in Hashes
      /\ tr[i].t = None /\ tr[i].hold = "none" /\ ~tr[i].refused /\ (i \in tracked \/ tr[i].removed)
      /\ Fresh(i) /\ ~Fresh(i)'
  BY <1>0, <1>1 DEF Shape, Named, AttachPcs, AwaitPcs, Fresh
<1>3. \A x \in Ids : lib'[x] = IF x = o THEN l ELSE lib[x]
  BY <1>0, <1>1
<1>4. \A j \in Ids : j # i => Bystander(j) /\ SameGates(j)
  BY <1>0, <1>1 DEF Bystander, SameMarks, SameGates
<1>5. Stays(o)' => Claims(i)
  BY <1>0, <1>1, <1>2 DEF Stays, Stolen, Claims
<1>6. lib[o].live => ~Stays(o)'
  <2>1. lib[o].live => lib[o].hash = tr[i].infoHash
    <3>1. ~lib[i].live
      BY <1>0, <1>2 DEF Unborn
    <3>. QED  BY <1>1, <1>2, <3>1
  <2>2. Claims(i) /\ lib[o].live => ~Stays(o)
    BY <1>0, <1>2, <2>1 DEF Alone
  <2>3. lib[o].live /\ Stays(o)' => Stays(o)
    <3>1. ASSUME NEW k \in Ids, tr[k].removed, job[k].pc = "publish", job[k].t = o
          PROVE  tr'[k].removed /\ job'[k].pc = "publish" /\ job'[k].t = o
      BY <1>0, <1>1, <3>1
    <3>. QED  BY <1>0, <3>1 DEF Stays, Stolen
  <2>. QED  BY <1>5, <2>2, <2>3
<1>7. ~lib[o].live => o = i /\ Born(i)
  BY <1>1, <1>2 DEF Born
<1>8. LibNames(i)
  <2>1. lib[o].live => l.hash = lib[o].hash
    <3>1. ~lib[i].live
      BY <1>0, <1>2 DEF Unborn
    <3>. QED  BY <1>1, <3>1
  <2>. QED  BY <1>0, <1>3, <1>7, <2>1 DEF LibNames
<1>9. NameOwn(i) /\ JobGates(i)' /\ EntryGates(i)'
  <2>1. Named(i)'
    BY <1>0, <1>1, <1>2, <1>3 DEF Named, AttachPcs
  <2>2. Born(i) => lib'[i].hash = tr[i].infoHash /\ (Stays(i)' => Claims(i))
    BY <1>1, <1>2, <1>3, <1>5 DEF Born
  <2>3. NameOwn(i)
    BY <1>0, <1>2, <2>1, <2>2 DEF NameOwn, Claims
  <2>4. JobGates(i)'
    <3>1. Stays(o)' => (l.dl <=> ~job[i].held) /\ (l.ul <=> ~job[i].held)
      BY <1>1, <1>6
    <3>. QED  BY <1>1, <1>3, <3>1 DEF JobGates
  <2>5. EntryGates(i)'
    BY <1>0, <1>2, NoneAssumption DEF EntryGates, Gated
  <2>. QED  BY <2>3, <2>4, <2>5
<1>10. \A x \in Ids : Stays(x)' => (lib'[x].dl = lib[x].dl /\ lib'[x].ul = lib[x].ul) \/ (x = i /\ Born(i))
  BY <1>3, <1>6, <1>7
<1>. QED  BY <1>4, <1>8, <1>9, <1>10, NameStep

\* What attach makes of the gates suits the entry it publishes.
LEMMA SettledGates ==
    ASSUME NEW o \in LibTorrent, NEW held \in BOOLEAN, NEW r \in Tracked, o.live,
           o.dl <=> ~held, o.ul <=> ~held
    PROVE  Gated(r, Settled(o, held, r))
<1>1. /\ ~Hold(o).dl /\ ~Hold(o).ul /\ Allow(o).dl /\ Allow(o).ul
  BY LibMoves
<1>2. r.paused \in BOOLEAN
  BY DEF Tracked
<1>3. CASE ~held /\ r.paused
  <2>1. Settled(o, held, r) = Hold(o)
    BY <1>3 DEF Settled
  <2>. QED  BY <1>1, <1>3, <2>1 DEF Gated
<1>4. CASE held /\ ~r.paused /\ r.state # "queued"
  <2>1. Settled(o, held, r) = Allow(o)
    BY <1>4 DEF Settled
  <2>. QED  BY <1>1, <1>4, <2>1 DEF Gated
<1>5. CASE ~(~held /\ r.paused) /\ ~(held /\ ~r.paused /\ r.state # "queued")
  <2>1. Settled(o, held, r) = o
    BY <1>5 DEF Settled
  <2>. QED  BY <1>5, <2>1 DEF Gated
<1>. QED  BY <1>3, <1>4, <1>5

LEMMA NameStart ==
    ASSUME EngineInv, NameInv, NEW i \in Ids, Start(i) \/ Await(i)
    PROVE  NameInv'
<1>0. /\ tr \in [Ids -> Tracked] /\ tr[i] \in Tracked /\ job \in [Ids -> Job] /\ job[i] \in Job
      /\ lib \in [Ids -> LibTorrent] /\ TypeInv
      /\ Shape(i) /\ Gone(i) /\ Named(i) /\ Alone(i) /\ JobGates(i) /\ EntryGates(i)
      /\ tr[i].t \in Ids \cup {None} /\ (job[i].pc \in {"publish"} \cup AwaitPcs => job[i].t \in Ids)
  BY Parts DEF EngineInv, TypeInv, TypeOK, ClientInv, NameInv, JobTorrent
<1>1. CASE FetchFails(i) \/ FetchClaims(i)
  BY <1>0, <1>1 DEF FetchFails, FetchClaims, Named
<1>2. CASE AttachFails(i) \/ PublishClosed(i)
  BY <1>2, NameGivesUp DEF AttachFails, PublishClosed
<1>3. CASE Join(i)
  BY <1>3, NameJoin
<1>4. CASE Retrack(i)
  <2>1. job[i].hash \in Hashes /\ tr[i].userPaused \in BOOLEAN /\ tr[i].seedDone \in BOOLEAN
    BY <1>0, <1>4, Parts DEF Retrack, Named, TypeInv
  <2>. QED  BY <1>4, <2>1, NameMint DEF Retrack
\* A step that leaves the names and the gates of entry i alone.
<1>5. ASSUME LibNames(i), tracked' = tracked, \A j \in Ids : j # i => tr'[j] = tr[j] /\ job'[j] = job[j],
             tr'[i].hold = tr[i].hold, tr'[i].infoHash = tr[i].infoHash, tr'[i].t = tr[i].t,
             tr[i].refused => tr'[i].refused, job'[i].hash = job[i].hash \/ job'[i].pc \in {"idle"} \cup AwaitPcs,
             tr[i].hold = "none" \/ job' = job,
             job'[i].pc # "publish", Fresh(i)' => Fresh(i), job'[i].pc # "fetch", job'[i].pc # "retrack",
             job[i].pc = "publish" /\ tr[i].removed => job[i].t \in drops',
             job'[i].pc \in AttachPcs => job[i].pc \in AttachPcs,
             EntryGates(i)',
             \A o \in Ids : Stays(o)' => (lib'[o].dl = lib[o].dl /\ lib'[o].ul = lib[o].ul) \/ Has(i, o)
      PROVE  NameInv'
  <2>0. ~Born(i)
    BY <1>5 DEF Born
  <2>1. tr'[i].t # None => lib'[tr'[i].t].hash = lib[tr[i].t].hash
    BY <1>0, <1>5, <2>0 DEF LibNames
  <2>2. Named(i)'
    BY <1>0, <1>5, <2>1 DEF Named, AttachPcs, AwaitPcs
  <2>3. Claims(i)' => Claims(i)
    BY <1>5 DEF Claims
  <2>4. NameOwn(i)
    BY <1>5, <2>0, <2>2, <2>3 DEF NameOwn
  <2>5. JobGates(i)'
    BY <1>5 DEF JobGates
  <2>6. \A j \in Ids : j # i => Bystander(j) /\ SameGates(j)
    BY <1>5 DEF Bystander, SameMarks, SameGates
  <2>. QED  BY <1>5, <2>4, <2>5, <2>6, NameStep
\* EntryGates, when neither the entry nor the gates change.
<1>6. ASSUME tr' = tr, tracked' = tracked, lib' = lib, drops \subseteq drops',
             \A j \in Ids : j # i => job'[j] = job[j],
             job[i].pc = "publish" /\ tr[i].removed => job[i].t \in drops'
      PROVE  EntryGates(i)'
  <2>1. ASSUME NEW o \in Ids, Stays(o)' PROVE Stays(o)
    <3>1. ASSUME NEW k \in Ids, tr[k].removed, job[k].pc = "publish", job[k].t = o PROVE FALSE
      BY <1>6, <2>1, <3>1 DEF Stays, Stolen
    <3>. QED  BY <1>6, <2>1, <3>1 DEF Stays, Stolen
  <2>. QED  BY <1>0, <1>6, <2>1 DEF EntryGates, Gated
<1>7. CASE ReadHeld(i)
  <2>2. job'[i] = [job[i] EXCEPT !.pc = "join", !.held = tr[i].paused]
    BY <1>0, <1>7 DEF ReadHeld
  <2>3. /\ UNCHANGED <<tracked, tr, lib, drops>> /\ job[i].pc = "attach"
        /\ job'[i].pc = "join" /\ job'[i].hash = job[i].hash
        /\ \A j \in Ids : j # i => job'[j] = job[j]
    BY <1>0, <1>7, <2>2 DEF ReadHeld, Job
  <2>4. EntryGates(i)'
    BY <1>6, <2>3
  <2>5. tr[i].hold = "none" /\ Fresh(i)
    BY <1>0, <2>3 DEF Shape, Fresh
  <2>. QED  BY <1>5, <2>3, <2>4, <2>5, NamesSame DEF AttachPcs
<1>8. CASE PublishRemoved(i)
  <2>3. /\ UNCHANGED <<tracked, tr, lib>> /\ job[i].pc = "publish" /\ drops' = drops \cup {job[i].t}
        /\ job'[i].pc = "idle" /\ \A j \in Ids : j # i => job'[j] = job[j]
    BY <1>0, <1>8, DoneMoves DEF PublishRemoved
  <2>4. EntryGates(i)'
    BY <1>6, <2>3
  <2>5. tr[i].hold = "none"
    BY <1>0, <2>3 DEF Shape
  <2>6. ~Fresh(i)' /\ LibNames(i)
    BY <2>3, <2>5 DEF Fresh, LibNames
  <2>. QED  BY <1>5, <2>3, <2>4, <2>5, <2>6 DEF AttachPcs
<1>9. CASE AwaitEnds(i) \/ DownloadAll(i)
  <2>3. /\ UNCHANGED <<tracked, tr, lib, drops>> /\ job[i].pc \in {"await", "deletes"}
        /\ job'[i].pc = "idle" /\ \A j \in Ids : j # i => job'[j] = job[j]
    BY <1>0, <1>9, DoneMoves DEF AwaitEnds, DownloadAll
  <2>4. EntryGates(i)'
    BY <1>6, <2>3
  <2>5. tr[i].hold = "none"
    BY <1>0, <2>3 DEF Shape
  <2>6. ~Fresh(i)'
    BY <2>3, <2>5 DEF Fresh
  <2>. QED  BY <1>5, <2>3, <2>4, <2>5, <2>6, NamesSame DEF AttachPcs
<1>10. CASE AwaitRefuses(i)
  <2>1. PICK o \in Ids : o = job[i].t /\ job[i].pc = "await"
    BY <1>0, <1>10 DEF AwaitRefuses, AwaitPcs
  <2>2. PICK l : l = Dropped(lib[o])
    OBVIOUS
  <2>3. ~l.live /\ l.hash = lib[o].hash /\ lib' = [lib EXCEPT ![o] = l]
    BY <1>0, <1>10, <2>1, <2>2, LibMoves DEF AwaitRefuses
  <2>4. /\ UNCHANGED <<tracked, tr, drops>>
        /\ job'[i].pc = "refuse" /\ job'[i].hash = job[i].hash
        /\ \A j \in Ids : j # i => job'[j] = job[j]
    BY <1>0, <1>10, SetPcMoves DEF AwaitRefuses
  <2>5. LibNames(i) /\ \A x \in Ids : x # o => lib'[x] = lib[x]
    BY <2>3, <2>4, NamesOne
  <2>6. ~lib'[o].live /\ ~Stays(o)'
    BY <1>0, <2>3 DEF Stays
  <2>7. tr[i].hold = "none" /\ tr[i].t = o
    BY <1>0, <2>1 DEF Shape, AwaitPcs
  <2>8. ~Fresh(i)'
    BY <2>4, <2>7 DEF Fresh
  <2>9. EntryGates(i)'
    BY <2>4, <2>6, <2>7 DEF EntryGates, Gated
  <2>10. \A x \in Ids : Stays(x)' => lib'[x].dl = lib[x].dl /\ lib'[x].ul = lib[x].ul
    BY <2>5, <2>6
  <2>. QED  BY <1>5, <2>1, <2>4, <2>5, <2>7, <2>8, <2>9, <2>10 DEF AttachPcs
<1>11. CASE Refuse(i)
  <2>1. PICK f : f = [Fail(tr[i]) EXCEPT !.refused = TRUE]
    OBVIOUS
  <2>2. f.t = tr[i].t /\ f.hold = tr[i].hold /\ f.infoHash = tr[i].infoHash /\ f.refused
    BY <1>0, <2>1, EntryTypes, MarksKept DEF Tracked
  <2>3. /\ UNCHANGED <<tracked, lib, drops>> /\ job[i].pc = "refuse"
        /\ tr'[i] = f /\ \A j \in Ids : j # i => tr'[j] = tr[j]
        /\ job'[i].pc = "idle" /\ \A j \in Ids : j # i => job'[j] = job[j]
    BY <1>0, <1>11, <2>1, DoneMoves DEF Refuse
  <2>4. tr[i].t = job[i].t /\ ~lib[tr[i].t].live /\ tr[i].hold = "none"
    BY <1>0, <2>3 DEF Shape, Gone, AwaitPcs
  <2>5. EntryGates(i)'
    BY <2>2, <2>3, <2>4 DEF EntryGates, Stays, Gated
  <2>6. ~Fresh(i)'
    BY <2>2, <2>3, <2>4 DEF Fresh
  <2>. QED  BY <1>5, <2>2, <2>3, <2>4, <2>5, <2>6, NamesSame DEF AttachPcs
<1>12. CASE Publish(i)
  <2>1. PICK o \in Ids : o = job[i].t /\ job[i].pc = "publish"
    BY <1>0, <1>12 DEF Publish
  <2>2. tr'[i] = [tr[i] EXCEPT !.t = o, !.infoHash = lib[o].hash] /\ lib[o].hash = tr[i].infoHash
    BY <1>0, <1>12, <2>1 DEF Publish, PublishTorrent, Named
  <2>3. /\ UNCHANGED <<tracked, drops>> /\ ~tr[i].removed
        /\ tr'[i].t = o /\ tr'[i].refused = tr[i].refused /\ tr'[i].removed = tr[i].removed
        /\ tr'[i].hold = tr[i].hold /\ tr'[i].infoHash = tr[i].infoHash /\ SameGates(i)
        /\ job'[i].pc = "await" /\ job'[i].t = o /\ job'[i].hash = job[i].hash
        /\ \A j \in Ids : j # i => tr'[j] = tr[j] /\ job'[j] = job[j]
    BY <1>0, <1>12, <2>1, <2>2, SetPcMoves DEF Publish, PublishTorrent, Tracked, SameGates
  <2>4. i \in tracked /\ ~tr[i].refused /\ tr[i].hold = "none" /\ tr[i].t = None
    BY <1>0, <2>1, <2>3 DEF Shape, AttachPcs, AwaitPcs
  <2>5. PICK l : l = Settled(lib[o], job[i].held, tr[i])
    OBVIOUS
  <2>6. l.live = lib[o].live /\ l.hash = lib[o].hash /\ lib' = [lib EXCEPT ![o] = l]
    <3>1. lib[o] \in LibTorrent
      BY <1>0
    <3>2. l \in {Hold(lib[o]), Allow(lib[o]), lib[o]}
      BY <2>5 DEF Settled
    <3>. QED  BY <1>0, <1>12, <2>1, <2>5, <3>1, <3>2, LibMoves DEF Publish, PublishTorrent
  <2>7. LibNames(i) /\ (\A x \in Ids : x # o => lib'[x] = lib[x]) /\ lib'[o] = l
    BY <1>0, <2>3, <2>6, NamesOne
  <2>8. Stays(o)' => Stays(o)
    BY <2>3, <2>6, <2>7 DEF Stays, Stolen
  <2>9. EntryGates(i)'
    <3>1. Stays(o)' => lib[o].live /\ (lib[o].dl <=> ~job[i].held) /\ (lib[o].ul <=> ~job[i].held)
      BY <1>0, <2>1, <2>8 DEF JobGates, Stays
    <3>2. Stays(o)' => Gated(tr[i], l)
      BY <1>0, <2>5, <3>1, SettledGates DEF Job
    <3>3. Gated(tr[i], l) => Gated(tr'[i], l)
      BY <2>3 DEF Gated, SameGates
    <3>. QED  BY <2>3, <2>7, <3>2, <3>3 DEF EntryGates
  <2>10. NameOwn(i)
    <3>1. Named(i)'
      BY <1>0, <2>1, <2>2, <2>3, <2>4, <2>6, <2>7 DEF Named, AttachPcs
    <3>2. ~Fresh(i)' /\ ~Born(i)
      BY <2>3, <2>4 DEF Fresh, Born
    <3>. QED  BY <2>3, <2>4, <3>1, <3>2 DEF NameOwn, Claims
  <2>11. JobGates(i)' /\ Has(i, o)
    BY <2>1, <2>3 DEF JobGates, Has
  <2>12. \A j \in Ids : j # i => Bystander(j) /\ SameGates(j)
    BY <2>3 DEF Bystander, SameMarks, SameGates
  <2>. QED  BY <2>7, <2>9, <2>10, <2>11, <2>12, NameStep
<1>13. CASE GotInfo(i)
  <2>1. PICK o \in Ids : o = job[i].t /\ job[i].pc = "await"
    BY <1>0, <1>13 DEF GotInfo, AwaitPcs
  <2>2. tr[i].t = o /\ tr[i].hold = "none" /\ (i \in tracked \/ tr[i].removed) /\ lib[o] \in LibTorrent
    BY <1>0, <2>1 DEF Shape, AwaitPcs
  <2>3. PICK r \in {tr[i], [tr[i] EXCEPT !.pre = "downloading"], [tr[i] EXCEPT !.state = "downloading"]} :
          /\ tr' = [tr EXCEPT ![i] = r]
          /\ r = IF tr[i].state = "queued" THEN tr[i]
                 ELSE IF tr[i].paused THEN [tr[i] EXCEPT !.pre = "downloading"]
                 ELSE IF tr[i].state = "checking" THEN [tr[i] EXCEPT !.state = "downloading"]
                 ELSE tr[i]
    BY <1>13 DEF GotInfo
  <2>4. /\ r.t = tr[i].t /\ r.refused = tr[i].refused /\ r.removed = tr[i].removed /\ r.hold = tr[i].hold
        /\ r.infoHash = tr[i].infoHash /\ r.paused = tr[i].paused /\ r.seedDone = tr[i].seedDone
        /\ r.spacePaused = tr[i].spacePaused
        /\ r.state = tr[i].state
           \/ (r.state = "downloading" /\ tr[i].state = "checking" /\ ~tr[i].paused)
    BY <1>0, <2>3 DEF Tracked
  <2>5. /\ UNCHANGED <<tracked, drops>>
        /\ tr'[i] = r /\ \A j \in Ids : j # i => tr'[j] = tr[j]
        /\ job'[i].pc = "deletes" /\ job'[i].hash = job[i].hash /\ \A j \in Ids : j # i => job'[j] = job[j]
    BY <1>0, <1>13, <2>3, SetPcMoves DEF GotInfo
  <2>6. PICK l : l = Hold(lib[o])
    OBVIOUS
  <2>7. l.live = lib[o].live /\ l.hash = lib[o].hash /\ ~l.dl /\ ~l.ul
    BY <2>2, <2>6, LibMoves
  <2>8. \/ lib' = lib /\ ~HoldsAtInfo(i)
        \/ lib' = [lib EXCEPT ![o] = l] /\ HoldsAtInfo(i)
    BY <1>13, <2>1, <2>6 DEF GotInfo
  <2>9. LibNames(i) /\ \A x \in Ids : x # o => lib'[x] = lib[x]
    BY <2>5, <2>7, <2>8, NamesOne, NamesSame
  <2>10. lib'[o] = IF HoldsAtInfo(i) THEN l ELSE lib[o]
    BY <1>0, <2>8
  <2>11. EntryGates(i)'
    <3>1. Stays(o)' => Stays(o)
      BY <2>1, <2>4, <2>5, <2>7, <2>10 DEF Stays, Stolen
    <3>2. ASSUME i \in tracked, Stays(o) PROVE Gated(r, lib'[o])
      <4>1. Gated(tr[i], lib[o])
        BY <1>0, <2>2, <3>2 DEF EntryGates
      <4>2. CASE HoldsAtInfo(i)
        BY <2>4, <2>7, <2>10, <4>2 DEF Gated, HoldsAtInfo
      <4>3. CASE ~HoldsAtInfo(i)
        BY <2>4, <2>10, <4>1, <4>3 DEF Gated, HoldsAtInfo
      <4>. QED  BY <4>2, <4>3
    <3>. QED  BY <2>2, <2>4, <2>5, <3>1, <3>2 DEF EntryGates
  <2>12. ~Fresh(i)'
    BY <2>2, <2>4, <2>5 DEF Fresh
  <2>13. Has(i, o)
    BY <2>1 DEF Has, AwaitPcs
  <2>14. job'[i].pc \in {"idle"} \cup AwaitPcs
    BY <2>5 DEF AwaitPcs
  <2>15. \A x \in Ids : Stays(x)' => (lib'[x].dl = lib[x].dl /\ lib'[x].ul = lib[x].ul) \/ Has(i, x)
    BY <2>9, <2>13
  <2>. QED  BY <1>5, <2>1, <2>2, <2>4, <2>5, <2>9, <2>11, <2>12, <2>14, <2>15 DEF AttachPcs
<1>. QED
  BY <1>1, <1>2, <1>3, <1>4, <1>7, <1>8, <1>9, <1>10, <1>11, <1>12, <1>13 DEF Start, Await

\* A call that changes an entry's standing and its torrent's gates together.
LEMMA NameSettle ==
    ASSUME EngineInv, NameInv, NEW i \in tracked, UNCHANGED <<tracked, job, drops>>,
           \A j \in Ids : j # i => tr'[j] = tr[j],
           tr'[i].t = tr[i].t, tr'[i].hold = tr[i].hold, tr'[i].infoHash = tr[i].infoHash,
           tr'[i].refused = tr[i].refused, tr'[i].removed = tr[i].removed,
           \/ lib' = lib
           \/ \E l : /\ tr[i].t \in Ids /\ lib' = [lib EXCEPT ![tr[i].t] = l]
                     /\ l.live = lib[tr[i].t].live /\ l.hash = lib[tr[i].t].hash,
           \A o \in Ids : tr[i].t = o /\ lib[o].live /\ Gated(tr[i], lib[o]) => Gated(tr'[i], lib'[o])
    PROVE  NameInv'
<1>0. /\ i \in Ids /\ lib \in [Ids -> LibTorrent] /\ tr[i].t \in Ids \cup {None}
      /\ Shape(i) /\ Named(i) /\ JobGates(i) /\ EntryGates(i)
      /\ job[i].pc = "publish" => job[i].t \in Ids
  BY Parts DEF EngineInv, TypeInv, TypeOK, ClientInv, NameInv, JobTorrent
<1>1. LibNames(i) /\ \A x \in Ids : x # tr[i].t => lib'[x] = lib[x]
  BY <1>0, NamesOne, NamesSame
<1>2. \A x \in Ids : lib'[x].live = lib[x].live /\ lib'[x].hash = lib[x].hash
  BY <1>0
<1>3. \A x \in Ids : Stays(x)' => Stays(x)
  <2>1. \A k \in Ids : tr[k].removed => tr'[k].removed
    OBVIOUS
  <2>. QED  BY <1>2, <2>1 DEF Stays, Stolen
<1>4. Named(i)' /\ (Claims(i)' => Claims(i)) /\ (Fresh(i)' => Fresh(i)) /\ ~Born(i)
  BY <1>0, <1>2 DEF Named, Claims, Fresh, Born
<1>5. NameOwn(i)
  BY <1>4 DEF NameOwn
<1>6. JobGates(i)'
  <2>1. job[i].pc = "publish" => tr[i].t = None
    BY <1>0 DEF Shape, AwaitPcs
  <2>. QED  BY <1>0, <1>1, <1>3, <2>1, NoneAssumption DEF JobGates
<1>7. EntryGates(i)'
  BY <1>0, <1>3 DEF EntryGates, Stays
<1>8. \A o \in Ids : Stays(o)' => (lib'[o].dl = lib[o].dl /\ lib'[o].ul = lib[o].ul) \/ Has(i, o)
  BY <1>1 DEF Has
<1>9. \A j \in Ids : j # i => Bystander(j) /\ SameGates(j)
  BY DEF Bystander, SameMarks, SameGates
<1>. QED  BY <1>0, <1>1, <1>5, <1>6, <1>7, <1>8, <1>9, NameStep

\* A step that changes no entry and opens or shuts no torrent that stays.
LEMMA NameQuiet ==
    ASSUME EngineInv, NameInv, UNCHANGED <<tracked, job, tr>>, LibNames(None),
           \A o \in Ids : Stays(o)' => lib'[o].dl = lib[o].dl /\ lib'[o].ul = lib[o].ul
    PROVE  NameInv'
  BY NameStep, NoneAssumption DEF Bystander, SameMarks, SameGates

\* What a pause and an unpause say of the gates.
LEMMA PauseGates ==
    ASSUME NEW r \in Tracked
    PROVE  /\ PauseEntry(r).paused /\ [PauseEntry(r) EXCEPT !.userPaused = TRUE].paused
           /\ ~Unpause(r).paused /\ ~Enqueue(Unpause(r)).paused /\ Enqueue(Unpause(r)).state = "queued"
<1>1. PauseEntry(r).paused /\ [PauseEntry(r) EXCEPT !.userPaused = TRUE].paused
  BY DEF PauseEntry, Tracked
<1>. DEFINE v == [r EXCEPT !.paused = FALSE, !.userPaused = FALSE]
<1>2. v \in Tracked /\ ~v.paused
  BY DEF Tracked
<1>3. PICK w \in {[v EXCEPT !.spacePaused = FALSE, !.state = v.pre],
                  [v EXCEPT !.seedDone = FALSE, !.seedOverride = TRUE, !.state = "seeding"],
                  [v EXCEPT !.state = v.pre], v} : Unpause(r) = w
  BY DEF Unpause
<1>. HIDE DEF v
<1>4. ~w.paused /\ w \in Tracked
  BY <1>2, <1>3 DEF Tracked, State
<1>5. ~Enqueue(w).paused /\ Enqueue(w).state = "queued"
  BY <1>4 DEF Enqueue, Tracked
<1>. QED  BY <1>1, <1>3, <1>4, <1>5

LEMMA NameUser ==
    ASSUME EngineInv, NameInv, "url" \notin Kinds, NEW i \in Ids, User(i)
    PROVE  NameInv'
<1>0. /\ tr \in [Ids -> Tracked] /\ tr[i] \in Tracked /\ job \in [Ids -> Job]
      /\ lib \in [Ids -> LibTorrent] /\ TypeInv
      /\ Shape(i) /\ Named(i) /\ tr[i].t \in Ids \cup {None}
  BY Parts DEF EngineInv, TypeInv, TypeOK, ClientInv, NameInv
<1>1. CASE Add(i) \/ Restore(i)
  <2>1. PICK h \in Hashes, dict \in BOOLEAN, via \in {"add", "restore"}, p \in BOOLEAN, s \in BOOLEAN :
          \/ FindOrTrack(i, h, dict, via, p, s)
          \/ i \in Unminted /\ TrackErrored(i, h, p, s)
    <3>1. CASE Add(i)
      <4>1. PICK h \in Hashes, dict \in BOOLEAN : FindOrTrack(i, h, dict, "add", FALSE, FALSE)
        BY <3>1 DEF Add
      <4>. QED  BY <4>1
    <3>2. CASE Restore(i)
      <4>1. PICK p \in BOOLEAN, s \in BOOLEAN, h \in Hashes, dict \in BOOLEAN :
              \/ FindOrTrack(i, h, dict, "restore", p, s)
              \/ i \in Unminted /\ TrackErrored(i, h, p, s)
        BY <3>2 DEF Restore
      <4>. QED  BY <4>1
    <3>. QED  BY <1>1, <3>1, <3>2
  <2>. QED  BY <2>1, NameMint DEF Unminted
<1>2. CASE Pause(i)
  <2>1. CASE tr[i].paused
    BY <1>2, <2>1, NamesSame, NameQuiet DEF Pause
  <2>2. CASE ~tr[i].paused
    <3>1. PICK r : r = [PauseEntry(tr[i]) EXCEPT !.userPaused = TRUE]
      OBVIOUS
    <3>2. /\ r.refused = tr[i].refused /\ r.removed = tr[i].removed /\ r.hold = tr[i].hold
          /\ r.t = tr[i].t /\ r.infoHash = tr[i].infoHash /\ r.paused
      BY <1>0, <3>1, MarksKept, PauseGates
    <3>3. /\ tr'[i] = r /\ \A j \in Ids : j # i => tr'[j] = tr[j]
          /\ UNCHANGED <<tracked, job, drops>> /\ i \in tracked
      BY <1>0, <1>2, <2>2, <3>1 DEF Pause
    <3>5. PICK l : l = Hold(lib[tr[i].t])
      OBVIOUS
    <3>6. tr[i].t \in Ids => l.live = lib[tr[i].t].live /\ l.hash = lib[tr[i].t].hash /\ ~l.dl /\ ~l.ul
      BY <1>0, <3>5, LibMoves
    <3>7. IF tr[i].t = None THEN lib' = lib ELSE lib' = [lib EXCEPT ![tr[i].t] = l]
      BY <1>2, <2>2, <3>5 DEF Pause
    <3>8. \A o \in Ids : tr[i].t = o => Gated(tr'[i], lib'[o])
      BY <1>0, <3>2, <3>3, <3>6, <3>7, NoneAssumption DEF Gated
    <3>. QED  BY <1>0, <3>2, <3>3, <3>6, <3>7, <3>8, NameSettle
  <2>. QED  BY <2>1, <2>2
<1>3. CASE Resume(i)
  <2>0. PICK w \in BOOLEAN :
          /\ tr' = [tr EXCEPT ![i] = IF w THEN Enqueue(Unpause(tr[i])) ELSE Unpause(tr[i])]
          /\ lib' = IF w \/ Unpause(tr[i]).t = None \/ ~lib[Unpause(tr[i]).t].live
                    THEN lib ELSE [lib EXCEPT ![Unpause(tr[i]).t] = Allow(lib[Unpause(tr[i]).t])]
    <3>. DEFINE u == Unpause(tr[i])
                full == ActiveCount([tr EXCEPT ![i] = u], tracked) > MaxActive
                wait == (u.t # None \/ u.hold # "none")
                        /\ (u.state = "queued" \/ (u.state \in {"checking", "downloading"} /\ full))
    <3>1. /\ tr' = [tr EXCEPT ![i] = IF wait THEN Enqueue(u) ELSE u]
          /\ lib' = IF wait \/ u.t = None \/ ~lib[u.t].live THEN lib ELSE [lib EXCEPT ![u.t] = Allow(lib[u.t])]
      BY <1>3 DEF Resume
    <3>2. wait \in BOOLEAN
      OBVIOUS
    <3>. HIDE DEF wait, full
    <3>. QED  BY <3>1, <3>2
  <2>1. PICK r : /\ r = IF w THEN Enqueue(Unpause(tr[i])) ELSE Unpause(tr[i])
                 /\ tr' = [tr EXCEPT ![i] = r]
    BY <2>0
  <2>2. /\ r.refused = tr[i].refused /\ r.removed = tr[i].removed /\ r.hold = tr[i].hold
        /\ r.t = tr[i].t /\ r.infoHash = tr[i].infoHash /\ ~r.paused /\ (w => r.state = "queued")
    BY <1>0, <2>1, MarksKept, PauseGates
  <2>3. /\ tr'[i] = r /\ \A j \in Ids : j # i => tr'[j] = tr[j]
        /\ UNCHANGED <<tracked, job, drops>> /\ i \in tracked
    BY <1>0, <1>3, <2>1 DEF Resume
  <2>4. Unpause(tr[i]).t = tr[i].t
    BY <1>0, MarksKept
  <2>5. PICK l : l = Allow(lib[tr[i].t])
    OBVIOUS
  <2>6. tr[i].t \in Ids => l.live = lib[tr[i].t].live /\ l.hash = lib[tr[i].t].hash /\ l.dl /\ l.ul
    BY <1>0, <2>5, LibMoves
  <2>7. lib' = IF w \/ tr[i].t = None \/ ~lib[tr[i].t].live THEN lib ELSE [lib EXCEPT ![tr[i].t] = l]
    BY <2>0, <2>4, <2>5
  <2>8. \A o \in Ids : tr[i].t = o /\ lib[o].live => Gated(tr'[i], lib'[o])
    BY <1>0, <2>2, <2>3, <2>6, <2>7, NoneAssumption DEF Gated
  <2>. QED  BY <1>0, <2>2, <2>3, <2>6, <2>7, <2>8, NameSettle
<1>4. CASE Remove(i)
  <2>1. tr'[i] = [tr[i] EXCEPT !.removed = TRUE] /\ i \in tracked
    BY <1>0, <1>4 DEF Remove
  <2>2. /\ tr'[i].removed /\ tr'[i].hold = tr[i].hold /\ tr'[i].infoHash = tr[i].infoHash
        /\ tr'[i].t = tr[i].t /\ ~tr[i].removed
        /\ \A j \in Ids : j # i => tr'[j] = tr[j]
        /\ UNCHANGED <<job, lib>> /\ tracked' = tracked \ {i} /\ drops \subseteq drops'
    BY <1>0, <1>4, <2>1 DEF Remove, Tracked, Shape
  <2>3. LibNames(i) /\ ~Born(i)
    BY <2>2 DEF LibNames, Born, Fresh
  <2>4. NameOwn(i)
    BY <1>0, <2>2, <2>3 DEF NameOwn, Named, Claims
  <2>5. JobGates(i)' /\ EntryGates(i)'
    BY <2>2 DEF JobGates, EntryGates, Stays, Stolen
  <2>6. \A j \in Ids : j # i => Bystander(j) /\ SameGates(j)
    BY <2>2 DEF Bystander, SameMarks, SameGates
  <2>. QED  BY <2>2, <2>3, <2>4, <2>5, <2>6, NameStep
<1>5. CASE \E pos \in 0..Cardinality(Ids) : MoveInQueue(i, pos)
  BY <1>5, NamesSame, NameQuiet DEF MoveInQueue
<1>. QED  BY <1>1, <1>2, <1>3, <1>4, <1>5 DEF User

LEMMA NameRest ==
    ASSUME EngineInv, NameInv,
           \/ \E i \in Ids : Sampler(i) \/ Swarm(i)
           \/ FinishResume \/ Promote \/ PauseForShutdown \/ CloseBegin \/ CloseEnd
    PROVE  NameInv'
<1>0. /\ tr \in [Ids -> Tracked] /\ job \in [Ids -> Job] /\ lib \in [Ids -> LibTorrent] /\ TypeInv
      /\ tracked \subseteq Ids
      /\ \A i \in Ids : /\ Shape(i) /\ Named(i) /\ JobGates(i) /\ EntryGates(i)
                        /\ tr[i].t \in Ids \cup {None} /\ (job[i].pc = "publish" => job[i].t \in Ids)
  BY Parts DEF EngineInv, TypeInv, TypeOK, ClientInv, NameInv, JobTorrent
<1>1. ASSUME NEW i \in Ids, SpacePause(i) PROVE NameInv'
  <2>1. /\ i \in tracked /\ UNCHANGED <<tracked, job, drops>>
        /\ tr'[i] = [tr[i] EXCEPT !.paused = TRUE, !.spacePaused = TRUE,
                                  !.pre = "downloading", !.state = "errored"]
        /\ \A j \in Ids : j # i => tr'[j] = tr[j]
        /\ tr[i].t \in Ids
    BY <1>0, <1>1 DEF SpacePause
  <2>2. PICK l : l = [lib[tr[i].t] EXCEPT !.dl = FALSE]
    OBVIOUS
  <2>3. lib' = [lib EXCEPT ![tr[i].t] = l]
    BY <1>1, <2>2 DEF SpacePause
  <2>4. l.live = lib[tr[i].t].live /\ l.hash = lib[tr[i].t].hash /\ ~l.dl /\ lib'[tr[i].t] = l
    <3>1. lib[tr[i].t] \in LibTorrent /\ lib'[tr[i].t] = l
      BY <1>0, <2>1, <2>3
    <3>. QED  BY <2>2, <3>1 DEF LibTorrent
  <2>5. /\ tr'[i].t = tr[i].t /\ tr'[i].hold = tr[i].hold /\ tr'[i].infoHash = tr[i].infoHash
        /\ tr'[i].refused = tr[i].refused /\ tr'[i].removed = tr[i].removed
        /\ tr'[i].paused /\ tr'[i].spacePaused
    BY <1>0, <2>1 DEF Tracked
  <2>6. Gated(tr'[i], lib'[tr[i].t])
    BY <2>4, <2>5 DEF Gated
  <2>. QED  BY <2>1, <2>3, <2>4, <2>5, <2>6, NameSettle
<1>2. ASSUME NEW i \in Ids, ApplyPolicy(i) PROVE NameInv'
  <2>1. /\ i \in tracked /\ UNCHANGED <<tracked, job, drops>> /\ ~tr[i].paused
        /\ tr[i].t \in Ids
    BY <1>0, <1>2 DEF ApplyPolicy
  <2>. DEFINE done == tr[i].state = "downloading" /\ lib[tr[i].t].complete
  <2>2. PICK r \in {tr[i], [tr[i] EXCEPT !.state = "seeding"]} :
          \/ done /\ r = [tr[i] EXCEPT !.state = "seeding"] /\ tr' = [tr EXCEPT ![i] = r] /\ lib' = lib
          \/ /\ tr' = [tr EXCEPT ![i] = [r EXCEPT !.paused = TRUE, !.seedDone = TRUE,
                                                  !.pre = "seeding", !.state = "paused"]]
             /\ lib' = [lib EXCEPT ![tr[i].t].ul = FALSE]
    BY <1>2 DEF ApplyPolicy
  <2>3. /\ r.t = tr[i].t /\ r.hold = tr[i].hold /\ r.infoHash = tr[i].infoHash
        /\ r.refused = tr[i].refused /\ r.removed = tr[i].removed /\ r.paused = tr[i].paused
        /\ r.seedDone = tr[i].seedDone /\ r.spacePaused = tr[i].spacePaused
        /\ r \in Tracked
    BY <1>0, <2>2 DEF Tracked, State
  <2>4. CASE done /\ r = [tr[i] EXCEPT !.state = "seeding"] /\ tr' = [tr EXCEPT ![i] = r] /\ lib' = lib
    <3>1. tr'[i] = r /\ \A j \in Ids : j # i => tr'[j] = tr[j]
      BY <1>0, <2>4
    <3>2. \A o \in Ids : Gated(tr[i], lib[o]) => Gated(r, lib'[o])
      BY <2>1, <2>3, <2>4 DEF Gated
    <3>. QED  BY <2>1, <2>3, <2>4, <3>1, <3>2, NameSettle
  <2>5. CASE /\ tr' = [tr EXCEPT ![i] = [r EXCEPT !.paused = TRUE, !.seedDone = TRUE,
                                                  !.pre = "seeding", !.state = "paused"]]
             /\ lib' = [lib EXCEPT ![tr[i].t].ul = FALSE]
    <3>1. /\ tr'[i] = [r EXCEPT !.paused = TRUE, !.seedDone = TRUE, !.pre = "seeding", !.state = "paused"]
          /\ \A j \in Ids : j # i => tr'[j] = tr[j]
      BY <1>0, <2>5
    <3>2. PICK l : l = [lib[tr[i].t] EXCEPT !.ul = FALSE]
      OBVIOUS
    <3>3. lib' = [lib EXCEPT ![tr[i].t] = l]
      BY <2>5, <3>2
    <3>4. l.live = lib[tr[i].t].live /\ l.hash = lib[tr[i].t].hash /\ ~l.ul /\ lib'[tr[i].t] = l
      <4>1. lib[tr[i].t] \in LibTorrent /\ lib'[tr[i].t] = l
        BY <1>0, <2>1, <3>3
      <4>. QED  BY <3>2, <4>1 DEF LibTorrent
    <3>5. /\ tr'[i].t = tr[i].t /\ tr'[i].hold = tr[i].hold /\ tr'[i].infoHash = tr[i].infoHash
          /\ tr'[i].refused = tr[i].refused /\ tr'[i].removed = tr[i].removed
          /\ tr'[i].paused /\ tr'[i].seedDone
      BY <2>3, <3>1 DEF Tracked
    <3>6. Gated(tr'[i], lib'[tr[i].t])
      BY <3>4, <3>5 DEF Gated
    <3>7. \E m : /\ tr[i].t \in Ids /\ lib' = [lib EXCEPT ![tr[i].t] = m]
                 /\ m.live = lib[tr[i].t].live /\ m.hash = lib[tr[i].t].hash
      BY <2>1, <3>3, <3>4
    <3>8. \A j \in Ids : j # i => tr'[j] = tr[j]
      BY <3>1
    <3>. HIDE DEF done
    <3>. QED  BY <2>1, <3>5, <3>6, <3>7, <3>8, NameSettle
  <2>. QED  BY <2>2, <2>4, <2>5
<1>3. ASSUME NEW o \in Ids, InfoArrives(o) \/ Completes(o) PROVE NameInv'
  <2>1. PICK l \in {[lib[o] EXCEPT !.info = TRUE], [lib[o] EXCEPT !.complete = TRUE]} :
          lib' = [lib EXCEPT ![o] = l]
    BY <1>0, <1>3 DEF InfoArrives, Completes
  <2>2. l.live = lib[o].live /\ l.hash = lib[o].hash /\ l.dl = lib[o].dl /\ l.ul = lib[o].ul
    BY <1>0, <2>1 DEF LibTorrent
  <2>3. UNCHANGED <<tracked, tr, job, drops>>
    BY <1>3 DEF InfoArrives, Completes
  <2>4. LibNames(None) /\ (\A x \in Ids : x # o => lib'[x] = lib[x]) /\ lib'[o] = l
    BY <1>0, <2>1, <2>2, <2>3, NamesOne
  <2>5. \A x \in Ids : lib'[x].dl = lib[x].dl /\ lib'[x].ul = lib[x].ul
    BY <2>2, <2>4
  <2>. QED  BY <2>3, <2>4, <2>5, NameQuiet
<1>4. ASSUME NEW o \in Ids, Drop(o) PROVE NameInv'
  <2>1. /\ UNCHANGED <<tracked, tr, job>> /\ drops' = drops \ {o}
        /\ lib' = [lib EXCEPT ![o] = Dropped(lib[o])]
        /\ ~Dropped(lib[o]).live /\ Dropped(lib[o]).hash = lib[o].hash
    BY <1>0, <1>4, LibMoves DEF Drop
  <2>2. \A x \in Ids : lib'[x] = IF x = o THEN Dropped(lib[o]) ELSE lib[x]
    BY <1>0, <2>1
  <2>3. LibNames(None)
    BY <2>1, <2>2 DEF LibNames
  <2>4. \A x \in Ids : Stays(x)' => lib'[x] = lib[x]
    BY <2>1, <2>2 DEF Stays
  <2>. QED  BY <2>1, <2>3, <2>4, NameQuiet
<1>5. CASE FinishResume \/ CloseBegin
  BY <1>5, NamesSame, NameQuiet DEF FinishResume, CloseBegin
<1>6. CASE PauseForShutdown
  <2>. DEFINE now == {i \in tracked : ~tr[i].paused}
  <2>1. /\ \A i \in Ids : tr'[i] = IF i \in now THEN PauseEntry(tr[i]) ELSE tr[i]
        /\ \A o \in Ids : lib'[o] = IF \E i \in now : tr[i].t = o THEN Hold(lib[o]) ELSE lib[o]
        /\ UNCHANGED <<tracked, job, drops>>
    BY <1>0, <1>6 DEF PauseForShutdown
  <2>2. \A o \in Ids : /\ Hold(lib[o]).live = lib[o].live /\ Hold(lib[o]).hash = lib[o].hash
                       /\ ~Hold(lib[o]).dl /\ ~Hold(lib[o]).ul
    BY <1>0, LibMoves
  <2>3. \A j \in Ids : /\ Bystander(j) /\ (j \in now => tr'[j].paused)
                       /\ tr'[j].t = tr[j].t /\ tr'[j].removed = tr[j].removed
    <3>1. \A j \in Ids : tr[j] \in Tracked
      BY <1>0
    <3>. QED  BY <2>1, <3>1, MarksKept, PauseGates DEF Bystander, SameMarks
  <2>4. LibNames(None)
    BY <2>1, <2>2 DEF LibNames
  <2>5. \A o \in Ids : Stays(o)' => Stays(o)
    BY <2>3, <2>4, NoneAssumption, StaysShrinks
  <2>6. ASSUME NEW j \in Ids PROVE JobGates(j)'
    <3>1. ASSUME NEW o \in Ids, job[j].pc = "publish", job[j].t = o, Stays(o) PROVE lib'[o] = lib[o]
      <4>1. \A k \in now : tr[k].t # o
        <5>1. ASSUME NEW k \in now, tr[k].t = o PROVE FALSE
          <6>1. Has(k, o) /\ Has(j, o) /\ k \in Ids
            BY <1>0, <3>1, <5>1 DEF Has
          <6>2. k = j
            BY <3>1, <6>1, OneHolder
          <6>. QED  BY <1>0, <3>1, <5>1, <6>2, NoneAssumption DEF Shape, AwaitPcs
        <5>. QED  BY <5>1
      <4>. QED  BY <2>1, <4>1
    <3>. QED  BY <1>0, <2>1, <2>5, <3>1 DEF JobGates
  <2>7. ASSUME NEW j \in Ids PROVE EntryGates(j)'
    <3>1. ASSUME NEW o \in Ids, j \in tracked, tr[j].t = o, Stays(o) PROVE Gated(tr'[j], lib'[o])
      <4>1. Gated(tr[j], lib[o])
        BY <1>0, <3>1 DEF EntryGates
      <4>2. CASE j \in now
        BY <2>1, <2>2, <2>3, <3>1, <4>2 DEF Gated
      <4>3. CASE j \notin now
        BY <2>1, <2>2, <3>1, <4>1, <4>3 DEF Gated
      <4>. QED  BY <4>2, <4>3
    <3>. QED  BY <2>1, <2>3, <2>5, <3>1 DEF EntryGates
  <2>. QED  BY <2>3, <2>4, <2>6, <2>7, NoneAssumption, NamesKept DEF NameInv
<1>7. CASE CloseEnd
  <2>1. /\ UNCHANGED <<tracked, tr, job, drops>>
        /\ \A o \in Ids : ~lib'[o].live /\ lib'[o].hash = lib[o].hash
    BY <1>0, <1>7, LibMoves DEF CloseEnd
  <2>2. LibNames(None) /\ \A o \in Ids : ~Stays(o)'
    BY <2>1 DEF LibNames, Stays
  <2>. QED  BY <2>1, <2>2, NameQuiet
<1>8. CASE Promote
  <2>1. PICK i \in Ids : i = NextUp /\ i \in Queued
    <3>1. queue \in Seq(Ids) /\ queue # <<>>
      BY <1>0, <1>8 DEF Promote, TypeInv, TypeOK
    <3>2. 1 \in DOMAIN queue /\ NextUp = queue[1] /\ queue[1] \in Ids
      BY <3>1 DEF NextUp
    <3>. QED  BY <3>2 DEF Queued
  <2>2. i \in tracked /\ Ready(tr[i]) /\ tr[i] \in Tracked /\ job[i] \in Job
    BY <1>0, <2>1 DEF EngineInv, QueueInv, Sound
  <2>3. UNCHANGED <<tracked, drops>>
    BY <1>8 DEF Promote
  <2>4. CASE tr[i].t # None
    <3>1. PICK st \in {"downloading", "checking"} : tr' = [tr EXCEPT ![i] = [tr[i] EXCEPT !.state = st]]
      BY <1>0, <1>8, <2>1, <2>4 DEF Promote
    <3>2. PICK l : l = Allow(lib[tr[i].t])
      OBVIOUS
    <3>3. job' = job /\ lib' = IF lib[tr[i].t].live THEN [lib EXCEPT ![tr[i].t] = l] ELSE lib
      BY <1>8, <2>1, <2>4, <3>2 DEF Promote
    <3>4. tr'[i] = [tr[i] EXCEPT !.state = st] /\ \A j \in Ids : j # i => tr'[j] = tr[j]
      BY <1>0, <3>1
    <3>5. /\ tr'[i].t = tr[i].t /\ tr'[i].hold = tr[i].hold /\ tr'[i].infoHash = tr[i].infoHash
          /\ tr'[i].refused = tr[i].refused /\ tr'[i].removed = tr[i].removed
          /\ ~tr'[i].paused
      BY <2>2, <3>4 DEF Tracked, Ready
    <3>6. tr[i].t \in Ids /\ l.live = lib[tr[i].t].live /\ l.hash = lib[tr[i].t].hash /\ l.dl /\ l.ul
      BY <1>0, <2>4, <3>2, LibMoves
    <3>7. lib[tr[i].t].live => Gated(tr'[i], lib'[tr[i].t])
      BY <1>0, <3>3, <3>5, <3>6 DEF Gated
    <3>. QED  BY <2>2, <2>3, <3>3, <3>4, <3>5, <3>6, <3>7, NameSettle
  <2>5. CASE tr[i].t = None
    <3>1. tr'[i] = [tr[i] EXCEPT !.state = "checking", !.hold = "none"] /\ \A j \in Ids : j # i => tr'[j] = tr[j]
      BY <1>0, <1>8, <2>1, <2>5 DEF Promote
    <3>2. job' = [job EXCEPT ![i] = [job[i] EXCEPT !.pc = "attach", !.via = "promote"]] /\ lib' = lib
      BY <1>0, <1>8, <2>1, <2>5 DEF Promote, Named
    <3>3. /\ job'[i].pc = "attach" /\ job'[i].hash = job[i].hash
          /\ \A j \in Ids : j # i => job'[j] = job[j]
      BY <1>0, <2>2, <3>2 DEF Job
    <3>4. /\ tr'[i].refused = tr[i].refused /\ tr'[i].infoHash = tr[i].infoHash /\ tr'[i].t = None
          /\ tr'[i].hold = "none" /\ tr[i].hold # "none" /\ job[i].pc = "idle"
      BY <1>0, <2>2, <2>5, <3>1 DEF Tracked, Ready, Startable, Shape
    <3>5. NameOwn(i)
      <4>1. Named(i)' /\ Fresh(i) /\ ~Born(i)
        BY <1>0, <2>5, <3>3, <3>4 DEF Named, Fresh, AttachPcs, Born
      <4>. QED  BY <2>3, <3>4, <4>1 DEF NameOwn, Claims
    <3>6. JobGates(i)' /\ EntryGates(i)'
      BY <3>3, <3>4, NoneAssumption DEF JobGates, EntryGates, Gated
    <3>7. \A j \in Ids : j # i => Bystander(j) /\ SameGates(j)
      BY <2>3, <3>1, <3>3 DEF Bystander, SameMarks, SameGates
    <3>. QED  BY <2>3, <3>2, <3>5, <3>6, <3>7, NamesSame, NameStep
  <2>. QED  BY <2>4, <2>5
<1>. QED
  BY <1>1, <1>2, <1>3, <1>4, <1>5, <1>6, <1>7, <1>8 DEF Sampler, Swarm

LEMMA NameInit == Init => NameInv
<1>. SUFFICES ASSUME Init PROVE NameInv
  OBVIOUS
<1>1. \A i \in Ids : /\ tr[i].t = None /\ tr[i].hold = "none" /\ job[i].pc = "new" /\ ~lib[i].live
  BY DEF Init, NewTracked, IdleJob, NewLib
<1>2. tracked = {}
  BY DEF Init
<1>. QED
  BY <1>1, <1>2 DEF NameInv, Named, Alone, Claims, JobGates, EntryGates, Gated, AttachPcs

\* What every step keeps when no source is a .torrent URL.
NamedInv == EngineInv /\ NameInv

LEMMA NamedStep == "url" \notin Kinds /\ NamedInv /\ [Next]_vars => NamedInv'
<1>. SUFFICES ASSUME "url" \notin Kinds, NamedInv, [Next]_vars PROVE NamedInv'
  OBVIOUS
<1>. USE DEF NamedInv
<1>1. EngineInv'
  BY EngineStep
<1>2. CASE \E i \in Ids : Start(i) \/ Await(i)
  BY <1>1, <1>2, NameStart
<1>3. CASE \E i \in Ids : User(i)
  BY <1>1, <1>3, NameUser
<1>4. CASE \/ \E i \in Ids : Sampler(i) \/ Swarm(i)
           \/ FinishResume \/ Promote \/ PauseForShutdown \/ CloseBegin \/ CloseEnd
  BY <1>1, <1>4, NameRest
<1>5. CASE UNCHANGED vars
  BY <1>1, <1>5, NamesSame, NameQuiet DEF vars
<1>. QED  BY <1>2, <1>3, <1>4, <1>5 DEF Next

(***************************************************************************)
(* T-944, when every source names its infohash (a magnet or a .torrent     *)
(* file): findOrTrack and the untracking of refused entries never leave    *)
(* two live entries of one infohash, so no two share a library torrent.    *)
(***************************************************************************)
THEOREM OnePerHash == ASSUME "url" \notin Kinds PROVE Spec => []OneEntryPerHash
<1>1. Init => NamedInv
  BY TypeInit, QueueInit, ClientInit, NameInit DEF NamedInv, EngineInv
<1>2. NamedInv /\ [Next]_vars => NamedInv'
  BY NamedStep
<1>3. NamedInv => OneEntryPerHash
  <2>1. ASSUME NamedInv, NEW i \in tracked, NEW j \in tracked, i # j, ~tr[i].refused, ~tr[j].refused
        PROVE  tr[i].infoHash # tr[j].infoHash
    BY <2>1 DEF NamedInv, EngineInv, TypeInv, TypeOK, NameInv, Claims
  <2>. QED  BY <2>1 DEF OneEntryPerHash
<1>. QED  BY <1>1, <1>2, <1>3, PTL DEF Spec

(***************************************************************************)
(* T-946 and T-9134, under the same condition: whenever a Pause, a Resume, *)
(* the shutdown's pause, a free-space or a seed-policy pause lands between *)
(* the steps of addToClient, attach and awaitInfo, the two gates of the    *)
(* library torrent end up as the entry shows.                              *)
(***************************************************************************)
THEOREM GatesCorrect == ASSUME "url" \notin Kinds PROVE Spec => []GatesFollow
<1>1. Init => NamedInv
  BY TypeInit, QueueInit, ClientInit, NameInit DEF NamedInv, EngineInv
<1>2. NamedInv /\ [Next]_vars => NamedInv'
  BY NamedStep
<1>3. NamedInv => GatesFollow
  <2>1. ASSUME NamedInv, NEW i \in Ids, Sole(i)
        PROVE  /\ Gates(i).live => Gated(tr[i], Gates(i))
               /\ ~Gates(i).live => ~Gates(i).dl /\ ~Gates(i).ul
    <3>1. /\ tr[i].t \in Ids /\ i \in tracked /\ tr[i].t \notin drops
          /\ ~tr[i].removed /\ EntryGates(i) /\ Shut(tr[i].t)
      BY <2>1, Parts DEF NamedInv, EngineInv, TypeInv, ClientInv, Shape, NameInv, Sole
    <3>2. ~Stolen(tr[i].t)
      BY <2>1, <3>1 DEF Sole, Stolen
    <3>. QED  BY <3>1, <3>2 DEF Gates, EntryGates, Stays, Shut
  <2>2. NamedInv => PauseHoldsGates
    BY <2>1 DEF PauseHoldsGates, Gated
  <2>3. NamedInv => RunningOpensGates
    BY <2>1 DEF RunningOpensGates, Gated
  <2>. QED  BY <2>2, <2>3 DEF GatesFollow
<1>. QED  BY <1>1, <1>2, <1>3, PTL DEF Spec
----------------------------------------------------------------------------
(* The order of the queue and the slots: what starts is the head, and when *)
(* a slot was free.                                                        *)

\* What is left of the queue, and what is added at its end or moved in it,
\* stands in the order it stood in.
LEMMA DequeueAllOrder ==
    ASSUME NEW A, NEW q \in Seq(A), NEW ids, NEW i, NEW j, Before(DequeueAll(q, ids), i, j)
    PROVE  Before(q, i, j)
<1>. DEFINE S == {k \in DOMAIN q : q[k] \notin ids}
            d == DequeueAll(q, ids)
<1>1. Len(q) \in Nat /\ S \in SUBSET (1..Len(q)) /\ S \subseteq DOMAIN q
  OBVIOUS
<1>2. d = [n \in 1..Cardinality(S) |-> q[Nth(S, n)]]
  BY DEF DequeueAll
<1>. HIDE DEF S, d
<1>3. PICK m, n \in DOMAIN d : m < n /\ d[m] = i /\ d[n] = j
  BY DEF Before, d
<1>4. m \in 1..Cardinality(S) /\ n \in 1..Cardinality(S) /\ q[Nth(S, m)] = i /\ q[Nth(S, n)] = j
  BY <1>2, <1>3
<1>5. /\ Nth(S, m) \in S /\ Cardinality(Upto(S, Nth(S, m))) = m
      /\ Nth(S, n) \in S /\ Cardinality(Upto(S, Nth(S, n))) = n
  BY <1>1, <1>4, NthExists
<1>6. Cardinality(S) \in Nat /\ Nth(S, m) \in Nat /\ Nth(S, n) \in Nat
  BY <1>1, <1>5, PlacesFinite
<1>7. Nth(S, m) < Nth(S, n)
  <2>1. m \in Nat /\ n \in Nat
    BY <1>4, <1>6
  <2>2. ASSUME Nth(S, n) < Nth(S, m) PROVE FALSE
    <3>1. n < m
      BY <1>1, <1>5, <2>2, UptoGrows
    <3>. QED  BY <1>3, <2>1, <3>1
  <2>3. Nth(S, n) # Nth(S, m)
    BY <1>3, <1>5, <2>1
  <2>. QED  BY <1>6, <2>2, <2>3
<1>. QED  BY <1>1, <1>4, <1>5, <1>7 DEF Before

LEMMA EnqueueOrder ==
    ASSUME NEW A, NEW q \in Seq(A), NEW x \in A, NEW i, NEW j, i # x, j # x, Before(EnqueueIn(q, x), i, j)
    PROVE  Before(q, i, j)
<1>1. CASE EnqueueIn(q, x) = q
  BY <1>1
<1>2. CASE EnqueueIn(q, x) = Append(q, x)
  <2>1. /\ Len(q) \in Nat /\ DOMAIN q = 1..Len(q) /\ DOMAIN Append(q, x) = 1..(Len(q) + 1)
        /\ \A k \in DOMAIN q : Append(q, x)[k] = q[k]
        /\ Append(q, x)[Len(q) + 1] = x
    BY AppendProperties
  <2>2. PICK m, n \in DOMAIN Append(q, x) : m < n /\ Append(q, x)[m] = i /\ Append(q, x)[n] = j
    BY <1>2 DEF Before
  <2>3. m \in DOMAIN q /\ n \in DOMAIN q
    BY <2>1, <2>2
  <2>. QED  BY <2>1, <2>2, <2>3 DEF Before
<1>. QED  BY <1>1, <1>2 DEF EnqueueIn

LEMMA InsertOrder ==
    ASSUME NEW A, NEW q \in Seq(A), NEW x \in A, NEW at \in Nat, at <= Len(q),
           NEW i, NEW j, i # x, j # x, Before(Insert(q, at, x), i, j)
    PROVE  Before(q, i, j)
<1>. DEFINE l == Len(q)
            d == Insert(q, at, x)
<1>1. l \in Nat /\ DOMAIN q = 1..l
  OBVIOUS
<1>2. /\ DOMAIN d = 1..(l + 1)
      /\ \A k \in 1..(l + 1) : \/ k <= at /\ k \in 1..l /\ d[k] = q[k]
                               \/ k = at + 1 /\ d[k] = x
                               \/ k > at + 1 /\ k - 1 \in 1..l /\ d[k] = q[k - 1]
  BY <1>1 DEF Insert
<1>. HIDE DEF l, d
<1>3. PICK m, n \in DOMAIN d : m < n /\ d[m] = i /\ d[n] = j
  BY DEF Before, d
<1>4. \E a, b \in 1..l : a < b /\ q[a] = i /\ q[b] = j
  <2>1. CASE m <= at /\ n <= at
    BY <1>1, <1>2, <1>3, <2>1
  <2>2. CASE m <= at /\ n > at + 1
    BY <1>1, <1>2, <1>3, <2>2
  <2>3. CASE m > at + 1
    <3>1. n > at + 1 /\ m - 1 < n - 1
      BY <1>1, <1>2, <1>3, <2>3
    <3>2. m - 1 \in 1..l /\ n - 1 \in 1..l /\ q[m - 1] = i /\ q[n - 1] = j
      BY <1>1, <1>2, <1>3, <2>3, <3>1
    <3>. QED  BY <3>1, <3>2
  <2>. QED  BY <1>1, <1>2, <1>3, <2>1, <2>2, <2>3
<1>. QED  BY <1>1, <1>4 DEF Before

\* A queue with each id once has one order of two.
LEMMA OneWay ==
    ASSUME NEW A, NEW q \in Seq(A), Distinct(q), NEW i, NEW j, Before(q, i, j)
    PROVE  ~Before(q, j, i) /\ q # <<>> /\ j # Head(q)
<1>1. PICK m, n \in DOMAIN q : m < n /\ q[m] = i /\ q[n] = j
  BY DEF Before
<1>2. DOMAIN q = 1..Len(q) /\ Len(q) \in Nat
  OBVIOUS
<1>3. ~Before(q, j, i)
  <2>. SUFFICES ASSUME NEW a \in DOMAIN q, NEW b \in DOMAIN q, a < b, q[a] = j, q[b] = i PROVE FALSE
    BY DEF Before
  <2>1. a = n /\ b = m
    BY <1>1 DEF Distinct
  <2>. QED  BY <1>1, <1>2, <2>1
<1>4. q # <<>> /\ Head(q) = q[1] /\ 1 \in DOMAIN q
  BY <1>1, <1>2
<1>5. j # Head(q)
  <2>1. j = q[1] => n = 1
    BY <1>1, <1>4 DEF Distinct
  <2>. QED  BY <1>1, <1>2, <1>4, <2>1
<1>. QED  BY <1>3, <1>4, <1>5

\* The queue loses some of its ids, and gains one that was not in it.
Ordered ==
    \E ids \in SUBSET Ids : \E q \in {queue, DequeueAll(queue, ids)} :
        queue' = q \/ \E x \in Ids \ Queued : queue' = EnqueueIn(q, x)

\* Two queued ids change places in one step only if one of them is moved.
LEMMA OrderKept ==
    ASSUME TypeInv, Ordered, NEW i \in Queued, NEW j \in Queued, Before(queue', j, i)
    PROVE  Before(queue, j, i)
<1>0. PICK ids \in SUBSET Ids : \E q \in {queue, DequeueAll(queue, ids)} :
        queue' = q \/ \E x \in Ids \ Queued : queue' = EnqueueIn(q, x)
  BY DEF Ordered
<1>1. PICK q \in {queue, DequeueAll(queue, ids)} :
        queue' = q \/ \E x \in Ids \ Queued : queue' = EnqueueIn(q, x)
  BY <1>0
<1>2. queue \in Seq(Ids) /\ q \in Seq(Ids)
  BY DequeueAllLeaves DEF TypeInv, TypeOK
<1>3. Before(q, j, i)
  <2>1. CASE queue' = q
    BY <2>1
  <2>2. CASE \E x \in Ids \ Queued : queue' = EnqueueIn(q, x)
    BY <1>2, <2>2, EnqueueOrder
  <2>. QED  BY <1>1, <2>1, <2>2
<1>. QED  BY <1>2, <1>3, DequeueAllOrder

LEMMA OrderedSteps ==
    ASSUME TypeInv, QueueInv, [Next]_vars
    PROVE  Ordered \/ \E i \in Ids : Moves(i)
<1>0. /\ tracked \subseteq Ids /\ \A k \in Ids : job[k] \in Job
      /\ \A k \in Ids : k \in Queued => k \in tracked /\ ~tr[k].paused /\ job[k].pc \notin {"new", "retrack"}
  BY DEF TypeInv, TypeOK, QueueInv, Sound, Ready
<1>1. ASSUME queue' = queue PROVE Ordered
  BY <1>1 DEF Ordered
<1>2. ASSUME NEW ids \in SUBSET Ids, queue' = DequeueAll(queue, ids) PROVE Ordered
  BY <1>2 DEF Ordered
<1>3. ASSUME NEW ids \in SUBSET Ids, NEW q \in {queue, DequeueAll(queue, ids)}, NEW x \in Ids \ Queued,
             queue' = EnqueueIn(q, x)
      PROVE  Ordered
  BY <1>3 DEF Ordered
<1>4. ASSUME NEW i \in Ids, queue' = Dequeue(queue, i) PROVE Ordered
  <2>1. {i} \in SUBSET Ids /\ queue' = DequeueAll(queue, {i})
    BY <1>4 DEF Dequeue
  <2>. QED  BY <1>2, <2>1
<1>5. \A h, i : Matches(h, i) \in SUBSET Ids
  BY <1>0 DEF Matches
<1>6. ASSUME NEW i \in Ids, Start(i) PROVE Ordered
  <2>1. CASE FetchFails(i) \/ Retrack(i) \/ ReadHeld(i) \/ Join(i) \/ PublishRemoved(i) \/ Publish(i)
    BY <1>1, <2>1 DEF FetchFails, Retrack, TrackErrored, ReadHeld, Join, PublishRemoved, Publish, PublishTorrent
  <2>2. CASE FetchClaims(i)
    BY <1>2, <1>5, <2>2 DEF FetchClaims
  <2>3. CASE AttachFails(i) \/ PublishClosed(i)
    <3>1. AttachFailure(i)
      BY <2>3 DEF AttachFails, PublishClosed
    <3>2. queue' = queue \/ queue' = Dequeue(queue, i)
      BY <1>0, <3>1 DEF AttachFailure, Job
    <3>. QED  BY <1>1, <1>4, <3>2
  <2>. QED  BY <1>6, <2>1, <2>2, <2>3 DEF Start
<1>7. ASSUME NEW i \in Ids, Await(i) PROVE Ordered
  BY <1>1, <1>7 DEF Await, AwaitEnds, AwaitRefuses, Refuse, GotInfo, DownloadAll
<1>8. ASSUME NEW i \in Ids, NEW h, NEW dict, NEW via, NEW p, NEW s, FindOrTrack(i, h, dict, via, p, s) PROVE Ordered
  <2>1. i \notin Queued
    BY <1>0, <1>8 DEF FindOrTrack, Unminted
  <2>2. \/ queue' = DequeueAll(queue, Matches(h, None))
        \/ queue' = EnqueueIn(DequeueAll(queue, Matches(h, None)), i)
    BY <1>8 DEF FindOrTrack
  <2>. QED  BY <1>2, <1>3, <1>5, <2>1, <2>2
<1>9. ASSUME NEW i \in Ids, NEW via, NEW p, NEW s, TrackURL(i, via, p, s) PROVE Ordered
  <2>1. i \notin Queued
    BY <1>0, <1>9 DEF TrackURL, Unminted
  <2>2. queue' = queue \/ queue' = EnqueueIn(queue, i)
    BY <1>9 DEF TrackURL
  <2>. QED  BY <1>1, <1>3, <2>1, <2>2
<1>10. ASSUME NEW i \in Ids, Add(i) PROVE Ordered
  BY <1>8, <1>9, <1>10 DEF Add
<1>11. ASSUME NEW i \in Ids, Restore(i) PROVE Ordered
  <2>1. \/ \E h, dict, p, s : FindOrTrack(i, h, dict, "restore", p, s)
        \/ \E h, p, s : TrackErrored(i, h, p, s)
        \/ \E p : TrackURL(i, "url", p, FALSE)
    BY <1>11 DEF Restore
  <2>. QED  BY <1>1, <1>8, <1>9, <2>1 DEF TrackErrored
<1>12. ASSUME NEW i \in Ids, Pause(i) \/ Remove(i) PROVE Ordered
  BY <1>1, <1>4, <1>12 DEF Pause, Remove
<1>13. ASSUME NEW i \in Ids, Resume(i) PROVE Ordered
  <2>1. i \notin Queued
    BY <1>0, <1>13 DEF Resume
  <2>2. queue' = queue \/ queue' = EnqueueIn(queue, i)
    BY <1>13 DEF Resume
  <2>. QED  BY <1>1, <1>3, <2>1, <2>2
<1>14. ASSUME NEW i \in Ids, Sampler(i) \/ Swarm(i) PROVE Ordered
  BY <1>1, <1>14 DEF Sampler, Swarm, SpacePause, ApplyPolicy, InfoArrives, Completes, Drop
<1>15. CASE FinishResume \/ CloseBegin \/ CloseEnd \/ UNCHANGED vars
  BY <1>1, <1>15 DEF FinishResume, CloseBegin, CloseEnd, vars
<1>16. CASE PauseForShutdown
  <2>1. {i \in tracked : ~tr[i].paused} \in SUBSET Ids
    BY <1>0
  <2>. QED  BY <1>2, <1>16, <2>1 DEF PauseForShutdown
<1>17. CASE Promote
  <2>1. queue' = Dequeue(queue, NextUp) /\ NextUp \in Ids
    BY <1>17 DEF Promote, NextUp, TypeInv, TypeOK
  <2>. QED  BY <1>4, <2>1
<1>18. ASSUME NEW i \in Ids, User(i) PROVE Ordered \/ Moves(i)
  BY <1>10, <1>11, <1>12, <1>13, <1>18 DEF User, Moves
<1>. QED  BY <1>6, <1>7, <1>14, <1>15, <1>16, <1>17, <1>18 DEF Next

\* A move changes the place of nothing but the id moved.
LEMMA MoveOrder ==
    ASSUME TypeInv, NEW x \in Ids, Moves(x), NEW i \in Queued, NEW j \in Queued, i # x, j # x,
           Before(queue', j, i)
    PROVE  Before(queue, j, i)
<1>1. PICK pos \in 0..Cardinality(Ids) : MoveInQueue(x, pos)
  BY DEF Moves
<1>. DEFINE rest == Dequeue(queue, x)
            at   == IF pos > Len(rest) THEN Len(rest) ELSE pos
<1>2. queue \in Seq(Ids) /\ rest \in Seq(Ids) /\ Len(rest) \in Nat /\ pos \in Nat
  <2>1. queue \in Seq(Ids)
    BY DEF TypeInv, TypeOK
  <2>2. rest \in Seq(Ids)
    BY <2>1, DequeueAllLeaves DEF Dequeue
  <2>3. pos \in Nat
    BY IdsAssumption, FS_CardinalityType
  <2>. HIDE DEF rest
  <2>. QED  BY <2>1, <2>2, <2>3
<1>3. queue' = Insert(rest, at, x)
  BY <1>1 DEF MoveInQueue
<1>. HIDE DEF rest
<1>4. at \in Nat /\ at <= Len(rest)
  BY <1>2
<1>. HIDE DEF at
<1>5. Before(rest, j, i)
  BY <1>2, <1>3, <1>4, InsertOrder
<1>. QED  BY <1>2, <1>5, DequeueAllOrder DEF rest, Dequeue

Busy(r) == ~r.paused /\ r.state \in {"checking", "downloading"}

\* An entry with no torrent and nothing to start from is being started, or has
\* failed; and only an entry with a torrent is stopped for space.
Worked(i) ==
    /\ tr[i].spacePaused => tr[i].t # None
    /\ i \in tracked /\ ~Startable(tr[i]) /\ job[i].pc = "idle" => tr[i].state = "errored"

WorkInv == \A i \in Ids : Worked(i)

\* What SlotBound says of a step.
SlotStep ==
    /\ ActiveCount(tr', tracked') > MaxActive
    /\ ActiveCount(tr', tracked') > ActiveCount(tr, tracked)
    => \E i \in Ids : job[i].pc # "idle" /\ tr[i].t = None /\ tr[i].paused /\ ~tr'[i].paused

\* What starts of the queue is its head.
HeadStarts ==
    \A j \in Queued : tr'[j].state \in {"checking", "downloading"} => queue # <<>> /\ j = Head(queue)

\* Of an entry and of a set of them with nothing new at work.
LEMMA ActiveSets ==
    ASSUME NEW r, NEW set \in SUBSET Ids
    PROVE  /\ Active(r, set) = {i \in set : Busy(r[i])}
           /\ IsFiniteSet(Active(r, set)) /\ ActiveCount(r, set) \in Nat
<1>1. Active(r, set) = {i \in set : Busy(r[i])}
  BY DEF Active, Busy
<1>2. IsFiniteSet(Active(r, set))
  BY <1>1, IdsAssumption, FS_Subset
<1>. QED  BY <1>1, <1>2, FS_CardinalityType DEF ActiveCount

LEMMA SlotsShrink ==
    ASSUME TypeInv, TypeInv', \A k \in tracked' : Busy(tr'[k]) => k \in tracked /\ Busy(tr[k])
    PROVE  SlotStep
<1>1. tracked \in SUBSET Ids /\ tracked' \in SUBSET Ids
  BY DEF TypeInv, TypeOK
<1>2. Active(tr', tracked') \subseteq Active(tr, tracked) /\ IsFiniteSet(Active(tr, tracked))
  BY <1>1, ActiveSets
<1>3. ActiveCount(tr', tracked') <= ActiveCount(tr, tracked)
  BY <1>2, FS_Subset DEF ActiveCount
<1>4. ActiveCount(tr', tracked') \in Nat /\ ActiveCount(tr, tracked) \in Nat
  BY <1>1, ActiveSets
<1>. QED  BY <1>3, <1>4 DEF SlotStep

\* One entry more, where there was a slot.
LEMMA SlotTaken ==
    ASSUME TypeInv, TypeInv', NEW i \in Ids, NEW set \in SUBSET Ids, HasSlot(tr, set),
           \A k \in tracked' \ {i} : Busy(tr'[k]) => k \in set /\ Busy(tr[k])
    PROVE  SlotStep
<1>1. tracked' \in SUBSET Ids
  BY DEF TypeInv, TypeOK
<1>. DEFINE before == Active(tr, set)
<1>2. Active(tr', tracked') \subseteq before \cup {i} /\ IsFiniteSet(before)
  BY <1>1, ActiveSets
<1>3. IsFiniteSet(before \cup {i}) /\ Cardinality(before \cup {i}) <= Cardinality(before) + 1
  <2>. HIDE DEF before
  <2>1. Cardinality(before) \in Nat
    BY <1>2, FS_CardinalityType
  <2>2. CASE i \in before
    <3>1. before \cup {i} = before
      BY <2>2
    <3>. QED  BY <1>2, <2>1, <3>1
  <2>3. CASE i \notin before
    <3>1. IsFiniteSet(before \cup {i}) /\ Cardinality(before \cup {i}) = Cardinality(before) + 1
      BY <1>2, <2>3, FS_AddElement
    <3>. QED  BY <2>1, <3>1
  <2>. QED  BY <2>2, <2>3
<1>4. ActiveCount(tr', tracked') <= Cardinality(before \cup {i})
  BY <1>2, <1>3, FS_Subset DEF ActiveCount
<1>5. /\ ActiveCount(tr', tracked') \in Nat /\ Cardinality(before) \in Nat
      /\ Cardinality(before \cup {i}) \in Nat /\ Cardinality(before) < MaxActive
  BY <1>1, <1>2, <1>3, ActiveSets, FS_CardinalityType DEF HasSlot, ActiveCount
<1>. QED  BY <1>3, <1>4, <1>5, MaxActiveAssumption DEF SlotStep

\* Counted before it was taken.
LEMMA SlotCounted ==
    ASSUME TypeInv', ActiveCount(tr', tracked') <= MaxActive
    PROVE  SlotStep
<1>1. ActiveCount(tr', tracked') \in Nat
  BY ActiveSets DEF TypeInv, TypeOK
<1>. QED  BY <1>1, MaxActiveAssumption DEF SlotStep

LEMMA WorkStep ==
    ASSUME WorkInv, NEW i \in Ids, tracked' \subseteq tracked \cup {i},
           \A k \in Ids \ {i} : tr'[k] = tr[k] /\ job'[k] = job[k],
           Worked(i)'
    PROVE  WorkInv'
<1>1. ASSUME NEW k \in Ids \ {i} PROVE Worked(k)'
  BY <1>1 DEF WorkInv, Worked
<1>. QED  BY <1>1 DEF WorkInv

\* A step about an entry that does not start anything.
LEMMA Rests ==
    ASSUME TypeInv, TypeInv', QueueInv, WorkInv, NEW i \in Ids, tracked' \subseteq tracked \cup {i},
           \A k \in Ids \ {i} : tr'[k] = tr[k] /\ job'[k] = job[k],
           Worked(i)',
           i \in tracked' /\ Busy(tr'[i]) => i \in tracked /\ Busy(tr[i]),
           i \in Queued /\ tr'[i].state \in {"checking", "downloading"} => tr[i].state \in {"checking", "downloading"}
    PROVE  WorkInv' /\ SlotStep /\ HeadStarts
<1>1. WorkInv'
  BY WorkStep
<1>2. tracked \subseteq Ids /\ tracked' \subseteq Ids
  BY DEF TypeInv, TypeOK
<1>3. \A k \in tracked' : Busy(tr'[k]) => k \in tracked /\ Busy(tr[k])
  BY <1>2
<1>4. SlotStep
  BY <1>3, SlotsShrink
<1>5. \A j \in Queued : j \in Ids /\ tr[j].state \in {"queued", "errored"}
  BY DEF QueueInv, Sound, Ready
<1>6. HeadStarts
  BY <1>5 DEF HeadStarts
<1>. QED  BY <1>1, <1>4, <1>6

\* A step that leaves the entries alone and their jobs at work.
LEMMA RestsAll ==
    ASSUME TypeInv, TypeInv', QueueInv, WorkInv, tr' = tr, tracked' \subseteq tracked, job' = job
    PROVE  WorkInv' /\ SlotStep /\ HeadStarts
<1>1. WorkInv'
  BY DEF WorkInv, Worked
<1>2. SlotStep
  BY SlotsShrink
<1>3. HeadStarts
  BY DEF HeadStarts, QueueInv, Sound, Ready
<1>. QED  BY <1>1, <1>2, <1>3

LEMMA SlotMint ==
    ASSUME TypeInv, TypeInv', QueueInv, WorkInv, NEW i \in Ids, NEW h, NEW dict, NEW via, NEW p \in BOOLEAN, NEW s \in BOOLEAN,
           \/ FindOrTrack(i, h, dict, via, p, s)
           \/ TrackURL(i, via, p, s)
           \/ job[i].pc \in {"new", "retrack"} /\ TrackErrored(i, h, p, s)
    PROVE  WorkInv' /\ SlotStep /\ HeadStarts
<1>0. /\ tr \in [Ids -> Tracked] /\ job \in [Ids -> Job] /\ i \notin tracked /\ i \notin Queued
      /\ tracked \subseteq Ids /\ tracked' \subseteq Ids
      /\ \A j \in Queued : j \in Ids \ {i} /\ tr[j].state \in {"queued", "errored"}
  BY DEF TypeInv, TypeOK, QueueInv, Sound, Ready, FindOrTrack, TrackURL, Unminted
<1>1. CASE FindOrTrack(i, h, dict, via, p, s)
  <2>. DEFINE left  == tracked \ Matches(h, None)
              entry == [NewTracked(p, s) EXCEPT !.infoHash = h]
              held  == Enqueue([entry EXCEPT !.hold = "spec"])
  <2>1. /\ tracked' = left \cup {i} /\ left \subseteq tracked
        /\ \A k \in Ids \ {i} : tr'[k] = tr[k] /\ job'[k] = job[k]
    BY <1>0, <1>1 DEF FindOrTrack
  <2>2. \/ tr'[i] = held
        \/ tr'[i] = StartPaused(entry) /\ job'[i].pc = "attach"
        \/ tr'[i] = entry /\ HasSlot(tr, left) /\ job'[i].pc = "attach"
    BY <1>0, <1>1 DEF FindOrTrack, IdleJob
  <2>3. /\ entry.spacePaused = FALSE
        /\ StartPaused(entry).state = "paused" /\ StartPaused(entry).spacePaused = FALSE
        /\ held.state = "queued" /\ held.hold = "spec" /\ held.spacePaused = FALSE
    BY DEF NewTracked, StartPaused, Enqueue
  <2>. HIDE DEF left, entry, held
  <2>4. WorkInv'
    <3>1. Worked(i)'
      BY <2>2, <2>3 DEF Worked, Startable
    <3>. QED  BY <2>1, <3>1, WorkStep
  <2>5. SlotStep
    <3>1. CASE tr'[i] = held \/ tr'[i] = StartPaused(entry)
      <4>1. ~Busy(tr'[i])
        BY <2>3, <3>1 DEF Busy
      <4>. QED  BY <1>0, <2>1, <4>1, SlotsShrink
    <3>2. CASE HasSlot(tr, left)
      <4>1. \A k \in tracked' \ {i} : Busy(tr'[k]) => k \in left /\ Busy(tr[k])
        BY <1>0, <2>1
      <4>. QED  BY <1>0, <2>1, <3>2, <4>1, SlotTaken
    <3>. QED  BY <2>2, <3>1, <3>2
  <2>. QED  BY <1>0, <2>1, <2>4, <2>5 DEF HeadStarts
<1>2. CASE TrackURL(i, via, p, s)
  <2>. DEFINE entry == NewTracked(p, s)
              held  == Enqueue([entry EXCEPT !.hold = "url"])
  <2>1. /\ tracked' = tracked \cup {i}
        /\ \A k \in Ids \ {i} : tr'[k] = tr[k] /\ job'[k] = job[k]
    BY <1>0, <1>2 DEF TrackURL
  <2>2. \/ tr'[i] = held
        \/ tr'[i] = StartPaused(entry) /\ job'[i].pc = "fetch"
        \/ /\ tr'[i] = entry /\ job'[i].pc = "fetch"
           /\ tr' = [tr EXCEPT ![i] = entry] /\ ~(ActiveCount([tr EXCEPT ![i] = entry], tracked \cup {i}) > MaxActive)
    BY <1>0, <1>2 DEF TrackURL, IdleJob
  <2>3. /\ entry.spacePaused = FALSE
        /\ StartPaused(entry).state = "paused" /\ StartPaused(entry).spacePaused = FALSE
        /\ held.state = "queued" /\ held.hold = "url" /\ held.spacePaused = FALSE
    BY DEF NewTracked, StartPaused, Enqueue
  <2>. HIDE DEF entry, held
  <2>4. WorkInv'
    <3>1. Worked(i)'
      BY <2>2, <2>3 DEF Worked, Startable
    <3>. QED  BY <2>1, <3>1, WorkStep
  <2>5. SlotStep
    <3>1. CASE tr'[i] = held \/ tr'[i] = StartPaused(entry)
      <4>1. ~Busy(tr'[i])
        BY <2>3, <3>1 DEF Busy
      <4>. QED  BY <1>0, <2>1, <4>1, SlotsShrink
    <3>2. CASE tr' = [tr EXCEPT ![i] = entry] /\ ~(ActiveCount([tr EXCEPT ![i] = entry], tracked \cup {i}) > MaxActive)
      <4>1. ActiveCount(tr', tracked') \in Nat /\ ~(ActiveCount(tr', tracked') > MaxActive)
        BY <1>0, <2>1, <3>2, ActiveSets
      <4>. QED  BY <4>1, MaxActiveAssumption, SlotCounted
    <3>. QED  BY <2>2, <3>1, <3>2
  <2>. QED  BY <1>0, <2>1, <2>4, <2>5 DEF HeadStarts
<1>3. CASE TrackErrored(i, h, p, s)
  <2>. DEFINE entry == [NewTracked(p, s) EXCEPT !.state = "errored", !.refused = TRUE, !.infoHash = h]
  <2>1. entry.state = "errored" /\ entry.spacePaused = FALSE
    BY DEF NewTracked
  <2>2. /\ tracked' = tracked \cup {i} /\ tr'[i] = entry
        /\ \A k \in Ids \ {i} : tr'[k] = tr[k] /\ job'[k] = job[k]
    BY <1>0, <1>3 DEF TrackErrored
  <2>. HIDE DEF entry
  <2>3. Worked(i)' /\ ~Busy(tr'[i])
    BY <2>1, <2>2 DEF Worked, Busy
  <2>. QED  BY <1>0, <2>2, <2>3, Rests
<1>. QED  BY <1>1, <1>2, <1>3

LEMMA SlotStart ==
    ASSUME EngineInv, TypeInv', WorkInv, NEW i \in Ids, Start(i) \/ Await(i)
    PROVE  WorkInv' /\ SlotStep /\ HeadStarts
<1>0. /\ tr \in [Ids -> Tracked] /\ job \in [Ids -> Job] /\ tr[i] \in Tracked /\ job[i] \in Job
      /\ TypeInv /\ QueueInv /\ Shape(i) /\ Worked(i) /\ tracked \subseteq Ids
  BY DEF EngineInv, TypeInv, TypeOK, ClientInv, WorkInv
<1>1. ASSUME Done(i) PROVE job'[i].pc = "idle" /\ \A k \in Ids \ {i} : job'[k] = job[k]
  BY <1>0, <1>1 DEF Done, IdleJob
<1>2. ASSUME NEW pc, SetPc(i, pc) PROVE job'[i].pc = pc /\ \A k \in Ids \ {i} : job'[k] = job[k]
  BY <1>0, <1>2 DEF SetPc, Job
<1>3. ASSUME NEW f \in {Fail(tr[i]), [Fail(tr[i]) EXCEPT !.refused = TRUE]},
             tr' = [tr EXCEPT ![i] = f], Done(i), tracked' = tracked
      PROVE  WorkInv' /\ SlotStep /\ HeadStarts
  <2>1. tr'[i] = f /\ \A k \in Ids \ {i} : tr'[k] = tr[k]
    BY <1>0, <1>3
  <2>2. f.state = "errored" /\ f.spacePaused = tr[i].spacePaused /\ f.t = tr[i].t
    BY <1>0 DEF Fail, Tracked
  <2>3. Worked(i)' /\ ~Busy(tr'[i])
    BY <1>0, <2>1, <2>2 DEF Worked, Busy
  <2>. QED  BY <1>0, <1>1, <1>3, <2>1, <2>2, <2>3, Rests
<1>4. ASSUME tr' = tr, tracked' \subseteq tracked, \A k \in Ids \ {i} : job'[k] = job[k],
             job'[i].pc = "idle" => i \notin tracked' \/ tr[i].t # None
      PROVE  WorkInv' /\ SlotStep /\ HeadStarts
  <2>1. Worked(i)'
    BY <1>0, <1>4 DEF Worked, Startable
  <2>. QED  BY <1>0, <1>4, <2>1, Rests
<1>5. ASSUME AttachFailure(i) PROVE WorkInv' /\ SlotStep /\ HeadStarts
  <2>1. CASE job[i].via \in {"add", "restore"}
    <3>1. tracked' = tracked \ {i} /\ tr' = tr /\ (SetPc(i, "retrack") \/ Done(i))
      BY <1>5, <2>1 DEF AttachFailure
    <3>. QED  BY <1>1, <1>2, <1>4, <3>1
  <2>2. CASE job[i].via = "url"
    <3>1. tr' = [tr EXCEPT ![i] = Fail(tr[i])] /\ Done(i) /\ tracked' = tracked
      BY <1>0, <1>5, <2>2 DEF AttachFailure, FailEntry
    <3>. QED  BY <1>3, <3>1
  <2>3. CASE job[i].via = "promote"
    <3>1. tr' = [tr EXCEPT ![i] = [Fail(tr[i]) EXCEPT !.refused = TRUE]] /\ Done(i) /\ tracked' = tracked
      BY <1>0, <1>5, <2>3 DEF AttachFailure
    <3>. QED  BY <1>3, <3>1
  <2>4. job[i].via \in {"add", "restore", "url", "promote"}
    BY <1>0 DEF Job
  <2>. QED  BY <2>1, <2>2, <2>3, <2>4
<1>6. CASE FetchFails(i)
  <2>1. tr' = [tr EXCEPT ![i] = Fail(tr[i])] /\ Done(i) /\ tracked' = tracked
    BY <1>0, <1>6 DEF FetchFails, FailEntry
  <2>. QED  BY <1>3, <2>1
<1>7. CASE FetchClaims(i)
  <2>1. tracked' \subseteq tracked /\ tr' = tr /\ job'[i].pc = "attach" /\ \A k \in Ids \ {i} : job'[k] = job[k]
    BY <1>0, <1>7 DEF FetchClaims, Job
  <2>. QED  BY <1>4, <2>1
<1>8. CASE AttachFails(i) \/ PublishClosed(i)
  BY <1>5, <1>8 DEF AttachFails, PublishClosed
<1>9. CASE Retrack(i)
  <2>1. tr[i].userPaused \in BOOLEAN /\ tr[i].seedDone \in BOOLEAN
    BY <1>0, Parts DEF TypeInv
  <2>2. job[i].pc = "retrack" /\ TrackErrored(i, job[i].hash, tr[i].userPaused, tr[i].seedDone)
    BY <1>9 DEF Retrack
  <2>. QED  BY <1>0, <2>1, <2>2, SlotMint
<1>10. CASE ReadHeld(i) \/ Join(i)
  <2>1. tr' = tr /\ tracked' = tracked
    BY <1>10 DEF ReadHeld, Join
  <2>2. \/ job' = [job EXCEPT ![i].pc = "join", ![i].held = tr[i].paused]
        \/ \E o : job' = [job EXCEPT ![i].pc = "publish", ![i].t = o]
    BY <1>10 DEF ReadHeld, Join
  <2>3. job'[i].pc \in {"join", "publish"} /\ \A k \in Ids \ {i} : job'[k] = job[k]
    BY <1>0, <2>2 DEF Job
  <2>. QED  BY <1>4, <2>1, <2>3
<1>11. CASE PublishRemoved(i)
  <2>1. tr' = tr /\ tracked' = tracked /\ Done(i) /\ i \notin tracked
    BY <1>0, <1>11 DEF PublishRemoved, Shape
  <2>. QED  BY <1>1, <1>4, <2>1
<1>12. CASE Publish(i)
  <2>. DEFINE r == [tr[i] EXCEPT !.t = job[i].t, !.infoHash = lib[job[i].t].hash]
  <2>1. tr' = [tr EXCEPT ![i] = r] /\ tracked' = tracked /\ SetPc(i, "await")
    BY <1>0, <1>12 DEF Publish, PublishTorrent
  <2>2. job[i].t # None
    BY <1>0, <1>12, NoneAssumption DEF Publish, TypeInv, JobTorrent
  <2>3. r.t # None /\ r.state = tr[i].state /\ r.paused = tr[i].paused
    BY <1>0, <2>2 DEF Tracked
  <2>. HIDE DEF r
  <2>4. tr'[i] = r /\ \A k \in Ids \ {i} : tr'[k] = tr[k]
    BY <1>0, <2>1
  <2>5. Worked(i)' /\ (Busy(tr'[i]) => Busy(tr[i]))
    BY <2>3, <2>4 DEF Worked, Startable, Busy
  <2>. QED  BY <1>0, <1>2, <2>1, <2>3, <2>4, <2>5, Rests
<1>13. ASSUME job[i].pc \in AwaitPcs PROVE tr[i].t # None
  BY <1>0, <1>13, NoneAssumption DEF Shape, TypeInv, JobTorrent
<1>14. CASE AwaitEnds(i) \/ DownloadAll(i)
  <2>1. tr' = tr /\ tracked' = tracked /\ Done(i) /\ job[i].pc \in AwaitPcs
    BY <1>14 DEF AwaitEnds, DownloadAll, AwaitPcs
  <2>. QED  BY <1>1, <1>4, <1>13, <2>1
<1>15. CASE AwaitRefuses(i)
  BY <1>2, <1>4, <1>15 DEF AwaitRefuses
<1>16. CASE Refuse(i)
  <2>1. tr' = [tr EXCEPT ![i] = [Fail(tr[i]) EXCEPT !.refused = TRUE]] /\ Done(i) /\ tracked' = tracked
    BY <1>0, <1>16 DEF Refuse
  <2>. QED  BY <1>3, <2>1
<1>17. CASE GotInfo(i)
  <2>1. tracked' = tracked /\ SetPc(i, "deletes") /\ tr[i].t # None
    BY <1>13, <1>17 DEF GotInfo, AwaitPcs
  <2>2. PICK r \in {tr[i], [tr[i] EXCEPT !.pre = "downloading"], [tr[i] EXCEPT !.state = "downloading"]} :
          /\ tr' = [tr EXCEPT ![i] = r]
          /\ \/ r = tr[i]
             \/ r = [tr[i] EXCEPT !.pre = "downloading"]
             \/ tr[i].state = "checking" /\ r = [tr[i] EXCEPT !.state = "downloading"]
    BY <1>0, <1>17 DEF GotInfo
  <2>3. /\ r.t = tr[i].t /\ (Busy(r) => Busy(tr[i]))
        /\ r.state \in {"checking", "downloading"} => tr[i].state \in {"checking", "downloading"}
    BY <1>0, <2>2 DEF Busy, Tracked
  <2>4. tr'[i] = r /\ \A k \in Ids \ {i} : tr'[k] = tr[k]
    BY <1>0, <2>2
  <2>5. Worked(i)'
    BY <2>1, <2>3, <2>4 DEF Worked, Startable
  <2>. QED  BY <1>0, <1>2, <2>1, <2>3, <2>4, <2>5, Rests
<1>. QED
  BY <1>6, <1>7, <1>8, <1>9, <1>10, <1>11, <1>12, <1>14, <1>15, <1>16, <1>17 DEF Start, Await

\* What Resume makes of an entry, as far as slots go.
LEMMA UnpauseWork ==
    ASSUME NEW r \in Tracked, Resumable(r), r.paused
    PROVE  LET u == Unpause(r)
           IN /\ ~u.paused /\ ~u.spacePaused /\ u.t = r.t /\ u.hold = r.hold
              /\ r.state = "errored" /\ ~r.spacePaused => u.state = "errored"
<1>. DEFINE v == [r EXCEPT !.paused = FALSE, !.userPaused = FALSE]
<1>1. /\ ~v.paused /\ v.state = r.state /\ v.pre = r.pre /\ v.spacePaused = r.spacePaused
      /\ v.seedDone = r.seedDone /\ v.t = r.t /\ v.hold = r.hold /\ v \in Tracked
  BY DEF Tracked
<1>2. Unpause(r) = IF v.spacePaused THEN [v EXCEPT !.spacePaused = FALSE, !.state = v.pre]
                   ELSE IF v.seedDone /\ v.state # "errored"
                   THEN [v EXCEPT !.seedDone = FALSE, !.seedOverride = TRUE, !.state = "seeding"]
                   ELSE IF v.state = "paused" THEN [v EXCEPT !.state = v.pre] ELSE v
  BY DEF Unpause
<1>. HIDE DEF v
<1>3. CASE v.spacePaused
  BY <1>1, <1>2, <1>3 DEF Tracked
<1>4. CASE ~v.spacePaused /\ v.seedDone /\ v.state # "errored"
  BY <1>1, <1>2, <1>4 DEF Tracked
<1>5. CASE ~v.spacePaused /\ ~(v.seedDone /\ v.state # "errored") /\ v.state = "paused"
  BY <1>1, <1>2, <1>5 DEF Tracked
<1>6. CASE ~v.spacePaused /\ ~(v.seedDone /\ v.state # "errored") /\ v.state # "paused"
  BY <1>1, <1>2, <1>6 DEF Tracked
<1>. QED  BY <1>3, <1>4, <1>5, <1>6

LEMMA SlotUser ==
    ASSUME EngineInv, TypeInv', WorkInv, NEW i \in Ids, User(i)
    PROVE  WorkInv' /\ SlotStep /\ HeadStarts
<1>0. /\ tr \in [Ids -> Tracked] /\ job \in [Ids -> Job] /\ tr[i] \in Tracked
      /\ TypeInv /\ QueueInv /\ Sound(i) /\ Worked(i) /\ tracked \subseteq Ids /\ tracked' \subseteq Ids
  BY DEF EngineInv, TypeInv, TypeOK, QueueInv, WorkInv
<1>1. CASE Add(i)
  <2>1. \/ \E h, dict : FindOrTrack(i, h, dict, "add", FALSE, FALSE)
        \/ TrackURL(i, "url", FALSE, FALSE)
    BY <1>1 DEF Add
  <2>2. \A no \in BOOLEAN : \A h, dict :
          FindOrTrack(i, h, dict, "add", no, no) \/ TrackURL(i, "url", no, no) => WorkInv' /\ SlotStep /\ HeadStarts
    BY <1>0, SlotMint
  <2>. QED  BY <2>1, <2>2
<1>2. CASE Restore(i)
  <2>1. PICK p \in BOOLEAN, s \in BOOLEAN :
          \/ \E h, dict : FindOrTrack(i, h, dict, "restore", p, s)
          \/ \E h : i \in Unminted /\ TrackErrored(i, h, p, s)
          \/ TrackURL(i, "url", p, FALSE)
    BY <1>2 DEF Restore
  <2>2. ASSUME NEW h, NEW dict,
               FindOrTrack(i, h, dict, "restore", p, s) \/ (i \in Unminted /\ TrackErrored(i, h, p, s))
        PROVE  WorkInv' /\ SlotStep /\ HeadStarts
    BY <1>0, <2>2, SlotMint DEF Unminted
  <2>3. \A no \in BOOLEAN : TrackURL(i, "url", p, no) => WorkInv' /\ SlotStep /\ HeadStarts
    BY <1>0, SlotMint
  <2>. QED  BY <2>1, <2>2, <2>3
<1>3. CASE Pause(i)
  <2>1. /\ tracked' = tracked /\ job' = job /\ \A k \in Ids \ {i} : tr'[k] = tr[k]
        /\ tr'[i] = tr[i] \/ tr'[i] = [PauseEntry(tr[i]) EXCEPT !.userPaused = TRUE]
    BY <1>0, <1>3 DEF Pause
  <2>. DEFINE u == [PauseEntry(tr[i]) EXCEPT !.userPaused = TRUE]
  <2>2. /\ u.paused /\ u.t = tr[i].t /\ u.hold = tr[i].hold /\ u.spacePaused = tr[i].spacePaused
        /\ u.state = IF tr[i].state = "errored" THEN "errored" ELSE "paused"
    <3>1. CASE tr[i].state = "errored"
      BY <1>0, <3>1 DEF PauseEntry, Tracked
    <3>2. CASE tr[i].state # "errored"
      BY <1>0, <3>2 DEF PauseEntry, Tracked
    <3>. QED  BY <3>1, <3>2
  <2>. HIDE DEF u
  <2>3. tr'[i] = tr[i] \/ tr'[i] = u
    BY <2>1 DEF u
  <2>4. Worked(i)' /\ (Busy(tr'[i]) => Busy(tr[i]))
    BY <1>0, <2>1, <2>2, <2>3 DEF Worked, Startable, Busy
  <2>. QED  BY <1>0, <2>1, <2>2, <2>3, <2>4, Rests
<1>4. CASE Resume(i)
  <2>. DEFINE u == Unpause(tr[i])
              full == ActiveCount([tr EXCEPT ![i] = u], tracked) > MaxActive
  <2>1. i \in tracked /\ tr[i].paused /\ tracked' = tracked /\ job' = job
    BY <1>4 DEF Resume
  <2>2. i \notin Queued /\ Resumable(tr[i])
    BY <1>0, <2>1 DEF Sound, Ready
  <2>3. /\ ~u.paused /\ ~u.spacePaused /\ u.t = tr[i].t /\ u.hold = tr[i].hold
        /\ tr[i].state = "errored" /\ ~tr[i].spacePaused => u.state = "errored"
    BY <1>0, <2>1, <2>2, UnpauseWork
  <2>4. u \in Tracked
    BY <1>0, EntryTypes
  <2>5. \/ tr' = [tr EXCEPT ![i] = Enqueue(u)] /\ Startable(u)
        \/ /\ tr' = [tr EXCEPT ![i] = u]
           /\ ~Startable(u) \/ u.state \notin {"checking", "downloading"} \/ ~full
    BY <1>4 DEF Resume, Startable
  <2>6. \A j \in Queued : j \in Ids \ {i} /\ tr[j].state \in {"queued", "errored"}
    BY <1>0, <2>2 DEF QueueInv, Sound, Ready
  <2>. HIDE DEF u, full
  <2>7. CASE tr' = [tr EXCEPT ![i] = Enqueue(u)] /\ Startable(u)
    <3>1. tr'[i] = Enqueue(u) /\ \A k \in Ids \ {i} : tr'[k] = tr[k]
      BY <1>0, <2>7
    <3>2. /\ Enqueue(u).state = "queued" /\ Enqueue(u).spacePaused = u.spacePaused
          /\ Enqueue(u).t = u.t /\ Enqueue(u).hold = u.hold
      BY <2>4 DEF Enqueue, Tracked
    <3>3. Worked(i)' /\ ~Busy(tr'[i])
      BY <2>3, <2>7, <3>1, <3>2 DEF Worked, Startable, Busy
    <3>. QED  BY <1>0, <2>1, <3>1, <3>2, <3>3, Rests
  <2>8. CASE /\ tr' = [tr EXCEPT ![i] = u]
             /\ ~Startable(u) \/ u.state \notin {"checking", "downloading"} \/ ~full
    <3>1. tr'[i] = u /\ \A k \in Ids \ {i} : tr'[k] = tr[k]
      BY <1>0, <2>8
    <3>2. Worked(i)'
      BY <1>0, <2>1, <2>3, <3>1 DEF Worked, Startable
    <3>3. WorkInv'
      BY <1>0, <2>1, <3>1, <3>2, WorkStep
    <3>4. SlotStep
      <4>1. CASE ~full
        <5>1. ActiveCount(tr', tracked') \in Nat /\ ~(ActiveCount(tr', tracked') > MaxActive)
          BY <1>0, <2>1, <2>8, <4>1, ActiveSets DEF full
        <5>. QED  BY <1>0, <5>1, MaxActiveAssumption, SlotCounted
      <4>2. CASE u.state \notin {"checking", "downloading"}
        <5>1. ~Busy(tr'[i])
          BY <3>1, <4>2 DEF Busy
        <5>. QED  BY <1>0, <2>1, <3>1, <5>1, SlotsShrink
      <4>3. CASE ~Startable(u) /\ u.state \in {"checking", "downloading"}
        <5>1. ~Startable(tr[i]) /\ tr[i].t = None /\ ~tr[i].spacePaused
          BY <1>0, <2>3, <4>3 DEF Startable, Worked
        <5>2. tr[i].state # "errored"
          BY <2>3, <4>3, <5>1
        <5>3. job[i].pc # "idle"
          BY <1>0, <2>1, <5>1, <5>2 DEF Worked
        <5>. QED  BY <2>1, <2>3, <3>1, <5>1, <5>3 DEF SlotStep
      <4>. QED  BY <2>8, <4>1, <4>2, <4>3
    <3>. QED  BY <2>6, <3>1, <3>3, <3>4 DEF HeadStarts
  <2>. QED  BY <2>5, <2>7, <2>8
<1>5. CASE Remove(i)
  <2>. DEFINE r == [tr[i] EXCEPT !.removed = TRUE]
  <2>1. tracked' = tracked \ {i} /\ job' = job /\ tr' = [tr EXCEPT ![i] = r]
    BY <1>0, <1>5 DEF Remove
  <2>2. r.t = tr[i].t /\ r.spacePaused = tr[i].spacePaused /\ r.state = tr[i].state
    BY <1>0 DEF Tracked
  <2>. HIDE DEF r
  <2>3. tr'[i] = r /\ \A k \in Ids \ {i} : tr'[k] = tr[k]
    BY <1>0, <2>1
  <2>4. Worked(i)'
    BY <1>0, <2>1, <2>2, <2>3 DEF Worked
  <2>. QED  BY <1>0, <2>1, <2>2, <2>3, <2>4, Rests
<1>6. CASE \E pos \in 0..Cardinality(Ids) : MoveInQueue(i, pos)
  BY <1>0, <1>6, RestsAll DEF MoveInQueue
<1>. QED  BY <1>1, <1>2, <1>3, <1>4, <1>5, <1>6 DEF User

LEMMA SlotRest ==
    ASSUME EngineInv, TypeInv', WorkInv,
           \/ \E i \in Ids : Sampler(i) \/ Swarm(i)
           \/ FinishResume \/ Promote \/ PauseForShutdown \/ CloseBegin \/ CloseEnd
    PROVE  WorkInv' /\ SlotStep /\ HeadStarts
<1>0. /\ tr \in [Ids -> Tracked] /\ job \in [Ids -> Job] /\ \A k \in Ids : tr[k] \in Tracked
      /\ TypeInv /\ QueueInv /\ tracked \subseteq Ids /\ tracked' \subseteq Ids /\ queue \in Seq(Ids)
      /\ \A k \in Ids : Sound(k) /\ Worked(k)
      /\ \A k \in Queued : k \in Ids /\ tr[k].state \in {"queued", "errored"}
  BY DEF EngineInv, TypeInv, TypeOK, QueueInv, WorkInv, Sound, Ready
<1>1. ASSUME tr' = tr, tracked' = tracked, job' = job PROVE WorkInv' /\ SlotStep /\ HeadStarts
  BY <1>0, <1>1, RestsAll
<1>2. ASSUME NEW i \in Ids, Sampler(i) PROVE WorkInv' /\ SlotStep /\ HeadStarts
  <2>. DEFINE d == [tr[i] EXCEPT !.paused = TRUE, !.spacePaused = TRUE,
                                 !.pre = "downloading", !.state = "errored"]
              u == [tr[i] EXCEPT !.state = "seeding"]
              s == [tr[i] EXCEPT !.paused = TRUE, !.seedDone = TRUE, !.pre = "seeding", !.state = "paused"]
              v == [u EXCEPT !.paused = TRUE, !.seedDone = TRUE, !.pre = "seeding", !.state = "paused"]
  <2>1. /\ tracked' = tracked /\ job' = job /\ tr[i].t # None
        /\ \E r \in {d, u, s, v} : tr' = [tr EXCEPT ![i] = r]
    BY <1>0, <1>2 DEF Sampler, SpacePause, ApplyPolicy
  <2>2. \A r \in {d, u, s, v} : r.t = tr[i].t /\ r.state \in {"errored", "seeding", "paused"}
    BY <1>0 DEF Tracked
  <2>. HIDE DEF d, u, s, v
  <2>3. tr'[i] \in {d, u, s, v} /\ \A k \in Ids \ {i} : tr'[k] = tr[k]
    BY <1>0, <2>1
  <2>4. Worked(i)' /\ ~Busy(tr'[i]) /\ tr'[i].state \notin {"checking", "downloading"}
    BY <2>1, <2>2, <2>3 DEF Worked, Startable, Busy
  <2>. QED  BY <1>0, <2>1, <2>3, <2>4, Rests
<1>3. ASSUME NEW o \in Ids, Swarm(o) PROVE WorkInv' /\ SlotStep /\ HeadStarts
  BY <1>1, <1>3 DEF Swarm, InfoArrives, Completes, Drop
<1>4. CASE FinishResume \/ CloseBegin \/ CloseEnd
  BY <1>1, <1>4 DEF FinishResume, CloseBegin, CloseEnd
<1>5. CASE PauseForShutdown
  <2>1. /\ tracked' = tracked /\ job' = job
        /\ \A k \in Ids : tr'[k] = tr[k] \/ tr'[k] = PauseEntry(tr[k])
    BY <1>5 DEF PauseForShutdown
  <2>2. \A r \in Tracked : /\ PauseEntry(r).paused /\ PauseEntry(r).t = r.t /\ PauseEntry(r).hold = r.hold
                           /\ PauseEntry(r).spacePaused = r.spacePaused
                           /\ PauseEntry(r).state = IF r.state = "errored" THEN "errored" ELSE "paused"
    <3>. SUFFICES ASSUME NEW r \in Tracked
                  PROVE  /\ PauseEntry(r).paused /\ PauseEntry(r).t = r.t /\ PauseEntry(r).hold = r.hold
                         /\ PauseEntry(r).spacePaused = r.spacePaused
                         /\ PauseEntry(r).state = IF r.state = "errored" THEN "errored" ELSE "paused"
      OBVIOUS
    <3>1. CASE r.state = "errored"
      BY <3>1 DEF PauseEntry, Tracked
    <3>2. CASE r.state # "errored"
      BY <3>2 DEF PauseEntry, Tracked
    <3>. QED  BY <3>1, <3>2
  <2>3. ASSUME NEW k \in Ids PROVE Worked(k)' /\ (Busy(tr'[k]) => Busy(tr[k]))
    BY <1>0, <2>1, <2>2 DEF Worked, Startable, Busy
  <2>4. WorkInv'
    BY <2>3 DEF WorkInv
  <2>5. SlotStep
    BY <1>0, <2>1, <2>3, SlotsShrink
  <2>6. HeadStarts
    BY <1>0, <2>1, <2>2 DEF HeadStarts
  <2>. QED  BY <2>4, <2>5, <2>6
<1>6. CASE Promote
  <2>1. PICK i \in Queued : i = NextUp /\ queue # <<>>
    BY <1>0, <1>6 DEF Promote, NextUp, Queued
  <2>2. i \in Ids /\ i \in tracked /\ tr[i] \in Tracked /\ job[i] \in Job
    BY <1>0, <2>1 DEF Sound
  <2>3. tracked' = tracked /\ HasSlot(tr, tracked)
    BY <1>6 DEF Promote
  <2>4. PICK st \in {"downloading", "checking"} :
          \/ /\ tr[i].t # None /\ job' = job
             /\ tr' = [tr EXCEPT ![i] = [tr[i] EXCEPT !.state = st]]
          \/ /\ tr' = [tr EXCEPT ![i] = [tr[i] EXCEPT !.state = st, !.hold = "none"]]
             /\ \/ job' = [job EXCEPT ![i].pc = "fetch"]
                \/ job' = [job EXCEPT ![i].pc = "attach", ![i].via = "promote"]
    BY <1>0, <1>6, <2>1, <2>2 DEF Promote
  <2>5. /\ tr'[i].spacePaused = tr[i].spacePaused /\ tr'[i].t = tr[i].t
        /\ tr[i].t # None \/ job'[i].pc # "idle"
        /\ \A k \in Ids \ {i} : tr'[k] = tr[k] /\ job'[k] = job[k]
    <3>1. CASE tr[i].t # None /\ job' = job /\ tr' = [tr EXCEPT ![i] = [tr[i] EXCEPT !.state = st]]
      <4>. DEFINE r == [tr[i] EXCEPT !.state = st]
      <4>1. r.spacePaused = tr[i].spacePaused /\ r.t = tr[i].t
        BY <2>2 DEF Tracked
      <4>. HIDE DEF r
      <4>2. tr'[i] = r /\ \A k \in Ids \ {i} : tr'[k] = tr[k]
        BY <1>0, <2>2, <3>1 DEF r
      <4>. QED  BY <3>1, <4>1, <4>2
    <3>2. CASE /\ tr' = [tr EXCEPT ![i] = [tr[i] EXCEPT !.state = st, !.hold = "none"]]
               /\ \/ job' = [job EXCEPT ![i].pc = "fetch"]
                  \/ job' = [job EXCEPT ![i].pc = "attach", ![i].via = "promote"]
      <4>. DEFINE r == [tr[i] EXCEPT !.state = st, !.hold = "none"]
      <4>1. r.spacePaused = tr[i].spacePaused /\ r.t = tr[i].t
        BY <2>2 DEF Tracked
      <4>. HIDE DEF r
      <4>2. tr'[i] = r /\ \A k \in Ids \ {i} : tr'[k] = tr[k]
        BY <1>0, <2>2, <3>2 DEF r
      <4>3. job'[i].pc \in {"fetch", "attach"} /\ \A k \in Ids \ {i} : job'[k] = job[k]
        BY <1>0, <2>2, <3>2 DEF Job
      <4>. QED  BY <4>1, <4>2, <4>3
    <3>. QED  BY <2>4, <3>1, <3>2
  <2>6. WorkInv'
    <3>1. Worked(i)'
      BY <1>0, <2>2, <2>5 DEF Worked, Startable
    <3>. QED  BY <1>0, <2>2, <2>3, <2>5, <3>1, WorkStep DEF WorkInv
  <2>7. SlotStep
    <3>1. \A k \in tracked' \ {i} : Busy(tr'[k]) => k \in tracked /\ Busy(tr[k])
      BY <1>0, <2>3, <2>5
    <3>. QED  BY <1>0, <2>2, <2>3, <3>1, SlotTaken
  <2>8. HeadStarts
    BY <1>0, <2>1, <2>5 DEF HeadStarts, NextUp
  <2>. QED  BY <2>6, <2>7, <2>8
<1>. QED
  BY <1>2, <1>3, <1>4, <1>5, <1>6

WorkingInv == EngineInv /\ WorkInv

LEMMA WorkingInit == Init => WorkingInv
<1>. SUFFICES ASSUME Init PROVE WorkInv
  BY TypeInit, QueueInit, ClientInit DEF WorkingInv, EngineInv
<1>1. tracked = {} /\ \A i \in Ids : ~tr[i].spacePaused
  BY DEF Init, NewTracked
<1>. QED  BY <1>1 DEF WorkInv, Worked

LEMMA WorkingStep ==
    ASSUME WorkingInv, [Next]_vars
    PROVE  WorkingInv' /\ SlotStep /\ HeadStarts
<1>1. EngineInv /\ WorkInv /\ EngineInv' /\ TypeInv'
  BY EngineStep, TypeStep DEF WorkingInv, EngineInv
<1>2. CASE \E i \in Ids : Start(i) \/ Await(i)
  BY <1>1, <1>2, SlotStart DEF WorkingInv
<1>3. CASE \E i \in Ids : User(i)
  BY <1>1, <1>3, SlotUser DEF WorkingInv
<1>4. CASE \/ \E i \in Ids : Sampler(i) \/ Swarm(i)
           \/ FinishResume \/ Promote \/ PauseForShutdown \/ CloseBegin \/ CloseEnd
  BY <1>1, <1>4, SlotRest DEF WorkingInv
<1>5. CASE UNCHANGED vars
  <2>1. tr' = tr /\ tracked' = tracked /\ job' = job
    BY <1>5 DEF vars
  <2>. QED  BY <1>1, <2>1, RestsAll DEF WorkingInv, EngineInv
<1>. QED  BY <1>2, <1>3, <1>4, <1>5 DEF Next

(***************************************************************************)
(* Adds, promotions, arriving metadata and the seed policy never take more *)
(* slots than there are, for any number of torrents and slots: every one   *)
(* of them counts in the critical section it starts in. What overshoots is *)
(* a Resume that does not wait, because its entry is being started.        *)
(***************************************************************************)
THEOREM SlotsBounded == Spec => SlotBound
<1>1. WorkingInv /\ [Next]_vars => WorkingInv' /\ [SlotStep]_vars
  BY WorkingStep
<1>2. [SlotStep]_vars => [ /\ ActiveCount(tr', tracked') > MaxActive
                           /\ ActiveCount(tr', tracked') > ActiveCount(tr, tracked)
                           => \E i \in Ids : job[i].pc # "idle" /\ tr[i].t = None /\ tr[i].paused /\ ~tr'[i].paused
                         ]_vars
  BY DEF SlotStep
<1>. QED  BY <1>1, <1>2, WorkingInit, PTL DEF Spec, SlotBound

(***************************************************************************)
(* Only a move changes the order of two torrents in the queue, and none    *)
(* starts while one before it still waits.                                 *)
(***************************************************************************)
THEOREM QueueInOrder == Spec => QueueOrder
<1>. DEFINE InTurn ==
       \A i, j \in Queued :
          Before(queue, i, j) =>
            /\ Before(queue', j, i) => Moves(i) \/ Moves(j)
            /\ j \in tracked' /\ tr'[j].state \in {"checking", "downloading"} => tr'[i].state # "queued"
<1>1. WorkingInv /\ [Next]_vars => WorkingInv' /\ [InTurn]_vars
  <2>. SUFFICES ASSUME WorkingInv, [Next]_vars, NEW i \in Queued, NEW j \in Queued, Before(queue, i, j)
                PROVE  /\ Before(queue', j, i) => Moves(i) \/ Moves(j)
                       /\ tr'[j].state \in {"checking", "downloading"} => tr'[i].state # "queued"
    BY WorkingStep
  <2>0. TypeInv /\ QueueInv /\ queue \in Seq(Ids) /\ Distinct(queue) /\ i \in Ids /\ j \in Ids
    BY DEF WorkingInv, EngineInv, TypeInv, TypeOK, QueueInv
  <2>1. ~Before(queue, j, i) /\ j # Head(queue)
    BY <2>0, OneWay
  <2>2. ASSUME Before(queue', j, i) PROVE Moves(i) \/ Moves(j)
    <3>1. ~Ordered
      BY <2>0, <2>1, <2>2, OrderKept
    <3>2. PICK x \in Ids : Moves(x)
      BY <2>0, <3>1, OrderedSteps
    <3>3. x = i \/ x = j
      BY <2>0, <2>1, <2>2, <3>2, MoveOrder
    <3>. QED  BY <3>2, <3>3
  <2>3. tr'[j].state \notin {"checking", "downloading"}
    BY <2>1, WorkingStep DEF HeadStarts
  <2>. QED  BY <2>2, <2>3
<1>. QED  BY <1>1, WorkingInit, PTL DEF Spec, QueueOrder
=============================================================================

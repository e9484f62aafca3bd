------------------------------- MODULE Store -------------------------------
(***************************************************************************)
(* The session database (internal/store): an in-memory copy that every     *)
(* call reads and changes under one lock, and a bbolt file that flush      *)
(* rewrites from a snapshot of it - taken under the lock, written outside  *)
(* it. The background loop, an explicit Flush, ClearHistory and Close all  *)
(* flush, so two snapshots may reach the file in either order. One bbolt   *)
(* transaction is one step. The process may crash between any two steps,   *)
(* and a later one opens the file again.                                   *)
(***************************************************************************)
EXTENDS Naturals, FiniteSets, Sequences

CONSTANTS
    Torrents,    \* ids of torrent records
    Records,     \* what a torrent record may say
    Prefs,       \* preferences SetPrefs may store
    Dirs,        \* download destinations
    None,        \* no record, no preferences
    MaxHistory,  \* maxHistoryEntries
    Calls,       \* subset of CallKinds
    MaxChanges,  \* bound on the changes made to the memory
    MaxCrashes   \* bound on the times the process ends

CallKinds == {"torrents", "history", "clear", "prefs", "dirs", "flush", "close", "timeout", "diskfails"}

ASSUME NoneAssumption == None \notin Records \cup Prefs
ASSUME HistoryAssumption == MaxHistory \in Nat \ {0}
ASSUME CallsAssumption == Calls \subseteq CallKinds
ASSUME BoundsAssumption == MaxChanges \in Nat /\ MaxCrashes \in Nat

\* Whoever flushes: the background loop, a caller of Flush, ClearHistory, Close.
Flushers == {"loop", "flush", "clear", "close"}

VARIABLES
    mem,       \* torrents, history, prefs and destinations in memory
    seq,       \* historySeq
    dirty,     \* memory may differ from the file
    closed,    \* Close was called
    disk,      \* what the bbolt file holds
    pc,        \* where each flusher is
    snap,      \* the snapshot a flusher is about to write
    flushErr,  \* Close's final flush failed: closeFlushErr
    clock,     \* changes made so far: the time an entry is recorded at
    clearing,  \* when the ClearHistory in progress emptied the memory
    cleared,   \* when the last ClearHistory that returned nil had done so
    crashes

vars == <<mem, seq, dirty, closed, disk, pc, snap, flushErr, clock, clearing, cleared, crashes>>

ghosts == <<clearing, cleared>>

----------------------------------------------------------------------------
(* The file. *)

\* load and writeHistory: the bucket is keyed by sequence number, so entries of
\* one number overwrite one another, and it reads back in their order.
ToBucket(history) ==
    {history[k] : k \in {m \in DOMAIN history :
                           \A l \in DOMAIN history : history[l].seq = history[m].seq => l <= m}}

FromBucket(bucket) ==
    [n \in 1 .. Cardinality(bucket) |->
        CHOOSE e \in bucket : Cardinality({f \in bucket : f.seq <= e.seq}) = n]

Image(m)  == [m EXCEPT !.history = ToBucket(@)]
Loaded(d) == [d EXCEPT !.history = FromBucket(@)]

Empty == [torrents |-> [t \in Torrents |-> None], history |-> <<>>,
          prefs |-> None, destinations |-> <<>>]

LastSeq(bucket) ==
    IF bucket = {} THEN 0 ELSE CHOOSE n \in {e.seq : e \in bucket} : \A e \in bucket : e.seq <= n

FileOpen == pc["close"] # "done"

----------------------------------------------------------------------------
(* The calls that change the memory. *)

Change ==
    /\ clock < MaxChanges
    /\ clock' = clock + 1
    /\ ~closed

\* A change to m, to be flushed some time.
Changed(m) ==
    /\ mem' = m
    /\ dirty' = TRUE

SetTorrent(t, r) ==
    /\ "torrents" \in Calls
    /\ Change
    /\ Changed([mem EXCEPT !.torrents[t] = r])
    /\ UNCHANGED <<seq, closed, disk, pc, snap, flushErr, ghosts, crashes>>

\* Mutant: the deletion is not marked for the next flush.
DeleteTorrentClean(t) ==
    /\ "torrents" \in Calls
    /\ Change
    /\ mem.torrents[t] # None
    /\ mem' = [mem EXCEPT !.torrents[t] = None]
    /\ UNCHANGED <<dirty, seq, closed, disk, pc, snap, flushErr, ghosts, crashes>>

DeleteTorrent(t) ==
    /\ "torrents" \in Calls
    /\ Change
    /\ mem.torrents[t] # None
    /\ Changed([mem EXCEPT !.torrents[t] = None])
    /\ UNCHANGED <<seq, closed, disk, pc, snap, flushErr, ghosts, crashes>>

\* The last MaxHistory entries are kept.
Trimmed(history) ==
    SubSeq(history, IF Len(history) > MaxHistory THEN Len(history) - MaxHistory + 1 ELSE 1, Len(history))

AddHistory ==
    /\ "history" \in Calls
    /\ Change
    /\ seq' = seq + 1
    /\ Changed([mem EXCEPT !.history = Trimmed(Append(@, [seq |-> seq + 1, at |-> clock + 1]))])
    /\ UNCHANGED <<closed, disk, pc, snap, flushErr, ghosts, crashes>>

SetPrefs(p) ==
    /\ "prefs" \in Calls
    /\ Change
    /\ Changed([mem EXCEPT !.prefs = p])
    /\ UNCHANGED <<seq, closed, disk, pc, snap, flushErr, ghosts, crashes>>

\* TouchDestination: to the front, once.
TouchDestination(d) ==
    /\ "dirs" \in Calls
    /\ Change
    /\ Changed([mem EXCEPT !.destinations = <<d>> \o SelectSeq(@, LAMBDA x : x # d)])
    /\ UNCHANGED <<seq, closed, disk, pc, snap, flushErr, ghosts, crashes>>

----------------------------------------------------------------------------
(* flush. *)

\* Where a flusher goes on once its write is over.
After == [loop |-> "idle", flush |-> "idle", clear |-> "idle", close |-> "file"]

\* The snapshot, under the lock.
Snapshot(p) ==
    /\ dirty
    /\ pc' = [pc EXCEPT ![p] = "write"]
    /\ snap' = [snap EXCEPT ![p] = mem]

\* What the caller learns when its write is over.
Learns(p, failed) ==
    /\ flushErr' = IF p = "close" THEN failed ELSE flushErr
    /\ cleared' = IF p = "clear" /\ ~failed THEN clearing ELSE cleared

\* Mutant: a successful flush marks the memory clean.
WriteCleans(p) ==
    /\ pc[p] = "write"
    /\ FileOpen
    /\ disk' = Image(snap[p])
    /\ dirty' = FALSE
    /\ pc' = [pc EXCEPT ![p] = After[p]]
    /\ Learns(p, FALSE)
    /\ UNCHANGED <<mem, seq, closed, snap, clock, clearing, crashes>>

\* The transaction, outside the lock. dirty is never cleared once set.
Write(p) ==
    /\ pc[p] = "write"
    /\ FileOpen
    /\ disk' = Image(snap[p])
    /\ pc' = [pc EXCEPT ![p] = After[p]]
    /\ Learns(p, FALSE)
    /\ UNCHANGED <<mem, seq, dirty, closed, snap, clock, clearing, crashes>>

\* The transaction fails: the disk's fault, or Close has closed the file. A
\* ClearHistory that finds it closed reports how Close's own flush went.
WriteFails(p) ==
    /\ pc[p] = "write"
    /\ ~FileOpen \/ "diskfails" \in Calls
    /\ dirty' = TRUE
    /\ pc' = [pc EXCEPT ![p] = After[p]]
    /\ Learns(p, IF p = "clear" /\ ~FileOpen THEN flushErr ELSE TRUE)
    /\ UNCHANGED <<mem, seq, closed, disk, snap, clock, clearing, crashes>>

\* A tick of the background loop. It may still win over stopFlush.
Tick ==
    /\ pc["loop"] = "idle"
    /\ Snapshot("loop")
    /\ UNCHANGED <<mem, seq, dirty, closed, disk, flushErr, clock, ghosts, crashes>>

\* The loop sees stopFlush and returns: flushDone.
StopLoop ==
    /\ pc["loop"] = "idle"
    /\ pc["close"] = "stop"
    /\ pc' = [pc EXCEPT !["loop"] = "stopped"]
    /\ UNCHANGED <<mem, seq, dirty, closed, disk, snap, flushErr, clock, ghosts, crashes>>

\* Flush: its one caller in the program is the shutdown sequence, before Close.
Flush ==
    /\ "flush" \in Calls
    /\ ~closed
    /\ pc["flush"] = "idle"
    /\ Snapshot("flush")
    /\ UNCHANGED <<mem, seq, dirty, closed, disk, flushErr, clock, ghosts, crashes>>

\* ClearHistory empties the history under the lock ...
ClearHistory ==
    /\ "clear" \in Calls
    /\ pc["clear"] = "idle"
    /\ Change
    /\ Changed([mem EXCEPT !.history = <<>>])
    /\ pc' = [pc EXCEPT !["clear"] = "flush"]
    /\ clearing' = clock'
    /\ UNCHANGED <<seq, closed, disk, snap, flushErr, cleared, crashes>>

\* ... and then flushes; a Close may land between the two.
ClearSnapshot ==
    /\ pc["clear"] = "flush"
    /\ Snapshot("clear")
    /\ UNCHANGED <<mem, seq, dirty, closed, disk, flushErr, clock, ghosts, crashes>>

----------------------------------------------------------------------------
(* Close, crash, restart. *)

\* Shutdown calls Close once its flush step is over - or has timed out and was
\* left running.
Close ==
    /\ "close" \in Calls
    /\ ~closed
    /\ pc["flush"] = "idle" \/ "timeout" \in Calls
    /\ closed' = TRUE
    /\ pc' = [pc EXCEPT !["close"] = "stop"]
    /\ UNCHANGED <<mem, seq, dirty, disk, snap, flushErr, clock, ghosts, crashes>>

\* Mutant: the final flush does not wait for the loop's.
FinalFlushAtOnce ==
    /\ pc["close"] = "stop"
    /\ IF dirty THEN Snapshot("close")
       ELSE pc' = [pc EXCEPT !["close"] = "file"] /\ UNCHANGED snap
    /\ UNCHANGED <<mem, seq, dirty, closed, disk, flushErr, clock, ghosts, crashes>>

\* The loop has stopped: the final flush.
FinalFlush ==
    /\ pc["close"] = "stop"
    /\ pc["loop"] = "stopped"
    /\ IF dirty THEN Snapshot("close")
       ELSE pc' = [pc EXCEPT !["close"] = "file"] /\ UNCHANGED snap
    /\ UNCHANGED <<mem, seq, dirty, closed, disk, flushErr, clock, ghosts, crashes>>

\* db.Close. A Flush or ClearHistory still to write will find it closed.
CloseFile ==
    /\ pc["close"] = "file"
    /\ pc' = [pc EXCEPT !["close"] = "done"]
    /\ UNCHANGED <<mem, seq, dirty, closed, disk, snap, flushErr, clock, ghosts, crashes>>

\* The process ends, whatever it was doing, and another one opens the file.
Restart ==
    /\ crashes < MaxCrashes
    /\ crashes' = crashes + 1
    /\ mem' = Loaded(disk)
    /\ seq' = LastSeq(disk.history)
    /\ dirty' = FALSE
    /\ closed' = FALSE
    /\ pc' = [p \in Flushers |-> "idle"]
    /\ snap' = [p \in Flushers |-> Empty]
    /\ flushErr' = FALSE
    /\ clearing' = 0
    /\ cleared' = 0
    /\ UNCHANGED <<disk, clock>>

----------------------------------------------------------------------------

Init ==
    /\ mem = Empty
    /\ disk = Image(Empty)
    /\ seq = 0 /\ clock = 0 /\ clearing = 0 /\ cleared = 0 /\ crashes = 0
    /\ dirty = FALSE /\ closed = FALSE /\ flushErr = FALSE
    /\ pc = [p \in Flushers |-> "idle"]
    /\ snap = [p \in Flushers |-> Empty]

Set ==
    \/ \E t \in Torrents : DeleteTorrent(t) \/ \E r \in Records : SetTorrent(t, r)
    \/ AddHistory
    \/ \E p \in Prefs : SetPrefs(p)
    \/ \E d \in Dirs : TouchDestination(d)

Next ==
    \/ Set
    \/ \E p \in Flushers : Write(p) \/ WriteFails(p)
    \/ Tick \/ StopLoop \/ Flush \/ ClearHistory \/ ClearSnapshot
    \/ Close \/ FinalFlush \/ CloseFile
    \/ Restart

Spec == Init /\ [][Next]_vars

(***************************************************************************)
(* The ticker goes on ticking, a flush that has started is carried on by   *)
(* its goroutine, and a disk that fails does not fail for ever.            *)
(***************************************************************************)
FairSpec ==
    /\ Spec
    /\ WF_vars(Tick)
    /\ \A p \in Flushers : SF_vars(Write(p))

----------------------------------------------------------------------------
(* What the store promises. *)

TypeOK ==
    /\ mem \in [torrents : [Torrents -> Records \cup {None}],
                history : Seq([seq : Nat, at : Nat]),
                prefs : Prefs \cup {None}, destinations : Seq(Dirs)]
    /\ seq \in Nat /\ clock \in 0..MaxChanges
    /\ dirty \in BOOLEAN /\ closed \in BOOLEAN /\ flushErr \in BOOLEAN
    /\ disk.history \subseteq [seq : Nat, at : Nat]
    /\ pc["loop"] \in {"idle", "write", "stopped"} /\ pc["flush"] \in {"idle", "write"}
    /\ pc["clear"] \in {"idle", "flush", "write"}
    /\ pc["close"] \in {"idle", "stop", "write", "file", "done"}
    /\ Len(mem.history) <= MaxHistory

(***************************************************************************)
(* flush does nothing for a clean store: a store that is not dirty has     *)
(* nothing the file lacks, in any of its buckets.                          *)
(***************************************************************************)
CleanIsSaved == ~dirty => disk = Image(mem)

(***************************************************************************)
(* Entries are keyed on disk by historySeq "so re-flushing preserves       *)
(* order": over any number of restarts, no entry takes an older one's      *)
(* number, and what the file holds reads back as the memory it is an image *)
(* of, newest last.                                                        *)
(***************************************************************************)
HistoryOrdered ==
    /\ \A k, l \in DOMAIN mem.history :
          k < l => mem.history[k].seq < mem.history[l].seq /\ mem.history[k].at < mem.history[l].at
    /\ \A k \in DOMAIN mem.history : mem.history[k].seq <= seq
    /\ FromBucket(ToBucket(mem.history)) = mem.history

(***************************************************************************)
(* What a clean store has in memory is in the file, and reads back in order *)
(* after a restart (dirty, historySeq and the flush that clears the one and *)
(* writes the other).                                                      *)
(***************************************************************************)
Durable == CleanIsSaved /\ HistoryOrdered

(***************************************************************************)
(* ClearHistory: "A Close racing it returns Close's final-flush outcome:   *)
(* nil when that flush saved the clear". After a Close whose flush did not *)
(* fail, whatever was flushing meanwhile, no entry a ClearHistory that     *)
(* returned nil had removed is in the file. (A flush step that timed out   *)
(* is not waited for, and is left out of this promise.)                    *)
(***************************************************************************)
CloseKeepsClear ==
    pc["close"] = "done" /\ ~flushErr => \A e \in disk.history : e.at > cleared

\* The store is open and no process has been lost since the last change.
Behind == ~closed /\ disk # Image(mem)

(***************************************************************************)
(* Every change reaches the file while the store stays open, although a    *)
(* change may come between a flush's snapshot and its write, writes may    *)
(* land in either order and may fail.                                      *)
(***************************************************************************)
CatchesUp == Behind ~> ~Behind

(***************************************************************************)
(* ClearHistory "flushes the empty history to disk before returning, so    *)
(* the clear survives a crash or restart": once it has returned nil, the   *)
(* file holds no entry older than the clear.                               *)
(***************************************************************************)
ClearSurvives == \A e \in disk.history : e.at > cleared

=============================================================================

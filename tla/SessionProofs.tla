--------------------------- MODULE SessionProofs ---------------------------
(***************************************************************************)
(* The session, for any torrents and infohashes, any commands and any      *)
(* number of starts: what its records say of the user's pauses, which      *)
(* records a Save or a Shutdown may drop, and what the file holds once the *)
(* saves the commands asked for are done.                                  *)
(***************************************************************************)
EXTENDS Session, TLAPS

USE DEF session, ui, store, engine, ending, given, forgotten

----------------------------------------------------------------------------
(* The shape of the state. *)

Entries == [tracked : BOOLEAN, refused : BOOLEAN, paused : BOOLEAN, user : BOOLEAN]

Commands == [op : Ops, id : Ids]

Works == [todo : SUBSET Ids, cur : Ids \cup {None}, rec : Records \cup {None},
          tracked : SUBSET Ids, failed : SUBSET Ids]

Types ==
    /\ phase \in Phases
    /\ eng \in [Ids -> Entries] /\ minted \subseteq Ids
    /\ engClosed \in BOOLEAN /\ stClosed \in BOOLEAN
    /\ resumed \in BOOLEAN /\ closed \in BOOLEAN /\ late \in BOOLEAN
    /\ recs \in [Ids -> Records \cup {None}] /\ disk \in [Ids -> Records \cup {None}]
    /\ lock \in {"free", "resume", "save", "close"}
    /\ work \in Works /\ waiting \in Nat
    /\ cmds \subseteq Commands /\ results \subseteq Commands
    /\ step \in Steps \cup {"none"} /\ ran \in [Steps -> {"idle", "running", "done"}]
    /\ shown \in [Ids -> {"none", "paused", "running"}]

\* A Save lists the engine and writes while it holds the lock.
Saving == lock \in {"save", "close"}

\* Resume holds the lock until the program runs; only a session that was
\* resumed has commands and Saves.
LockInv ==
    /\ phase = "resuming" <=> lock = "resume"
    /\ phase = "resuming" => ~resumed /\ work.todo \subseteq Recorded(recs)
    /\ phase = "running" => resumed
    /\ phase \in {"stopping", "down"} => step \in Steps
    /\ cmds \cup results # {} => resumed
    /\ Saving => resumed
    /\ ~Saving => work.cur = None
    /\ work.cur # None => work.rec # None /\ work.cur \in work.tracked

Base == Types /\ LockInv

----------------------------------------------------------------------------
(* What a command does to the engine, one way each. *)

\* The call fails: the engine is closed, or has no such torrent.
Fails(c) ==
    /\ UNCHANGED <<eng, results, minted, removed, replaced>>

\* An Add of a live infohash.
Joins(c) ==
    /\ c.op = "add"
    /\ results' = results \cup {[op |-> "add", id |-> j] : j \in Live(c.id)}
    /\ UNCHANGED <<eng, minted, removed, replaced>>

\* Any other command that takes, and the entries it makes.
Takes(c, entries, gone, taken) ==
    /\ ~engClosed
    /\ eng' = [j \in Ids |-> entries[j]]
    /\ results' = results \cup {c}
    /\ minted' = minted \cup {c.id}
    /\ removed' = removed \cup gone
    /\ replaced' = replaced \cup taken

Adds(c) ==
    /\ c.op = "add" /\ c.id \notin minted
    /\ Takes(c, [j \in Ids |-> IF j = c.id THEN [Absent EXCEPT !.tracked = TRUE]
                               ELSE IF j \in Alike(c.id) THEN Absent ELSE eng[j]], {}, Alike(c.id))

Pauses(c) ==
    /\ c.op = "pause" /\ c.id \in Tracked
    /\ Takes(c, IF eng[c.id].paused THEN eng ELSE [eng EXCEPT ![c.id].paused = TRUE, ![c.id].user = TRUE], {}, {})

Unpauses(c) ==
    /\ c.op = "resume" /\ c.id \in Tracked
    /\ Takes(c, [eng EXCEPT ![c.id].paused = FALSE, ![c.id].user = FALSE], {}, {})

Removes(c) ==
    /\ c.op = "remove" /\ c.id \in Tracked
    /\ Takes(c, [eng EXCEPT ![c.id] = Absent], {c.id}, {})

Taken(c) == Adds(c) \/ Pauses(c) \/ Unpauses(c) \/ Removes(c)

LEMMA ExecuteTakes ==
    ASSUME Types, NEW c \in cmds, Execute(c)
    PROVE  /\ cmds' = cmds \ {c} /\ phase \in {"running", "stopping"}
           /\ UNCHANGED <<phase, commands, shown, pausedByUser, session, store, engClosed, ending, given>>
           /\ Fails(c) \/ Joins(c) \/ Taken(c)
<1>1. c.op \in Ops /\ c.id \in Ids /\ \A f : f \in [Ids -> Entries] => f = [j \in Ids |-> f[j]]
  BY DEF Types, Commands
<1>. DEFINE known == c.op = "add" /\ Live(c.id) # {}
            ok == ~engClosed /\ (IF c.op = "add" THEN c.id \notin minted ELSE c.id \in Tracked)
<1>2. CASE ~ok
  <2>1. CASE known
    BY <1>2, <2>1 DEF Execute, Fails
  <2>2. CASE ~known
    BY <1>2, <2>2 DEF Execute, Fails
  <2>. QED  BY <1>2, <2>1, <2>2 DEF Execute, Fails
<1>3. CASE ok /\ known
  BY <1>3 DEF Execute, Joins
<1>4. CASE ok /\ ~known
  <2>1. CASE c.op = "add"
    BY <1>1, <1>4, <2>1 DEF Execute, Taken, Adds, Takes
  <2>2. CASE c.op = "pause"
    BY <1>1, <1>4, <2>2 DEF Execute, Taken, Pauses, Takes, Types
  <2>3. CASE c.op = "resume"
    BY <1>1, <1>4, <2>3 DEF Execute, Taken, Unpauses, Takes, Types
  <2>4. CASE c.op = "remove"
    BY <1>1, <1>4, <2>4 DEF Execute, Taken, Removes, Takes, Types
  <2>. QED  BY <1>1, <2>1, <2>2, <2>3, <2>4 DEF Ops
<1>. QED  BY <1>2, <1>3, <1>4 DEF Execute

----------------------------------------------------------------------------
(* Types. *)

LEMMA LiveIds == Tracked \subseteq Ids /\ \A i : Alike(i) \subseteq Ids /\ Live(i) \subseteq Ids
BY DEF Tracked, Alike, Live

LEMMA TypesStep == Base /\ [Next]_vars => Types'
<1>. SUFFICES ASSUME Types, LockInv, [Next]_vars PROVE Types'
  BY DEF Base
<1>0. /\ Absent \in Entries /\ [Absent EXCEPT !.tracked = TRUE] \in Entries /\ Idle \in Works
      /\ \A x : Told(x) \in {"paused", "running"}
  BY DEF Absent, Entries, Idle, Works, Told
<1>1. CASE RestoreNext
  <2>1. PICK i \in work.todo :
          /\ Restored(i) \/ RestoredErrored(i) \/ DropDuplicate(i)
          /\ work' = [work EXCEPT !.todo = @ \ {i}]
          /\ minted' = minted \cup {i}
    BY <1>1 DEF RestoreNext
  <2>2. i \in Ids /\ work' \in Works
    BY <2>1 DEF Types, Works
  <2>4. recs[i].paused \in BOOLEAN
    <3>1. i \in Recorded(recs)
      BY <1>1, <2>1 DEF RestoreNext, LockInv
    <3>2. recs[i] \in Records
      BY <2>2, <3>1 DEF Recorded, Types
    <3>. QED  BY <3>2 DEF Records
  <2>3. eng' \in [Ids -> Entries] /\ shown' \in [Ids -> {"none", "paused", "running"}]
        /\ recs' \in [Ids -> Records \cup {None}]
    <3>1. CASE Restored(i)
      <4>. DEFINE e == [tracked |-> TRUE, refused |-> FALSE, paused |-> recs[i].paused, user |-> recs[i].paused]
      <4>1. e \in Entries
        BY <2>4 DEF Entries
      <4>. HIDE DEF e
      <4>2. eng' = [j \in Ids |-> IF j = i THEN e ELSE IF j \in Alike(i) THEN Absent ELSE eng[j]]
        BY <3>1 DEF Restored, e
      <4>3. eng' \in [Ids -> Entries]
        BY <1>0, <4>1, <4>2 DEF Types
      <4>4. shown' \in [Ids -> {"none", "paused", "running"}] /\ recs' = recs
        BY <1>0, <3>1 DEF Restored, Types
      <4>. QED  BY <4>3, <4>4 DEF Types
    <3>2. CASE RestoredErrored(i)
      <4>. DEFINE e == [tracked |-> TRUE, refused |-> TRUE, paused |-> recs[i].paused, user |-> recs[i].paused]
      <4>1. e \in Entries
        BY <2>4 DEF Entries
      <4>. HIDE DEF e
      <4>2. eng' = [eng EXCEPT ![i] = e]
        BY <3>2 DEF RestoredErrored, e
      <4>3. eng' \in [Ids -> Entries]
        BY <2>2, <4>1, <4>2 DEF Types
      <4>4. shown' \in [Ids -> {"none", "paused", "running"}] /\ recs' = recs
        BY <1>0, <2>2, <3>2 DEF RestoredErrored, Types
      <4>. QED  BY <4>3, <4>4 DEF Types
    <3>3. CASE DropDuplicate(i)
      BY <2>2, <3>3 DEF DropDuplicate, Types
    <3>. QED  BY <2>1, <3>1, <3>2, <3>3
  <2>. QED  BY <1>1, <2>1, <2>2, <2>3 DEF RestoreNext, Types
<1>2. CASE Resumed
  BY <1>0, <1>2 DEF Resumed, Types, Phases
<1>3. CASE ResumeFails
  BY <1>0, <1>3 DEF ResumeFails, BeginShutdown, Types, Phases, Steps
<1>4. ASSUME NEW op \in Ops, NEW i \in Ids, Dispatch(op, i) PROVE Types'
  BY <1>4 DEF Dispatch, Types, Commands
<1>5. ASSUME NEW c \in cmds, Execute(c) PROVE Types'
  <2>1. c \in Commands /\ c.id \in Ids
    BY DEF Types, Commands
  <2>2. cmds' \subseteq Commands
    BY <1>5, ExecuteTakes DEF Types
  <2>3. eng' \in [Ids -> Entries] /\ results' \subseteq Commands /\ minted' \subseteq Ids
    <3>1. CASE Fails(c)
      BY <3>1 DEF Fails, Types
    <3>2. CASE Joins(c)
      BY <3>2, LiveIds DEF Joins, Types, Commands, Ops
    <3>3. CASE Adds(c)
      BY <1>0, <2>1, <3>3 DEF Adds, Takes, Types
    <3>4. CASE Pauses(c)
      BY <2>1, <3>4 DEF Pauses, Takes, Types, Entries
    <3>5. CASE Unpauses(c)
      BY <2>1, <3>5 DEF Unpauses, Takes, Types, Entries
    <3>6. CASE Removes(c)
      BY <1>0, <2>1, <3>6 DEF Removes, Takes, Types
    <3>. QED  BY <1>5, <3>1, <3>2, <3>3, <3>4, <3>5, <3>6, ExecuteTakes DEF Taken
  <2>. QED  BY <1>5, <2>2, <2>3, ExecuteTakes DEF Types
<1>6. ASSUME NEW c \in results, Handle(c) PROVE Types'
  <2>1. c.id \in Ids /\ [paused |-> FALSE, mine |-> TRUE] \in Records
    BY DEF Types, Commands, Records
  <2>2. recs' \in [Ids -> Records \cup {None}]
    BY <1>6, <2>1 DEF Handle, Types
  <2>3. shown' \in [Ids -> {"none", "paused", "running"}]
    BY <1>6 DEF Handle, Sees, Types
  <2>. QED  BY <1>6, <2>2, <2>3 DEF Handle, Types
<1>7. CASE SaveBegins
  <2>1. work' \in Works /\ lock' \in {"free", "resume", "save", "close"}
    BY <1>0, <1>7, LiveIds DEF SaveBegins, List, Idle, Works, Types
  <2>2. waiting' \in Nat
    BY <1>7 DEF SaveBegins, Types
  <2>. QED  BY <1>7, <2>1, <2>2 DEF SaveBegins, Types
<1>8. ASSUME NEW i \in Ids, SaveReads(i) PROVE Types'
  <2>1. [paused |-> eng[i].user, mine |-> recs[i] # None /\ recs[i].mine] \in Records
    <3>1. eng[i].user \in BOOLEAN
      BY DEF Types, Entries
    <3>2. (recs[i] # None /\ recs[i].mine) \in BOOLEAN
      OBVIOUS
    <3>. QED  BY <3>1, <3>2 DEF Records
  <2>2. work' \in Works
    BY <1>8, <2>1 DEF SaveReads, Works, Types
  <2>. QED  BY <1>8, <2>2 DEF SaveReads, Types
<1>9. CASE SaveWrites
  <2>1. work' \in Works
    BY <1>9 DEF SaveWrites, Works, Types
  <2>2. recs' \in [Ids -> Records \cup {None}]
    BY <1>9 DEF SaveWrites, Works, Types
  <2>. QED  BY <1>9, <2>1, <2>2 DEF SaveWrites, Types
<1>10. CASE SavePrunes
  BY <1>0, <1>10 DEF SavePrunes, Types
<1>11. CASE Flush \/ Quit
  BY <1>11 DEF Flush, Quit, BeginShutdown, Types, Phases, Steps
<1>12. CASE PauseAll
  <2>1. eng' \in [Ids -> Entries]
    BY <1>12 DEF PauseAll, Types, Entries
  <2>. QED  BY <1>12, <2>1 DEF PauseAll, Finish, Types
<1>13. CASE CloseBegins
  <2>1. work' \in Works
    BY <1>0, <1>13, LiveIds DEF CloseBegins, List, Idle, Works, Types
  <2>. QED  BY <1>13, <2>1 DEF CloseBegins, List, Finish, Types
<1>14. CASE FlushStep \/ CloseEngine \/ CloseStore
  BY <1>14 DEF FlushStep, CloseEngine, CloseStore, Finish, Types
<1>15. CASE NextStep
  <2>1. step' \in Steps \cup {"none"} /\ ran' \in [Steps -> {"idle", "running", "done"}]
    BY <1>15 DEF NextStep, After, Types, LockInv, Steps
  <2>2. closed' \in BOOLEAN
    BY <1>15 DEF NextStep
  <2>. QED  BY <1>15, <2>1, <2>2 DEF NextStep, Types, Phases
<1>16. CASE Restart
  <2>1. work' \in Works
    BY <1>16 DEF Restart, Start, Idle, Works, Recorded
  <2>. QED  BY <1>0, <1>16, <2>1 DEF Restart, Start, Types, Phases
<1>17. CASE UNCHANGED vars
  BY <1>17 DEF vars, Types
<1>. QED
  BY <1>1, <1>2, <1>3, <1>4, <1>5, <1>6, <1>7, <1>8, <1>9, <1>10, <1>11, <1>12, <1>13, <1>14, <1>15, <1>16, <1>17
  DEF Next, Command, Save, Shutdown

LEMMA LockStep == Base /\ [Next]_vars => LockInv'
<1>. SUFFICES ASSUME Types, LockInv, [Next]_vars PROVE LockInv'
  BY DEF Base
<1>0. Idle.cur = None /\ DOMAIN recs = Ids
  BY DEF Idle, Types
<1>1. CASE RestoreNext
  <2>1. PICK i \in work.todo :
          /\ Restored(i) \/ RestoredErrored(i) \/ DropDuplicate(i)
          /\ work' = [work EXCEPT !.todo = @ \ {i}]
    BY <1>1 DEF RestoreNext
  <2>2. work'.todo = work.todo \ {i} /\ work'.cur = work.cur
    BY <2>1 DEF Types, Works
  <2>3. \A j \in Ids \ {i} : recs'[j] = recs[j]
    BY <2>1 DEF Restored, RestoredErrored, DropDuplicate, Types
  <2>4. work'.todo \subseteq Recorded(recs')
    BY <1>1, <2>2, <2>3 DEF LockInv, Recorded, RestoreNext
  <2>. QED  BY <1>1, <2>2, <2>4 DEF RestoreNext, LockInv, Saving
<1>2. CASE Resumed
  BY <1>0, <1>2 DEF Resumed, LockInv, Saving
<1>3. CASE ResumeFails
  BY <1>0, <1>3 DEF ResumeFails, BeginShutdown, LockInv, Saving, Steps
<1>4. ASSUME NEW op \in Ops, NEW i \in Ids, Dispatch(op, i) PROVE LockInv'
  BY <1>4 DEF Dispatch, LockInv, Saving
<1>5. ASSUME NEW c \in cmds, Execute(c) PROVE LockInv'
  <2>1. phase \in {"running", "stopping"} /\ resumed
    BY <1>5 DEF Execute, LockInv
  <2>. QED  BY <1>5, <2>1 DEF Execute, LockInv, Saving
<1>6. ASSUME NEW c \in results, Handle(c) PROVE LockInv'
  BY <1>6 DEF Handle, LockInv, Saving
<1>7. CASE SaveBegins
  <2>1. work'.cur = None
    BY <1>7, <1>0 DEF SaveBegins, List, Idle, LockInv, Saving
  <2>. QED  BY <1>7, <2>1 DEF SaveBegins, List, LockInv, Saving, Saves, Alive
<1>8. ASSUME NEW i \in Ids, SaveReads(i) PROVE LockInv'
  <2>1. work'.cur # None => work'.rec # None /\ work'.cur \in work'.tracked
    <3>1. CASE engClosed \/ i \notin Tracked
      BY <1>8, <3>1 DEF SaveReads, Types, Works
    <3>2. CASE ~(engClosed \/ i \notin Tracked)
      <4>. DEFINE r == [paused |-> eng[i].user, mine |-> recs[i] # None /\ recs[i].mine]
      <4>1. r \in Records
        <5>1. eng[i].user \in BOOLEAN
          BY DEF Types, Entries
        <5>2. (recs[i] # None /\ recs[i].mine) \in BOOLEAN
          OBVIOUS
        <5>. QED  BY <5>1, <5>2 DEF Records
      <4>. HIDE DEF r
      <4>2. work' = [work EXCEPT !.todo = @ \ {i}, !.tracked = @ \cup {i}, !.cur = i, !.rec = r]
        BY <1>8, <3>2 DEF SaveReads, r
      <4>. QED  BY <4>1, <4>2, NoneAssumption DEF Types, Works
    <3>. QED  BY <3>1, <3>2
  <2>. QED  BY <1>8, <2>1 DEF SaveReads, LockInv, Saving, Alive
<1>9. CASE SaveWrites
  <2>1. work'.cur = None
    BY <1>9 DEF SaveWrites, Types, Works
  <2>. QED  BY <1>9, <2>1 DEF SaveWrites, LockInv, Saving, Alive
<1>10. CASE SavePrunes
  BY <1>0, <1>10 DEF SavePrunes, LockInv, Saving, Alive
<1>11. CASE Flush \/ Quit
  BY <1>11 DEF Flush, Quit, BeginShutdown, LockInv, Saving, Steps
<1>12. CASE PauseAll \/ FlushStep \/ CloseEngine \/ CloseStore
  BY <1>12 DEF PauseAll, FlushStep, CloseEngine, CloseStore, LockInv, Saving
<1>13. CASE CloseBegins
  <2>1. work'.cur = None
    BY <1>0, <1>13 DEF CloseBegins, List, Idle, LockInv, Saving
  <2>. QED  BY <1>13, <2>1 DEF CloseBegins, List, LockInv, Saving, Saves, Running
<1>14. CASE NextStep
  BY <1>14 DEF NextStep, After, LockInv, Saving, Steps
<1>15. CASE Restart
  <2>1. work'.cur = None /\ work'.todo = Recorded(recs')
    BY <1>15 DEF Restart, Start, Idle
  <2>. QED  BY <1>15, <2>1 DEF Restart, Start, LockInv, Saving
<1>16. CASE UNCHANGED vars
  BY <1>16 DEF vars, LockInv, Saving
<1>. QED
  BY <1>1, <1>2, <1>3, <1>4, <1>5, <1>6, <1>7, <1>8, <1>9, <1>10, <1>11, <1>12, <1>13, <1>14, <1>15, <1>16
  DEF Next, Command, Save, Shutdown

LEMMA BaseStep == Base /\ [Next]_vars => Base'
BY TypesStep, LockStep DEF Base

LEMMA BaseInit == Init => Base
<1>. SUFFICES ASSUME Init PROVE Base
  OBVIOUS
<1>1. disk \in [Ids -> Records \cup {None}]
  BY SavedAssumption DEF Init
<1>2. Absent \in Entries
  BY DEF Absent, Entries
<1>3. work \in Works /\ work.cur = None /\ work.todo = Recorded(recs)
  BY DEF Init, Idle, Works, Recorded
<1>4. Types
  BY <1>1, <1>2, <1>3 DEF Init, Types, Phases
<1>5. LockInv
  BY <1>3 DEF Init, LockInv, Saving
<1>. QED  BY <1>4, <1>5 DEF Base

----------------------------------------------------------------------------
(* Which records there are. *)

\* What the user removed, and what gave its place to another of its infohash.
Gone == removed \cup replaced

(***************************************************************************)
(* A record is of a torrent this process has met, which is tracked or      *)
(* gone; a Save has listed every torrent that has one, since a torrent     *)
(* added after the listing is recorded under the same lock. What the       *)
(* holder of the lock is about to write was read under it too.             *)
(***************************************************************************)
RecordInv ==
    /\ Recorded(disk) \subseteq Recorded(recs) \cup Gone
    /\ Tracked \subseteq minted /\ minted \subseteq Tracked \cup Gone
    /\ \A c \in results : c.id \in minted
    /\ resumed => Recorded(recs) \subseteq minted
    /\ phase = "resuming" => Recorded(recs) \subseteq minted \cup work.todo
    /\ Saving => /\ Recorded(recs) \subseteq work.todo \cup work.tracked \cup work.failed \cup Gone
                 /\ work.tracked \subseteq minted
    /\ work.cur # None /\ recs[work.cur] # None /\ recs[work.cur].mine => work.rec.mine

\* The engine tracks other torrents after an Add, a Remove or a restore.
LEMMA TakesTracked ==
    ASSUME Types, NEW c \in Commands
    PROVE  /\ Adds(c) => Tracked' = (Tracked \ Alike(c.id)) \cup {c.id}
           /\ Pauses(c) \/ Unpauses(c) => Tracked' = Tracked
           /\ Removes(c) => Tracked' = Tracked \ {c.id}
<1>0. c.id \in Ids /\ ~Absent.tracked /\ [Absent EXCEPT !.tracked = TRUE].tracked
  BY DEF Commands, Absent
<1>1. Adds(c) => Tracked' = (Tracked \ Alike(c.id)) \cup {c.id}
  <2>. SUFFICES ASSUME Adds(c) PROVE Tracked' = (Tracked \ Alike(c.id)) \cup {c.id}
    OBVIOUS
  <2>1. /\ eng'[c.id].tracked
        /\ \A j \in Ids \ {c.id} : eng'[j].tracked <=> j \notin Alike(c.id) /\ eng[j].tracked
    BY <1>0 DEF Adds, Takes
  <2>2. c.id \notin Alike(c.id)
    BY DEF Alike
  <2>. QED  BY <1>0, <2>1, <2>2 DEF Tracked
<1>2. Pauses(c) \/ Unpauses(c) => Tracked' = Tracked
  <2>. SUFFICES ASSUME Pauses(c) \/ Unpauses(c) PROVE Tracked' = Tracked
    OBVIOUS
  <2>1. \A j \in Ids : eng'[j].tracked <=> eng[j].tracked
    BY <1>0 DEF Pauses, Unpauses, Takes, Types, Entries
  <2>. QED  BY <2>1 DEF Tracked
<1>3. Removes(c) => Tracked' = Tracked \ {c.id}
  <2>. SUFFICES ASSUME Removes(c) PROVE Tracked' = Tracked \ {c.id}
    OBVIOUS
  <2>1. \A j \in Ids : eng'[j].tracked <=> j # c.id /\ eng[j].tracked
    BY <1>0 DEF Removes, Takes, Types
  <2>. QED  BY <2>1 DEF Tracked
<1>. QED  BY <1>1, <1>2, <1>3

LEMMA RestoreTracked ==
    ASSUME Types, NEW i \in Ids
    PROVE  /\ Restored(i) => Tracked' = (Tracked \ Alike(i)) \cup {i}
           /\ RestoredErrored(i) => Tracked' = Tracked \cup {i}
           /\ DropDuplicate(i) => Tracked' = Tracked
<1>0. ~Absent.tracked /\ i \notin Alike(i)
  BY DEF Absent, Alike
<1>1. Restored(i) => Tracked' = (Tracked \ Alike(i)) \cup {i}
  <2>. SUFFICES ASSUME Restored(i) PROVE Tracked' = (Tracked \ Alike(i)) \cup {i}
    OBVIOUS
  <2>1. /\ eng'[i].tracked
        /\ \A j \in Ids \ {i} : eng'[j].tracked <=> j \notin Alike(i) /\ eng[j].tracked
    BY <1>0 DEF Restored
  <2>. QED  BY <1>0, <2>1 DEF Tracked
<1>2. RestoredErrored(i) => Tracked' = Tracked \cup {i}
  <2>. SUFFICES ASSUME RestoredErrored(i) PROVE Tracked' = Tracked \cup {i}
    OBVIOUS
  <2>1. eng'[i].tracked /\ \A j \in Ids \ {i} : eng'[j].tracked <=> eng[j].tracked
    BY DEF RestoredErrored, Types
  <2>. QED  BY <2>1 DEF Tracked
<1>3. DropDuplicate(i) => Tracked' = Tracked
  BY DEF DropDuplicate, Tracked
<1>. QED  BY <1>1, <1>2, <1>3

\* A Save prunes only what is gone.
LEMMA PruneKeeps ==
    ASSUME Types, RecordInv, Saving, resumed, work.todo = {}
    PROVE  Recorded(recs) \subseteq Kept \cup Gone
BY DEF RecordInv, Kept

LEMMA RecordStep == Base /\ RecordInv /\ [Next]_vars => RecordInv'
<1>. SUFFICES ASSUME Types, LockInv, RecordInv, [Next]_vars PROVE RecordInv'
  BY DEF Base
<1>0. /\ DOMAIN recs = Ids /\ DOMAIN disk = Ids /\ Idle.cur = None
      /\ Tracked \subseteq Ids /\ Recorded(recs) \subseteq Ids
  BY DEF Types, Idle, Tracked, Recorded
<1>1. CASE RestoreNext
  <2>1. PICK i \in work.todo :
          /\ Restored(i) \/ RestoredErrored(i) \/ DropDuplicate(i)
          /\ work' = [work EXCEPT !.todo = @ \ {i}]
          /\ minted' = minted \cup {i}
    BY <1>1 DEF RestoreNext
  <2>2. i \in Ids /\ work'.todo = work.todo \ {i} /\ work'.cur = None
    BY <1>1, <2>1 DEF Types, Works, LockInv, Saving, RestoreNext
  <2>3. /\ Tracked' \subseteq minted' /\ minted' \subseteq Tracked' \cup Gone' /\ Gone \subseteq Gone'
    <3>1. Alike(i) \subseteq Tracked
      BY DEF Alike
    <3>. QED  BY <2>1, <2>2, <3>1, RestoreTracked DEF RecordInv, Restored, RestoredErrored, DropDuplicate, Gone
  <2>4. Recorded(recs') \subseteq Recorded(recs) /\ Recorded(recs) \subseteq Recorded(recs') \cup Gone'
    BY <1>0, <2>1, <2>2 DEF Restored, RestoredErrored, DropDuplicate, Gone, Recorded
  <2>. QED  BY <1>1, <2>1, <2>2, <2>3, <2>4 DEF RestoreNext, RecordInv, LockInv, Saving
<1>2. CASE Resumed
  BY <1>0, <1>2 DEF Resumed, RecordInv, Saving, LockInv, Gone, Tracked
<1>3. CASE ResumeFails
  BY <1>0, <1>3 DEF ResumeFails, BeginShutdown, RecordInv, Saving, LockInv, Gone, Tracked
<1>4. ASSUME NEW op \in Ops, NEW i \in Ids, Dispatch(op, i) PROVE RecordInv'
  BY <1>4 DEF Dispatch, RecordInv, Saving, Gone, Tracked
<1>5. ASSUME NEW c \in cmds, Execute(c) PROVE RecordInv'
  <2>1. c \in Commands /\ c.id \in Ids
    BY DEF Types, Commands
  <2>2. UNCHANGED <<phase, session, store>>
    BY <1>5, ExecuteTakes
  <2>3. /\ Tracked' \subseteq minted' /\ minted' \subseteq Tracked' \cup Gone' /\ Gone \subseteq Gone'
        /\ \A d \in results' : d.id \in minted'
        /\ minted \subseteq minted'
    <3>1. CASE Fails(c)
      BY <3>1 DEF Fails, RecordInv, Gone, Tracked
    <3>2. CASE Joins(c)
      BY <3>2 DEF Joins, Live, Alike, RecordInv, Gone, Tracked
    <3>3. CASE Taken(c)
      <4>1. Alike(c.id) \subseteq Tracked
        BY DEF Alike
      <4>2. results' = results \cup {c} /\ minted' = minted \cup {c.id} /\ Gone \subseteq Gone'
        BY <3>3 DEF Taken, Adds, Pauses, Unpauses, Removes, Takes, Gone
      <4>3. CASE Adds(c)
        <5>1. Tracked' = (Tracked \ Alike(c.id)) \cup {c.id} /\ Gone' = Gone \cup Alike(c.id)
          BY <2>1, <4>3, TakesTracked DEF Adds, Takes, Gone
        <5>. QED  BY <4>1, <4>2, <5>1 DEF RecordInv
      <4>4. CASE Pauses(c) \/ Unpauses(c)
        <5>1. Tracked' = Tracked /\ c.id \in Tracked
          BY <2>1, <4>4, TakesTracked DEF Pauses, Unpauses
        <5>. QED  BY <4>2, <5>1 DEF RecordInv
      <4>5. CASE Removes(c)
        <5>1. Tracked' = Tracked \ {c.id} /\ c.id \in Tracked /\ Gone' = Gone \cup {c.id}
          BY <2>1, <4>5, TakesTracked DEF Removes, Takes, Gone
        <5>. QED  BY <4>2, <5>1 DEF RecordInv
      <4>. QED  BY <3>3, <4>3, <4>4, <4>5 DEF Taken
    <3>. QED  BY <1>5, <3>1, <3>2, <3>3, ExecuteTakes
  <2>. QED  BY <2>2, <2>3 DEF RecordInv, Saving
<1>6. ASSUME NEW c \in results, Handle(c) PROVE RecordInv'
  <2>1. CASE c.op = "add" /\ ~stClosed
    <3>0. [paused |-> FALSE, mine |-> TRUE] \in Records
      BY DEF Records
    <3>1. c.id \in minted /\ c.id \in Ids /\ lock = "free" /\ [paused |-> FALSE, mine |-> TRUE] # None
      BY <1>6, <2>1, <3>0, NoneAssumption DEF Handle, RecordInv, Types, Commands
    <3>2. Recorded(recs') = Recorded(recs) \cup {c.id}
      BY <1>0, <1>6, <2>1, <3>1 DEF Handle, Recorded
    <3>. QED  BY <1>6, <2>1, <3>1, <3>2 DEF Handle, RecordInv, LockInv, Saving, Gone, Tracked
  <2>2. CASE ~(c.op = "add" /\ ~stClosed)
    BY <1>6, <2>2 DEF Handle, RecordInv, Saving, Gone, Tracked
  <2>. QED  BY <2>1, <2>2
<1>7. ASSUME NEW who, List(who), resumed, UNCHANGED <<phase, resumed, store, engine, results, forgotten>>
      PROVE  RecordInv'
  <2>1. work'.todo = Tracked /\ work'.tracked = {} /\ work'.cur = None
    BY <1>7 DEF List, Idle
  <2>. QED  BY <1>7, <2>1 DEF List, RecordInv, LockInv, Gone, Tracked
<1>8. CASE SaveBegins
  <2>1. CASE Saves
    BY <1>7, <1>8, <2>1 DEF SaveBegins, Saves
  <2>2. CASE ~Saves
    BY <1>8, <2>2 DEF SaveBegins, RecordInv, Saving, Gone, Tracked
  <2>. QED  BY <2>1, <2>2
<1>9. ASSUME NEW i \in Ids, SaveReads(i) PROVE RecordInv'
  <2>1. Saving /\ i \in work.todo /\ UNCHANGED <<phase, lock, resumed, recs, disk, results, eng, minted, removed, replaced>>
    BY <1>9 DEF SaveReads, Saving
  <2>2. CASE engClosed \/ i \notin Tracked
    <3>1. work'.todo = work.todo \ {i} /\ work'.tracked = work.tracked /\ work'.failed = work.failed \cup {i}
          /\ work'.cur = None
      BY <1>9, <2>2 DEF SaveReads, Types, Works
    <3>. QED  BY <2>1, <3>1 DEF RecordInv, LockInv, Saving, Gone, Tracked
  <2>3. CASE ~(engClosed \/ i \notin Tracked)
    <3>1. /\ work'.todo = work.todo \ {i} /\ work'.tracked = work.tracked \cup {i} /\ work'.failed = work.failed
          /\ work'.cur = i
          /\ work'.rec = [paused |-> eng[i].user, mine |-> recs[i] # None /\ recs[i].mine]
      BY <1>9, <2>3 DEF SaveReads, Types, Works
    <3>2. recs[i] # None /\ recs[i].mine => work'.rec.mine
      <4>. SUFFICES ASSUME recs[i] # None, recs[i].mine PROVE work'.rec.mine
        OBVIOUS
      <4>. DEFINE m == recs[i] # None /\ recs[i].mine
      <4>1. m = TRUE
        OBVIOUS
      <4>2. work'.rec = [paused |-> eng[i].user, mine |-> m]
        BY <3>1
      <4>. HIDE DEF m
      <4>. QED  BY <4>1, <4>2
    <3>. QED  BY <2>1, <2>3, <3>1, <3>2 DEF RecordInv, LockInv, Saving, Gone, Tracked
  <2>. QED  BY <2>2, <2>3
<1>10. CASE SaveWrites
  <2>1. work' = [work EXCEPT !.cur = None, !.rec = None] /\ work.cur \in work.tracked /\ work.cur \in Ids /\ work.rec # None
    BY <1>10 DEF SaveWrites, LockInv, Types, Works
  <2>2. /\ work'.todo = work.todo /\ work'.tracked = work.tracked /\ work'.failed = work.failed /\ work'.cur = None
    BY <2>1 DEF Types, Works
  <2>3. Recorded(recs) \subseteq Recorded(recs') /\ Recorded(recs') \subseteq Recorded(recs) \cup {work.cur}
    BY <1>0, <1>10, <2>1 DEF SaveWrites, Recorded
  <2>. QED  BY <1>10, <2>1, <2>2, <2>3 DEF SaveWrites, RecordInv, Saving, Gone, Tracked
<1>11. CASE SavePrunes
  <2>1. Recorded(recs) \subseteq Kept \cup Gone
    BY <1>11, PruneKeeps DEF SavePrunes, LockInv, Saving
  <2>2. Recorded(recs') \subseteq Recorded(recs) /\ Recorded(recs) \cap Kept \subseteq Recorded(recs')
    BY <1>0, <1>11 DEF SavePrunes, Recorded
  <2>. QED  BY <1>0, <1>11, <2>1, <2>2 DEF SavePrunes, RecordInv, LockInv, Saving, Gone, Tracked, Alive
<1>12. CASE Flush \/ Quit
  BY <1>12 DEF Flush, Quit, BeginShutdown, RecordInv, Saving, Gone, Tracked
<1>13. CASE PauseAll
  <2>1. Tracked' = Tracked
    <3>1. \A j \in Ids : eng'[j].tracked <=> eng[j].tracked
      BY <1>13 DEF PauseAll, Types, Entries
    <3>. QED  BY <3>1 DEF Tracked
  <2>. QED  BY <1>13, <2>1 DEF PauseAll, RecordInv, Saving, Gone
<1>14. CASE CloseBegins
  <2>1. CASE Saves
    BY <1>7, <1>14, <2>1 DEF CloseBegins, Saves
  <2>2. CASE ~Saves
    BY <1>14, <2>2 DEF CloseBegins, RecordInv, Saving, Gone, Tracked
  <2>. QED  BY <2>1, <2>2
<1>15. CASE FlushStep \/ CloseEngine \/ CloseStore \/ NextStep
  BY <1>15 DEF FlushStep, CloseEngine, CloseStore, NextStep, RecordInv, LockInv, Saving, Gone, Tracked
<1>16. CASE Restart
  <2>1. Tracked' = {}
    BY <1>16 DEF Restart, Start, Tracked, Absent
  <2>2. work'.cur = None /\ work'.todo = Recorded(disk)
    BY <1>16 DEF Restart, Start, Idle
  <2>. QED  BY <1>16, <2>1, <2>2 DEF Restart, Start, RecordInv, Saving, Gone
<1>17. CASE UNCHANGED vars
  BY <1>17 DEF vars, RecordInv, Saving, Gone, Tracked
<1>. QED
  BY <1>1, <1>2, <1>3, <1>4, <1>5, <1>6, <1>8, <1>9, <1>10, <1>11, <1>12, <1>13, <1>14, <1>15, <1>16, <1>17
  DEF Next, Command, Save, Shutdown

LEMMA RecordInit == Init => RecordInv
<1>. SUFFICES ASSUME Init PROVE RecordInv
  OBVIOUS
<1>1. Tracked = {} /\ work.cur = None /\ work.todo = Recorded(disk)
  BY DEF Init, Tracked, Absent, Idle
<1>. QED  BY <1>1 DEF Init, RecordInv, Saving

LEMMA RecordsInv == Spec => [](Base /\ RecordInv)
<1>1. Init => Base /\ RecordInv
  BY BaseInit, RecordInit
<1>2. Base /\ RecordInv /\ [Next]_vars => (Base /\ RecordInv)'
  BY BaseStep, RecordStep
<1>. QED  BY <1>1, <1>2, PTL DEF Spec

\* The memory's records and the file's change at these steps only.
LEMMA FileWritten == [Next]_vars => disk' = disk \/ disk' = recs
BY DEF Next, Command, Save, Shutdown, vars, RestoreNext, Resumed, ResumeFails, BeginShutdown, Dispatch,
       Execute, Handle, SaveBegins, List, SaveReads, SaveWrites, SavePrunes, Flush, Quit, PauseAll,
       CloseBegins, FlushStep, CloseEngine, CloseStore, NextStep, Restart, Start

(***************************************************************************)
(* No Save, Shutdown or start drops a record from the file unless its      *)
(* torrent was removed or another took its place, nor ever takes from a    *)
(* record what the add flow put in it (session.go: saveLocked, mergeRecord,*)
(* SetTorrent and Resume), for any torrents, steps that time out, starts   *)
(* that fail and crashes.                                                  *)
(***************************************************************************)
THEOREM NoRecordLost == Spec => RecordsKept
<1>1. Base /\ RecordInv /\ [Next]_vars
      => [\A i \in Recorded(disk) : i \in Recorded(disk') \/ i \in removed \cup replaced]_vars
  <2>. SUFFICES ASSUME RecordInv, [Next]_vars, NEW i \in Recorded(disk)
                PROVE  i \in Recorded(disk') \/ i \in removed \cup replaced
    OBVIOUS
  <2>. QED  BY FileWritten DEF RecordInv, Gone
<1>2. Base /\ RecordInv /\ [Next]_vars
      => [\A i \in Recorded(recs) \cap Recorded(recs') : recs[i].mine => recs'[i].mine \/ starts' # starts]_vars
  <2>. SUFFICES ASSUME Types, LockInv, RecordInv, [Next]_vars, starts' = starts, NEW i \in Ids,
                       recs[i] # None, recs[i].mine, recs'[i] # None
                PROVE  recs'[i].mine
    BY DEF Base, Recorded
  <2>0. DOMAIN recs = Ids
    BY DEF Types
  <2>1. CASE recs' = recs
    BY <2>1
  <2>2. CASE RestoreNext
    BY <2>0, <2>2 DEF RestoreNext, Restored, RestoredErrored, DropDuplicate
  <2>3. ASSUME NEW c \in results, Handle(c) PROVE recs'[i].mine
    BY <2>0, <2>3 DEF Handle
  <2>4. CASE SaveWrites
    BY <2>0, <2>4 DEF SaveWrites, RecordInv
  <2>5. CASE SavePrunes
    BY <2>0, <2>5 DEF SavePrunes
  <2>6. CASE Restart
    BY <2>6 DEF Restart, Types
  <2>. QED
    BY <2>1, <2>2, <2>3, <2>4, <2>5, <2>6
    DEF Next, Command, Save, Shutdown, vars, Resumed, ResumeFails, Dispatch, Execute, SaveBegins, SaveReads,
        Flush, Quit, PauseAll, CloseBegins, FlushStep, CloseEngine, CloseStore, NextStep
<1>. QED  BY <1>1, <1>2, RecordsInv, PTL DEF Spec, RecordsKept, KeepsRecords, AddFlowKept

----------------------------------------------------------------------------
(* The pauses that are recorded. *)

\* Wherever a pause is kept on its way into the file, the user asked for it.
UserInv ==
    /\ \A i \in Ids : eng[i].user => i \in pausedByUser
    /\ \A i \in Recorded(recs) : recs[i].paused => i \in pausedByUser
    /\ \A i \in Recorded(disk) : disk[i].paused => i \in pausedByUser
    /\ work.cur # None /\ work.rec.paused => work.cur \in pausedByUser
    /\ \A c \in cmds : c.op = "pause" => c.id \in pausedByUser

LEMMA UserStep == Base /\ UserInv /\ [Next]_vars => UserInv'
<1>. SUFFICES ASSUME Types, LockInv, UserInv, [Next]_vars PROVE UserInv'
  BY DEF Base
<1>0. DOMAIN recs = Ids /\ ~Absent.user /\ Idle.cur = None
  BY DEF Types, Absent, Idle
<1>1. CASE RestoreNext
  <2>1. PICK i \in work.todo :
          /\ Restored(i) \/ RestoredErrored(i) \/ DropDuplicate(i)
          /\ work' = [work EXCEPT !.todo = @ \ {i}]
    BY <1>1 DEF RestoreNext
  <2>2. i \in Recorded(recs) /\ i \in Ids /\ work'.cur = None
    BY <1>1, <2>1 DEF RestoreNext, LockInv, Recorded, Saving, Types, Works
  <2>3. \A j \in Ids : eng'[j].user => j \in pausedByUser
    <3>1. CASE Restored(i)
      BY <1>0, <2>2, <3>1 DEF Restored, UserInv
    <3>2. CASE RestoredErrored(i)
      BY <2>2, <3>2 DEF RestoredErrored, UserInv, Types
    <3>3. CASE DropDuplicate(i)
      BY <3>3 DEF DropDuplicate, UserInv
    <3>. QED  BY <2>1, <3>1, <3>2, <3>3
  <2>4. \A j \in Recorded(recs') : j \in Recorded(recs) /\ recs'[j] = recs[j]
    BY <1>0, <2>1, <2>2 DEF Restored, RestoredErrored, DropDuplicate, Recorded
  <2>. QED  BY <1>1, <2>2, <2>3, <2>4 DEF RestoreNext, UserInv
<1>2. CASE Resumed \/ ResumeFails
  BY <1>0, <1>2 DEF Resumed, ResumeFails, UserInv
<1>3. ASSUME NEW op \in Ops, NEW i \in Ids, Dispatch(op, i) PROVE UserInv'
  <2>1. pausedByUser \subseteq pausedByUser' /\ (op = "pause" => i \in pausedByUser')
    BY <1>3 DEF Dispatch
  <2>. QED  BY <1>3, <2>1 DEF Dispatch, UserInv
<1>4. ASSUME NEW c \in cmds, Execute(c) PROVE UserInv'
  <2>1. c \in Commands /\ c.id \in Ids
    BY DEF Types, Commands
  <2>2. \A j \in Ids : eng'[j].user => j \in pausedByUser
    <3>1. CASE Fails(c) \/ Joins(c)
      BY <3>1 DEF Fails, Joins, UserInv
    <3>2. CASE Adds(c)
      <4>1. ~[Absent EXCEPT !.tracked = TRUE].user
        BY DEF Absent
      <4>. QED  BY <1>0, <2>1, <3>2, <4>1 DEF Adds, Takes, UserInv
    <3>3. CASE Pauses(c)
      BY <2>1, <3>3 DEF Pauses, Takes, UserInv, Types, Entries
    <3>4. CASE Unpauses(c)
      BY <2>1, <3>4 DEF Unpauses, Takes, UserInv, Types, Entries
    <3>5. CASE Removes(c)
      BY <1>0, <2>1, <3>5 DEF Removes, Takes, UserInv, Types
    <3>. QED  BY <1>4, <3>1, <3>2, <3>3, <3>4, <3>5, ExecuteTakes DEF Taken
  <2>. QED  BY <1>4, <2>2, ExecuteTakes DEF UserInv
<1>5. ASSUME NEW c \in results, Handle(c) PROVE UserInv'
  <2>1. \A j \in Recorded(recs') : recs'[j].paused => j \in Recorded(recs) /\ recs'[j] = recs[j]
    BY <1>0, <1>5 DEF Handle, Recorded
  <2>. QED  BY <1>5, <2>1 DEF Handle, UserInv
<1>6. CASE SaveBegins \/ CloseBegins
  <2>1. work'.cur = None \/ work' = work
    BY <1>6 DEF SaveBegins, CloseBegins, List, Idle
  <2>. QED  BY <1>6, <2>1 DEF SaveBegins, CloseBegins, UserInv
<1>7. ASSUME NEW i \in Ids, SaveReads(i) PROVE UserInv'
  <2>1. CASE engClosed \/ i \notin Tracked
    <3>1. work'.cur = None
      BY <1>7, <2>1 DEF SaveReads, Types, Works
    <3>. QED  BY <1>7, <3>1 DEF SaveReads, UserInv
  <2>2. CASE ~(engClosed \/ i \notin Tracked)
    <3>1. work'.cur = i /\ work'.rec.paused = eng[i].user
      BY <1>7, <2>2 DEF SaveReads, Types, Works
    <3>. QED  BY <1>7, <3>1 DEF SaveReads, UserInv
  <2>. QED  BY <2>1, <2>2
<1>8. CASE SaveWrites
  <2>1. work'.cur = None
    BY <1>8 DEF SaveWrites, Types, Works
  <2>2. \A j \in Recorded(recs') : recs'[j].paused => j \in pausedByUser
    BY <1>0, <1>8 DEF SaveWrites, Recorded, UserInv
  <2>. QED  BY <1>8, <2>1, <2>2 DEF SaveWrites, UserInv
<1>9. CASE SavePrunes
  <2>1. \A j \in Recorded(recs') : j \in Recorded(recs) /\ recs'[j] = recs[j]
    BY <1>0, <1>9 DEF SavePrunes, Recorded
  <2>. QED  BY <1>0, <1>9, <2>1 DEF SavePrunes, UserInv
<1>10. CASE PauseAll
  <2>1. \A j \in Ids : eng'[j].user <=> eng[j].user
    BY <1>10 DEF PauseAll, Types, Entries
  <2>. QED  BY <1>10, <2>1 DEF PauseAll, UserInv
<1>11. CASE Flush \/ Quit \/ FlushStep \/ CloseEngine \/ CloseStore \/ NextStep
  BY <1>11 DEF Flush, Quit, FlushStep, CloseEngine, CloseStore, NextStep, UserInv
<1>12. CASE Restart
  <2>1. recs' = disk /\ disk' = disk /\ work'.cur = None /\ cmds' = {}
        /\ pausedByUser' = {i \in Recorded(disk) : disk[i].paused}
    BY <1>12 DEF Restart, Start, Idle
  <2>2. \A i \in Ids : ~eng'[i].user
    BY <1>0, <1>12 DEF Restart, Start
  <2>. QED  BY <2>1, <2>2 DEF UserInv
<1>13. CASE UNCHANGED vars
  BY <1>13 DEF vars, UserInv
<1>. QED
  BY <1>1, <1>2, <1>3, <1>4, <1>5, <1>6, <1>7, <1>8, <1>9, <1>10, <1>11, <1>12, <1>13
  DEF Next, Command, Save, Shutdown

(***************************************************************************)
(* T-952: the file records no pause but the user's, though Shutdown pauses *)
(* every torrent before it saves, its steps may be overtaken when they     *)
(* time out, and the process may end and start again at any step           *)
(* (PauseForShutdown in the engine, Save and Shutdown here).               *)
(***************************************************************************)
THEOREM PausesAreTheUsers == Spec => []OnlyUserPauses
<1>1. Init => Base /\ UserInv
  <2>. SUFFICES ASSUME Init PROVE UserInv
    BY BaseInit
  <2>1. \A i \in Ids : ~eng[i].user
    BY DEF Init, Absent
  <2>2. work.cur = None
    BY DEF Init, Idle
  <2>. QED  BY <2>1, <2>2 DEF Init, UserInv
<1>2. Base /\ UserInv /\ [Next]_vars => (Base /\ UserInv)'
  BY BaseStep, UserStep
<1>3. Base /\ UserInv => OnlyUserPauses
  BY DEF UserInv, OnlyUserPauses
<1>. QED  BY <1>1, <1>2, <1>3, PTL DEF Spec

----------------------------------------------------------------------------
(* The order of the shutdown's steps. *)

Before == [pause |-> {}, save |-> {"pause"}, flush |-> {"pause", "save"},
           engine |-> {"pause", "save", "flush"}, store |-> Steps \ {"store"}]

\* Nothing is closed while the program starts and runs.
CalmInv ==
    phase \in {"resuming", "running"} =>
        /\ ~closed /\ ~engClosed /\ ~stClosed /\ ~late /\ lock # "close"
        /\ \A s \in Steps : ran[s] = "idle"

(***************************************************************************)
(* While every step ends in time, they run one after the other: the        *)
(* session is saved and sealed before the engine is closed, and nothing    *)
(* changes a record once the store's final flush has written it.           *)
(***************************************************************************)
OrderInv ==
    phase \in {"stopping", "down"} /\ ~late =>
        /\ ran[step] \in {"running", "done"}
        /\ \A s \in Before[step] : ran[s] = "done"
        /\ \A s \in Steps \ (Before[step] \cup {step}) : ran[s] = "idle"
        /\ phase = "down" => step = "store" /\ ran["store"] = "done"
        /\ engClosed => ran["engine"] = "done"
        /\ stClosed => ran["store"] = "done"
        /\ lock = "close" => ran["save"] = "running"
        /\ closed /\ resumed => ran["save"] = "done"
        /\ ran["save"] = "done" /\ resumed => closed /\ lock = "free"
        /\ ran["store"] = "done" => disk = recs

StepsInv == CalmInv /\ OrderInv

\* The step that is running is the one Shutdown waits for.
LEMMA OneRuns ==
    ASSUME Types, LockInv, OrderInv, ~late, NEW s \in Steps, Running(s)
    PROVE  step = s /\ \A q \in Steps : IF q \in Before[s] THEN ran[q] = "done" ELSE q # s => ran[q] = "idle"
<1>1. step = s
  BY DEF OrderInv, Running
<1>. QED  BY <1>1 DEF OrderInv, Running

LEMMA OrderStep == Base /\ StepsInv /\ [Next]_vars => StepsInv'
<1>. SUFFICES ASSUME Types, LockInv, CalmInv, OrderInv, [Next]_vars PROVE CalmInv' /\ OrderInv'
  BY DEF Base, StepsInv
<1>0. DOMAIN ran = Steps /\ late \in BOOLEAN /\ closed \in BOOLEAN /\ resumed \in BOOLEAN
  BY DEF Types
<1>1. ASSUME UNCHANGED <<phase, late, step, ran, engClosed, stClosed, closed, resumed, lock, disk, recs>>
      PROVE  CalmInv' /\ OrderInv'
  BY <1>1 DEF CalmInv, OrderInv
<1>2. CASE RestoreNext \/ Resumed
  BY <1>2 DEF RestoreNext, Resumed, CalmInv, OrderInv
<1>3. CASE ResumeFails \/ Quit
  <2>1. /\ phase' = "stopping" /\ step' = "pause" /\ ran' = [ran EXCEPT !["pause"] = "running"]
        /\ UNCHANGED <<late, engClosed, stClosed, closed, resumed, disk, recs>>
        /\ lock' \in {lock, "free"}
        /\ phase \in {"resuming", "running"}
    BY <1>3 DEF ResumeFails, Quit, BeginShutdown
  <2>2. /\ ran'["pause"] = "running" /\ \A s \in Steps \ {"pause"} : ran'[s] = "idle"
        /\ ~closed' /\ ~engClosed' /\ ~stClosed' /\ lock' # "close"
    <3>1. ~closed /\ ~engClosed /\ ~stClosed /\ lock # "close" /\ \A s \in Steps : ran[s] = "idle"
      BY <2>1 DEF CalmInv
    <3>2. "pause" \in Steps
      BY DEF Steps
    <3>. QED  BY <1>0, <2>1, <3>1, <3>2
  <2>3. Before["pause"] = {}
    BY DEF Before
  <2>. QED  BY <2>1, <2>2, <2>3 DEF CalmInv, OrderInv, Steps
<1>4. ASSUME NEW op \in Ops, NEW i \in Ids, Dispatch(op, i) PROVE CalmInv' /\ OrderInv'
  BY <1>1, <1>4 DEF Dispatch
<1>5. ASSUME NEW c \in cmds, Execute(c) PROVE CalmInv' /\ OrderInv'
  BY <1>1, <1>5 DEF Execute
<1>6. ASSUME NEW c \in results, Handle(c) PROVE CalmInv' /\ OrderInv'
  BY <1>6 DEF Handle, CalmInv, OrderInv
<1>7. CASE SaveBegins
  BY <1>7 DEF SaveBegins, List, Saves, CalmInv, OrderInv
<1>8. ASSUME NEW i \in Ids, SaveReads(i) PROVE CalmInv' /\ OrderInv'
  BY <1>1, <1>8 DEF SaveReads
<1>9. Saving /\ phase \in {"stopping", "down"} /\ ~late => ran["store"] # "done" /\ ran["save"] # "done"
  <2>1. Saving => resumed /\ lock # "free"
    BY DEF LockInv, Saving
  <2>2. "save" \in Before["store"]
    BY DEF Before, Steps
  <2>3. ASSUME phase \in {"stopping", "down"}, ~late, ran["store"] = "done" PROVE ran["save"] = "done"
    <3>1. step = "store"
      BY <2>3 DEF OrderInv, Before, Steps, LockInv
    <3>. QED  BY <2>2, <2>3, <3>1 DEF OrderInv
  <2>. QED  BY <2>1, <2>3 DEF OrderInv
<1>10. CASE SaveWrites
  BY <1>9, <1>10 DEF SaveWrites, Saving, CalmInv, OrderInv
<1>11. CASE SavePrunes
  <2>1. Saving /\ UNCHANGED <<phase, late, step, engClosed, stClosed, resumed, disk>> /\ lock' = "free"
        /\ closed' = (closed \/ lock = "close")
        /\ ran' = IF lock = "close" THEN [ran EXCEPT !["save"] = "done"] ELSE ran
    BY <1>11 DEF SavePrunes, Saving
  <2>2. CASE phase \in {"resuming", "running"}
    BY <2>1, <2>2 DEF CalmInv, OrderInv
  <2>3. CASE phase \in {"stopping", "down"} /\ ~late /\ lock = "close"
    <3>1. ran["save"] = "running" /\ step = "save"
      BY <2>3 DEF OrderInv, Steps
    <3>2. /\ ran'["save"] = "done" /\ \A s \in Steps \ {"save"} : ran'[s] = ran[s]
          /\ closed'
      BY <1>0, <2>1, <2>3 DEF Steps
    <3>. QED  BY <1>9, <2>1, <2>3, <3>1, <3>2 DEF CalmInv, OrderInv, Before, Steps
  <2>4. CASE phase \in {"stopping", "down"} /\ ~late /\ lock # "close"
    BY <1>9, <2>1, <2>4 DEF CalmInv, OrderInv
  <2>5. CASE phase \in {"stopping", "down"} /\ late
    BY <2>1, <2>5 DEF CalmInv, OrderInv
  <2>. QED  BY <1>0, <2>2, <2>3, <2>4, <2>5 DEF Types, Phases
<1>12. CASE Flush
  BY <1>12 DEF Flush, CalmInv, OrderInv
<1>13. ASSUME NEW s \in Steps, Running(s), Finish(s), s # "save", UNCHANGED <<phase, late, step, closed, resumed, lock, recs>>,
              engClosed' => engClosed \/ s = "engine", stClosed' => stClosed \/ s = "store",
              s = "store" \/ disk' # disk => disk' = recs
       PROVE  CalmInv' /\ OrderInv'
  <2>1. CalmInv'
    BY <1>13 DEF CalmInv, Running
  <2>2. CASE ~late
    <3>1. step = s /\ ran'[s] = "done" /\ \A q \in Steps \ {s} : ran'[q] = ran[q]
      BY <1>0, <1>13, <2>2, OneRuns DEF Finish
    <3>2. s \notin Before[s] /\ "save" \in Steps /\ "store" \in Steps /\ "engine" \in Steps /\ Before[s] \subseteq Steps
      BY DEF Before, Steps
    <3>. QED  BY <1>13, <2>1, <2>2, <3>1, <3>2 DEF OrderInv, Running
  <2>3. CASE late
    BY <1>13, <2>1, <2>3 DEF OrderInv
  <2>. QED  BY <1>0, <2>1, <2>2, <2>3
<1>14. CASE PauseAll \/ FlushStep \/ CloseEngine \/ CloseStore
  <2>1. CASE PauseAll
    BY <1>13, <2>1 DEF PauseAll, Steps
  <2>2. CASE FlushStep
    BY <1>13, <2>2 DEF FlushStep, Steps
  <2>3. CASE CloseEngine
    BY <1>13, <2>3 DEF CloseEngine, Steps
  <2>4. CASE CloseStore
    BY <1>13, <2>4 DEF CloseStore, Steps
  <2>. QED  BY <1>14, <2>1, <2>2, <2>3, <2>4
<1>15. CASE CloseBegins
  <2>1. /\ phase = "stopping" /\ ran["save"] = "running" /\ lock = "free"
        /\ UNCHANGED <<phase, late, step, engClosed, stClosed, resumed, disk, recs>>
    BY <1>15 DEF CloseBegins, Running
  <2>2. CASE Saves
    BY <1>15, <2>1, <2>2 DEF CloseBegins, List, Saves, CalmInv, OrderInv
  <2>3. CASE ~Saves
    <3>1. closed' /\ Finish("save") /\ lock' = "free"
      BY <1>15, <2>1, <2>3 DEF CloseBegins
    <3>2. CASE late
      BY <2>1, <3>2 DEF CalmInv, OrderInv
    <3>3. CASE ~late
      <4>1. step = "save" /\ ran'["save"] = "done" /\ \A q \in Steps \ {"save"} : ran'[q] = ran[q]
        BY <1>0, <2>1, <3>1, <3>3, OneRuns DEF Finish, Running, Steps
      <4>. QED  BY <2>1, <3>1, <3>3, <4>1 DEF CalmInv, OrderInv, Before, Steps
    <3>. QED  BY <1>0, <3>2, <3>3
  <2>. QED  BY <2>2, <2>3
<1>16. CASE NextStep
  <2>1. CalmInv'
    BY <1>16 DEF NextStep, CalmInv
  <2>2. ASSUME ~late' PROVE OrderInv'
    <3>1. /\ phase = "stopping" /\ ran[step] = "done" /\ ~late /\ step \in Steps
          /\ closed' <=> (closed \/ step = "save")
          /\ UNCHANGED <<lock, resumed, engClosed, stClosed, disk, recs>>
      <4>1. phase = "stopping" /\ UNCHANGED <<lock, resumed, engClosed, stClosed, disk, recs>>
        BY <1>16 DEF NextStep
      <4>2. step \in Steps
        BY <4>1 DEF LockInv
      <4>3. ran[step] = "done" /\ ~late
        BY <1>16, <2>2 DEF NextStep
      <4>4. closed' <=> (closed \/ step = "save")
        BY <1>16 DEF NextStep
      <4>. QED  BY <4>1, <4>2, <4>3, <4>4
    <3>2. CASE step = "store"
      <4>1. phase' = "down" /\ step' = step /\ ran' = ran /\ (closed' <=> closed)
        BY <1>16, <3>1, <3>2 DEF NextStep
      <4>. QED  BY <3>1, <3>2, <4>1 DEF OrderInv
    <3>3. CASE step # "store"
      <4>1. /\ phase' = phase /\ step' = After[step] /\ ran' = [ran EXCEPT ![After[step]] = "running"]
        BY <1>16, <3>1, <3>3 DEF NextStep
      <4>2. /\ After[step] \in Steps /\ After[step] # step
            /\ Before[After[step]] = Before[step] \cup {step} /\ After[step] \notin Before[After[step]]
            /\ (After[step] = "save" => step = "pause") /\ After[step] # "pause"
        BY <3>1, <3>3 DEF After, Before, Steps
      <4>3. ran'[After[step]] = "running" /\ \A q \in Steps \ {After[step]} : ran'[q] = ran[q]
        BY <1>0, <4>1, <4>2
      <4>4. ran[After[step]] = "idle"
        BY <3>1, <4>2 DEF OrderInv
      <4>5. \A s \in Steps : ran'[s] = "done" <=> ran[s] = "done"
        BY <4>3, <4>4
      <4>6. "save" \in Steps /\ "store" \in Steps /\ "engine" \in Steps
        BY DEF Steps
      <4>7. lock = "close" => ran'["save"] = "running"
        BY <3>1, <4>3, <4>6 DEF OrderInv
      <4>8. closed' /\ resumed => ran'["save"] = "done"
        BY <3>1, <4>5, <4>6 DEF OrderInv
      <4>. QED  BY <3>1, <4>1, <4>2, <4>3, <4>4, <4>5, <4>6, <4>7, <4>8 DEF OrderInv
    <3>. QED  BY <3>2, <3>3
  <2>3. ASSUME late' PROVE OrderInv'
    BY <2>3 DEF OrderInv
  <2>. QED  BY <2>1, <2>2, <2>3
<1>17. CASE Restart
  BY <1>17 DEF Restart, Start, CalmInv, OrderInv
<1>18. CASE UNCHANGED vars
  BY <1>1, <1>18 DEF vars
<1>. QED
  BY <1>2, <1>3, <1>4, <1>5, <1>6, <1>7, <1>8, <1>10, <1>11, <1>12, <1>14, <1>15, <1>16, <1>17, <1>18
  DEF Next, Command, Save, Shutdown

LEMMA StepsInit == Init => StepsInv
BY DEF Init, StepsInv, CalmInv, OrderInv

----------------------------------------------------------------------------
(* What the user was shown, what the engine has and what the records say. *)

\* What the user should be shown of i, and what the record says.
Wanted(i)  == IF eng[i].tracked THEN Told(eng[i].user) ELSE "none"
Recalls(i) == IF recs[i] = None THEN "none" ELSE Told(recs[i].paused)

Result(op, i) == [op |-> op, id |-> i] \in results
Pending(i)    == \E c \in results : c.id = i

\* The user was shown i as the engine has it, but for results to come.
ShownRight(i) ==
    /\ ~eng[i].tracked => shown[i] = "none" \/ Result("remove", i)
    /\ eng[i].tracked =>
         /\ Result("pause", i) => eng[i].user
         /\ Result("resume", i) => ~eng[i].user
         /\ ~Result("pause", i) /\ ~Result("resume", i) =>
               \/ shown[i] = Told(eng[i].user)
               \/ shown[i] = "none" /\ Result("add", i) /\ ~eng[i].user

\* The Save that holds the lock will leave i as the engine has it.
Fresh(i) ==
    IF eng[i].tracked
    THEN \/ i \in work.todo
         \/ work.cur = i /\ work.rec.paused = eng[i].user
         \/ i \in work.tracked /\ work.cur # i /\ Recalls(i) = Wanted(i)
    ELSE i \notin work.tracked

Alternates == {"pause", "resume"}

(***************************************************************************)
(* Of each torrent one pause or resume at most is under way, so its result *)
(* says what the engine made of it; before shutdown a torrent is paused    *)
(* only if the user had it paused.                                         *)
(***************************************************************************)
ShownInv ==
    /\ phase \in {"resuming", "running"} => \A i \in Ids : eng[i].paused <=> eng[i].user
    /\ \A c, d \in cmds \cup results : c.id = d.id /\ c.op \in Alternates /\ d.op \in Alternates => c = d
    /\ phase = "resuming" =>
         /\ minted \cap work.todo = {}
         /\ \A i \in Ids \ replaced : shown[i] = Wanted(i) /\ (i \in minted => Recalls(i) = Wanted(i))
    /\ phase = "running" => \A i \in Ids \ replaced : ShownRight(i)

(***************************************************************************)
(* A torrent whose record is behind the engine has a result to be handled, *)
(* a Save waiting, or one under way that has yet to read it.               *)
(***************************************************************************)
SavedInv ==
    phase = "running" =>
        \A i \in Ids \ replaced :
            \/ waiting > 0
            \/ Pending(i)
            \/ lock = "save" /\ Fresh(i)
            \/ lock = "free" /\ Recalls(i) = Wanted(i)

\* The torrents no command was under way for at the quit stay as they were shown.
Untouched == Ids \ (lost \cup replaced)

StopInv ==
    phase \in {"stopping", "down"} =>
        /\ \A c \in cmds : c.id \in lost
        /\ resumed => \A i \in Untouched : shown[i] = Wanted(i)
        /\ resumed /\ ~late => \A i \in Untouched :
             /\ lock = "close" => Fresh(i)
             /\ ran["save"] = "done" => Recalls(i) = shown[i]

AgreeInv == ShownInv /\ SavedInv /\ StopInv
Known == Base /\ RecordInv /\ StepsInv

\* A command changes its own torrent, and those whose place it takes.
LEMMA OthersStay ==
    ASSUME Types, NEW c \in cmds, Execute(c), NEW i \in Ids, i # c.id \/ Fails(c) \/ Joins(c), i \notin replaced'
    PROVE  i \notin replaced /\ eng'[i] = eng[i] /\ recs'[i] = recs[i] /\ shown'[i] = shown[i]
<1>1. c.id \in Ids
  BY DEF Types, Commands
<1>2. UNCHANGED <<recs, shown>>
  BY ExecuteTakes
<1>3. CASE Fails(c) \/ Joins(c)
  BY <1>2, <1>3 DEF Fails, Joins
<1>4. CASE Taken(c) /\ i # c.id
  BY <1>1, <1>2, <1>4 DEF Taken, Adds, Pauses, Unpauses, Removes, Takes, Types
<1>. QED  BY <1>3, <1>4, ExecuteTakes

\* SaveReads, of any torrent: what is fresh stays fresh.
LEMMA ReadsFresh ==
    ASSUME Types, NEW i \in Ids, SaveReads(i), ~engClosed, NEW j \in Ids, Fresh(j)
    PROVE  Fresh(j)'
<1>1. work.cur = None /\ UNCHANGED <<eng, recs>> /\ i # None /\ j # None
  BY NoneAssumption DEF SaveReads
<1>2. CASE i \notin Tracked
  <2>1. work'.todo = work.todo \ {i} /\ work'.tracked = work.tracked /\ work'.cur = None
    BY <1>1, <1>2 DEF SaveReads, Types, Works
  <2>2. ~eng[i].tracked
    BY <1>2 DEF Tracked
  <2>. QED  BY <1>1, <2>1, <2>2 DEF Fresh, Wanted, Recalls
<1>3. CASE i \in Tracked
  <2>1. /\ work'.todo = work.todo \ {i} /\ work'.tracked = work.tracked \cup {i} /\ work'.cur = i
        /\ work'.rec.paused = eng[i].user
    BY <1>3 DEF SaveReads, Types, Works
  <2>2. eng[i].tracked
    BY <1>3 DEF Tracked
  <2>. QED  BY <1>1, <2>1, <2>2 DEF Fresh, Wanted, Recalls
<1>. QED  BY <1>2, <1>3

LEMMA WritesFresh ==
    ASSUME Types, LockInv, SaveWrites, ~stClosed, NEW j \in Ids, Fresh(j)
    PROVE  Fresh(j)'
<1>1. /\ work.cur # None /\ work.cur \in Ids /\ work.cur \in work.tracked /\ work.rec # None /\ j # None
      /\ UNCHANGED eng /\ recs' = [recs EXCEPT ![work.cur] = work.rec]
  BY NoneAssumption DEF SaveWrites, LockInv, Types, Works
<1>2. work'.todo = work.todo /\ work'.tracked = work.tracked /\ work'.cur = None
  BY DEF SaveWrites, Types, Works
<1>3. DOMAIN recs = Ids
  BY DEF Types
<1>4. CASE j = work.cur
  <2>1. recs'[j] = work.rec
    BY <1>1, <1>3, <1>4
  <2>. QED  BY <1>1, <1>2, <1>4, <2>1 DEF Fresh, Wanted, Recalls
<1>5. CASE j # work.cur
  <2>1. recs'[j] = recs[j]
    BY <1>1, <1>3, <1>5
  <2>. QED  BY <1>1, <1>2, <1>5, <2>1 DEF Fresh, Wanted, Recalls
<1>. QED  BY <1>4, <1>5

\* At the end of the Save, what is fresh is recorded as the engine has it.
LEMMA PrunesFresh ==
    ASSUME Types, SavePrunes, ~stClosed, NEW j \in Ids, Fresh(j)
    PROVE  Recalls(j)' = Wanted(j) /\ Wanted(j)' = Wanted(j)
<1>1. /\ work.todo = {} /\ work.cur = None /\ UNCHANGED eng /\ j # None
      /\ recs'[j] = IF j \in Kept THEN recs[j] ELSE None
  BY NoneAssumption DEF SavePrunes
<1>2. CASE eng[j].tracked
  <2>1. j \in Kept /\ Recalls(j) = Wanted(j)
    BY <1>1, <1>2 DEF Fresh, Kept
  <2>. QED  BY <1>1, <2>1 DEF Recalls, Wanted
<1>3. CASE ~eng[j].tracked
  <2>1. j \notin Kept
    BY <1>3 DEF Fresh, Kept, Tracked
  <2>. QED  BY <1>1, <1>3, <2>1 DEF Recalls, Wanted
<1>. QED  BY <1>2, <1>3

LEMMA ListsFresh ==
    ASSUME Types, NEW who, List(who), UNCHANGED eng, NEW j \in Ids
    PROVE  Fresh(j)'
<1>1. work'.todo = Tracked /\ work'.tracked = {}
  BY DEF List, Idle
<1>. QED  BY <1>1 DEF Fresh, Tracked

LEMMA ResultRecords ==
    ASSUME NEW c \in Commands
    PROVE  c = [op |-> c.op, id |-> c.id] /\ c.op \in Ops /\ c.id \in Ids
BY DEF Commands

\* The phases before shutdown: what RestoreNext, Resumed and the commands show.
LEMMA ShownStep == Known /\ ShownInv /\ [Next]_vars => ShownInv'
<1>. SUFFICES ASSUME Types, LockInv, RecordInv, ShownInv, [Next]_vars PROVE ShownInv'
  BY DEF Known, Base
<1>0. DOMAIN eng = Ids /\ DOMAIN recs = Ids /\ DOMAIN shown = Ids
  BY DEF Types
<1>1. ASSUME UNCHANGED <<phase, eng, cmds, results, replaced, shown>>, phase # "resuming" PROVE ShownInv'
  BY <1>1 DEF ShownInv, ShownRight, Result
<1>2. ASSUME phase' \notin {"resuming", "running"}, UNCHANGED <<cmds, results>> PROVE ShownInv'
  BY <1>2 DEF ShownInv
<1>3. CASE RestoreNext
  <2>1. PICK i \in work.todo :
          /\ Restored(i) \/ RestoredErrored(i) \/ DropDuplicate(i)
          /\ work' = [work EXCEPT !.todo = @ \ {i}]
          /\ minted' = minted \cup {i}
    BY <1>3 DEF RestoreNext
  <2>2. /\ phase = "resuming" /\ phase' = "resuming" /\ UNCHANGED <<cmds, results>>
        /\ i \in Ids /\ recs[i] # None /\ work'.todo = work.todo \ {i}
        /\ recs[i].paused \in BOOLEAN
    <3>1. phase = "resuming" /\ phase' = "resuming" /\ UNCHANGED <<cmds, results>>
      BY <1>3 DEF RestoreNext
    <3>2. i \in Ids /\ recs[i] # None /\ work'.todo = work.todo \ {i}
      BY <2>1, <3>1 DEF LockInv, Recorded, Types, Works
    <3>3. recs[i] \in Records
      BY <3>2 DEF Types
    <3>. QED  BY <3>1, <3>2, <3>3 DEF Records
  <2>3. ~Absent.paused /\ ~Absent.user /\ ~Absent.tracked
    BY DEF Absent
  <2>4. ASSUME NEW j \in Ids
        PROVE  /\ eng'[j].paused <=> eng'[j].user
               /\ j \notin replaced' => shown'[j] = Wanted(j)' /\ (j \in minted' => Recalls(j)' = Wanted(j)')
    <3>0. /\ eng[j].paused <=> eng[j].user
          /\ j \notin replaced => shown[j] = Wanted(j) /\ (j \in minted => Recalls(j) = Wanted(j))
      BY <2>2 DEF ShownInv
    <3>1. CASE Restored(i)
      <4>1. replaced' = replaced \cup Alike(i) /\ recs' = recs /\ i \notin Alike(i)
        BY <3>1 DEF Restored, Alike
      <4>2. CASE j = i
        <5>1. /\ eng'[j].tracked /\ eng'[j].paused = recs[j].paused /\ eng'[j].user = recs[j].paused
              /\ shown'[j] = Told(recs[j].paused)
          BY <3>1, <4>2 DEF Restored
        <5>. QED  BY <2>2, <4>1, <4>2, <5>1 DEF Wanted, Recalls
      <4>3. CASE j # i /\ j \in Alike(i)
        <5>1. eng'[j] = Absent
          BY <3>1, <4>3 DEF Restored
        <5>. QED  BY <2>3, <4>1, <4>3, <5>1
      <4>4. CASE j # i /\ j \notin Alike(i)
        <5>1. eng'[j] = eng[j] /\ shown'[j] = shown[j]
          BY <3>1, <4>4 DEF Restored
        <5>. QED  BY <2>1, <3>0, <4>1, <4>4, <5>1 DEF Wanted, Recalls
      <4>. QED  BY <4>2, <4>3, <4>4
    <3>2. CASE RestoredErrored(i)
      <4>1. replaced' = replaced /\ recs' = recs
        BY <3>2 DEF RestoredErrored
      <4>2. CASE j = i
        <5>1. /\ eng'[j].tracked /\ eng'[j].paused = recs[j].paused /\ eng'[j].user = recs[j].paused
              /\ shown'[j] = Told(recs[j].paused)
          BY <1>0, <3>2, <4>2 DEF RestoredErrored
        <5>. QED  BY <2>2, <4>1, <4>2, <5>1 DEF Wanted, Recalls
      <4>3. CASE j # i
        <5>1. eng'[j] = eng[j] /\ shown'[j] = shown[j]
          BY <1>0, <3>2, <4>3 DEF RestoredErrored
        <5>. QED  BY <2>1, <3>0, <4>1, <4>3, <5>1 DEF Wanted, Recalls
      <4>. QED  BY <4>2, <4>3
    <3>3. CASE DropDuplicate(i)
      <4>1. replaced' = replaced \cup {i} /\ eng' = eng /\ shown' = shown
            /\ (j # i => recs'[j] = recs[j])
        BY <1>0, <3>3 DEF DropDuplicate
      <4>. QED  BY <2>1, <3>0, <4>1 DEF Wanted, Recalls
    <3>. QED  BY <2>1, <3>1, <3>2, <3>3
  <2>5. minted' \cap work'.todo = {}
    BY <2>1, <2>2 DEF ShownInv
  <2>. QED  BY <2>2, <2>4, <2>5 DEF ShownInv
<1>4. CASE Resumed
  <2>1. phase = "resuming" /\ UNCHANGED <<eng, shown, results, cmds, replaced>>
    BY <1>4 DEF Resumed
  <2>2. results = {}
    BY <2>1 DEF LockInv
  <2>3. \A i \in Ids \ replaced : ShownRight(i)'
    BY <2>1, <2>2 DEF ShownInv, ShownRight, Result, Wanted
  <2>. QED  BY <1>4, <2>1, <2>3 DEF Resumed, ShownInv
<1>5. CASE ResumeFails \/ Quit
  BY <1>2, <1>5 DEF ResumeFails, Quit, BeginShutdown
<1>6. ASSUME NEW op \in Ops, NEW i \in Ids, Dispatch(op, i) PROVE ShownInv'
  <2>1. /\ phase = "running" /\ cmds' = cmds \cup {[op |-> op, id |-> i]}
        /\ UNCHANGED <<phase, eng, results, replaced, shown>>
        /\ op \in Alternates => \A c \in cmds \cup results : c.id = i => c.op \notin Alternates
    BY <1>6 DEF Dispatch, Alternates
  <2>2. \A c, d \in cmds' \cup results' : c.id = d.id /\ c.op \in Alternates /\ d.op \in Alternates => c = d
    <3>. DEFINE n == [op |-> op, id |-> i]
    <3>1. n.op = op /\ n.id = i /\ \A c \in cmds' \cup results' : c \in cmds \cup results \/ c = n
      BY <2>1
    <3>. HIDE DEF n
    <3>. QED  BY <2>1, <3>1 DEF ShownInv
  <2>. QED  BY <2>1, <2>2 DEF ShownInv, ShownRight, Result
<1>7. ASSUME NEW c \in cmds, Execute(c) PROVE ShownInv'
  <2>0. /\ c \in Commands /\ c = [op |-> c.op, id |-> c.id] /\ c.op \in Ops /\ c.id \in Ids
        /\ cmds' = cmds \ {c} /\ phase \in {"running", "stopping"} /\ phase' = phase /\ shown' = shown
    BY <1>7, ResultRecords, ExecuteTakes DEF Types
  <2>1. /\ results \subseteq results'
        /\ \A d \in results' : d \in results \/ (d = c /\ ~Joins(c)) \/ (Joins(c) /\ d.op = "add")
    <3>1. CASE Fails(c)
      BY <3>1 DEF Fails
    <3>2. CASE Joins(c)
      BY <3>2 DEF Joins
    <3>3. CASE Taken(c)
      <4>1. results' = results \cup {c}
        BY <3>3 DEF Taken, Adds, Pauses, Unpauses, Removes, Takes
      <4>. QED  BY <4>1, <3>2
    <3>. QED  BY <1>7, <3>1, <3>2, <3>3, ExecuteTakes
  <2>2. \A d, e \in cmds' \cup results' : d.id = e.id /\ d.op \in Alternates /\ e.op \in Alternates => d = e
    <3>1. ASSUME NEW d \in cmds' \cup results', d.op \in Alternates PROVE d \in cmds \cup results
      BY <2>0, <2>1, <3>1 DEF Alternates
    <3>. QED  BY <3>1 DEF ShownInv
  <2>3. ASSUME phase = "running", NEW i \in Ids PROVE eng'[i].paused <=> eng'[i].user
    <3>0. eng[i].paused <=> eng[i].user
      BY <2>3 DEF ShownInv
    <3>1. CASE Fails(c) \/ Joins(c)
      BY <3>0, <3>1 DEF Fails, Joins
    <3>2. CASE Adds(c)
      <4>1. ~Absent.paused /\ ~Absent.user
            /\ ~[Absent EXCEPT !.tracked = TRUE].paused /\ ~[Absent EXCEPT !.tracked = TRUE].user
        BY DEF Absent
      <4>2. eng'[i] \in {Absent, [Absent EXCEPT !.tracked = TRUE], eng[i]}
        BY <3>2 DEF Adds, Takes
      <4>. QED  BY <3>0, <4>1, <4>2
    <3>3. CASE Pauses(c)
      BY <2>0, <3>0, <3>3 DEF Pauses, Takes, Types, Entries
    <3>4. CASE Unpauses(c)
      BY <2>0, <3>0, <3>4 DEF Unpauses, Takes, Types, Entries
    <3>5. CASE Removes(c)
      <4>1. ~Absent.paused /\ ~Absent.user
        BY DEF Absent
      <4>2. eng'[i] \in {Absent, eng[i]}
        BY <1>0, <2>0, <3>5 DEF Removes, Takes
      <4>. QED  BY <3>0, <4>1, <4>2
    <3>. QED  BY <1>7, <3>1, <3>2, <3>3, <3>4, <3>5, ExecuteTakes DEF Taken
  <2>4. ASSUME phase = "running", NEW i \in Ids \ replaced' PROVE ShownRight(i)'
    <3>1. CASE i # c.id \/ Fails(c) \/ Joins(c)
      <4>1. i \notin replaced /\ eng'[i] = eng[i]
        BY <1>7, <2>4, <3>1, OthersStay
      <4>2. ShownRight(i)
        BY <2>4, <4>1 DEF ShownInv
      <4>3. /\ Result("pause", i)' <=> Result("pause", i)
            /\ Result("resume", i)' <=> Result("resume", i)
            /\ Result("remove", i) => Result("remove", i)'
            /\ Result("add", i) => Result("add", i)'
        <5>1. CASE Fails(c)
          BY <5>1 DEF Fails, Result
        <5>2. CASE Joins(c)
          BY <5>2 DEF Joins, Result
        <5>3. CASE Taken(c) /\ i # c.id
          <6>1. results' = results \cup {c}
            BY <5>3 DEF Taken, Adds, Pauses, Unpauses, Removes, Takes
          <6>2. \A op : [op |-> op, id |-> i] # c
            BY <5>3
          <6>. QED  BY <6>1, <6>2 DEF Result
        <5>. QED  BY <1>7, <3>1, <5>1, <5>2, <5>3, ExecuteTakes
      <4>. QED  BY <2>0, <4>1, <4>2, <4>3 DEF ShownRight
    <3>2. CASE i = c.id /\ Adds(c)
      <4>1. i \notin minted /\ results' = results \cup {c} /\ eng'[i] = [Absent EXCEPT !.tracked = TRUE] /\ i \notin replaced
        BY <2>0, <2>4, <3>2 DEF Adds, Takes
      <4>2. eng'[i].tracked /\ ~eng'[i].user
        BY <4>1 DEF Absent
      <4>3. \A op : ~Result(op, i)
        BY <4>1 DEF Result, RecordInv
      <4>4. ~eng[i].tracked
        BY <4>1 DEF RecordInv, Tracked
      <4>5. shown[i] = "none"
        BY <2>4, <4>1, <4>3, <4>4 DEF ShownInv, ShownRight
      <4>6. c.op = "add"
        BY <3>2 DEF Adds
      <4>7. Result("add", i)' /\ ~Result("pause", i)' /\ ~Result("resume", i)'
        BY <2>0, <3>2, <4>1, <4>3, <4>6 DEF Result
      <4>. QED  BY <2>0, <4>2, <4>5, <4>7 DEF ShownRight
    <3>3. CASE i = c.id /\ Pauses(c)
      <4>1. c.op = "pause" /\ results' = results \cup {c} /\ eng[i].tracked
        BY <3>3 DEF Pauses, Takes, Tracked
      <4>2. eng'[i].tracked /\ eng'[i].user
        <5>1. eng[i].paused <=> eng[i].user
          BY <2>4 DEF ShownInv
        <5>. QED  BY <2>0, <3>3, <4>1, <5>1 DEF Pauses, Takes, Types, Entries
      <4>3. ~Result("resume", i)
        <5>. SUFFICES ASSUME Result("resume", i) PROVE FALSE
          OBVIOUS
        <5>1. [op |-> "resume", id |-> i] = c
          BY <3>3, <4>1 DEF Result, ShownInv, Alternates
        <5>. QED  BY <4>1, <5>1
      <4>4. Result("pause", i)' /\ ~Result("resume", i)'
        BY <2>0, <3>3, <4>1, <4>3 DEF Result
      <4>. QED  BY <4>2, <4>4 DEF ShownRight
    <3>4. CASE i = c.id /\ Unpauses(c)
      <4>1. c.op = "resume" /\ results' = results \cup {c} /\ eng[i].tracked
        BY <3>4 DEF Unpauses, Takes, Tracked
      <4>2. eng'[i].tracked /\ ~eng'[i].user
        BY <2>0, <3>4, <4>1 DEF Unpauses, Takes, Types, Entries
      <4>3. ~Result("pause", i)
        <5>. SUFFICES ASSUME Result("pause", i) PROVE FALSE
          OBVIOUS
        <5>1. [op |-> "pause", id |-> i] = c
          BY <3>4, <4>1 DEF Result, ShownInv, Alternates
        <5>. QED  BY <4>1, <5>1
      <4>4. Result("resume", i)' /\ ~Result("pause", i)'
        BY <2>0, <3>4, <4>1, <4>3 DEF Result
      <4>. QED  BY <4>2, <4>4 DEF ShownRight
    <3>5. CASE i = c.id /\ Removes(c)
      <4>1. c.op = "remove" /\ results' = results \cup {c} /\ eng'[i] = Absent
        BY <1>0, <2>0, <3>5 DEF Removes, Takes
      <4>2. ~eng'[i].tracked /\ Result("remove", i)'
        BY <2>0, <3>5, <4>1 DEF Absent, Result
      <4>. QED  BY <4>2 DEF ShownRight
    <3>. QED  BY <1>7, <3>1, <3>2, <3>3, <3>4, <3>5, ExecuteTakes DEF Taken
  <2>. QED  BY <2>0, <2>2, <2>3, <2>4 DEF ShownInv
<1>8. ASSUME NEW c \in results, Handle(c) PROVE ShownInv'
  <2>0. c = [op |-> c.op, id |-> c.id] /\ c.op \in Ops /\ c.id \in Ids
    BY ResultRecords DEF Types
  <2>1. /\ phase = "running" /\ phase' = "running" /\ UNCHANGED <<eng, cmds, replaced>>
        /\ results' = results \ {c} /\ shown' = Sees(c)
    BY <1>8 DEF Handle
  <2>2. ASSUME NEW j \in Ids \ replaced PROVE ShownRight(j)'
    <3>0. ShownRight(j) /\ Told(TRUE) = "paused" /\ Told(FALSE) = "running"
      BY <2>1 DEF ShownInv, Told
    <3>1. CASE ~eng[j].tracked
      <4>1. shown'[j] = "none"
        BY <2>1, <3>1 DEF Sees, Tracked
      <4>. QED  BY <2>1, <3>1, <4>1 DEF ShownRight
    <3>2. CASE eng[j].tracked /\ j # c.id
      <4>1. shown'[j] = shown[j]
        BY <2>1, <3>2 DEF Sees, Tracked
      <4>2. \A op : Result(op, j)' <=> Result(op, j)
        BY <2>0, <2>1, <3>2 DEF Result
      <4>. QED  BY <2>1, <3>0, <4>1, <4>2 DEF ShownRight
    <3>3. CASE eng[j].tracked /\ j = c.id /\ c.op \in Alternates
      <4>1. shown'[j] = IF c.op = "pause" THEN "paused" ELSE "running"
        BY <2>1, <3>3 DEF Sees, Tracked, Alternates
      <4>2. Result(c.op, j)
        BY <2>0, <3>3 DEF Result
      <4>3. \A op \in Alternates : ~Result(op, j)'
        <5>1. ASSUME NEW op \in Alternates, [op |-> op, id |-> j] \in results PROVE [op |-> op, id |-> j] = c
          BY <3>3, <5>1 DEF ShownInv
        <5>. QED  BY <2>1, <5>1 DEF Result
      <4>4. eng[j].user \in BOOLEAN /\ (eng[j].user <=> c.op = "pause")
        <5>1. eng[j].user \in BOOLEAN
          BY DEF Types, Entries
        <5>. QED  BY <3>0, <3>3, <4>2, <5>1 DEF ShownRight, Alternates
      <4>5. shown'[j] = Told(eng[j].user)
        BY <3>0, <4>1, <4>4
      <4>6. ~Result("pause", j)' /\ ~Result("resume", j)'
        BY <4>3 DEF Alternates
      <4>. QED  BY <2>1, <3>3, <4>5, <4>6 DEF ShownRight
    <3>4. CASE eng[j].tracked /\ j = c.id /\ c.op \notin Alternates
      <4>1. shown'[j] = IF shown[j] = "none" THEN "running" ELSE shown[j]
        BY <2>1, <3>4 DEF Sees, Tracked, Alternates
      <4>2. (Result("pause", j)' <=> Result("pause", j)) /\ (Result("resume", j)' <=> Result("resume", j))
        BY <2>0, <2>1, <3>4 DEF Result, Alternates
      <4>3. eng[j].user \in BOOLEAN /\ Told(eng[j].user) # "none"
        BY DEF Types, Entries, Told
      <4>4. ~Result("pause", j) /\ ~Result("resume", j) => shown'[j] = Told(eng[j].user)
        BY <3>0, <3>4, <4>1, <4>3 DEF ShownRight
      <4>. QED  BY <2>1, <3>0, <3>4, <4>2, <4>4 DEF ShownRight
    <3>. QED  BY <3>1, <3>2, <3>3, <3>4
  <2>. QED  BY <2>1, <2>2 DEF ShownInv
<1>9. CASE Save
  <2>1. phase # "resuming"
    BY <1>9 DEF Save, SaveBegins, SaveReads, SaveWrites, SavePrunes, Alive
  <2>. QED  BY <1>1, <1>9, <2>1 DEF Save, SaveBegins, List, SaveReads, SaveWrites, SavePrunes
<1>10. CASE Flush
  <2>1. UNCHANGED <<phase, eng, cmds, results, replaced, shown, work, minted, recs>>
    BY <1>10 DEF Flush
  <2>. QED  BY <2>1 DEF ShownInv, ShownRight, Result, Wanted, Recalls
<1>11. CASE Shutdown
  <2>1. phase' \in {"stopping", "down"} /\ UNCHANGED <<cmds, results>>
    BY <1>11 DEF Shutdown, PauseAll, CloseBegins, FlushStep, CloseEngine, CloseStore, NextStep, Running
  <2>. QED  BY <1>2, <2>1
<1>12. CASE Restart
  <2>1. /\ cmds' = {} /\ results' = {} /\ minted' = {} /\ phase' = "resuming"
        /\ \A i \in Ids : eng'[i] = Absent /\ shown'[i] = "none"
    BY <1>12 DEF Restart, Start
  <2>2. ~Absent.paused /\ ~Absent.user /\ ~Absent.tracked
    BY DEF Absent
  <2>. QED  BY <2>1, <2>2 DEF ShownInv, Wanted
<1>13. CASE UNCHANGED vars
  BY <1>13 DEF vars, ShownInv, ShownRight, Result, Wanted, Recalls
<1>. QED
  BY <1>3, <1>4, <1>5, <1>6, <1>7, <1>8, <1>9, <1>10, <1>11, <1>12, <1>13 DEF Next, Command

\* Each record that is behind is about to be saved.
LEMMA SavedStep == Known /\ ShownInv /\ SavedInv /\ [Next]_vars => SavedInv'
<1>. SUFFICES ASSUME Types, LockInv, RecordInv, CalmInv, ShownInv, SavedInv, [Next]_vars,
                     phase' = "running", NEW i \in Ids \ replaced'
              PROVE  \/ waiting' > 0
                     \/ Pending(i)'
                     \/ lock' = "save" /\ Fresh(i)'
                     \/ lock' = "free" /\ Recalls(i)' = Wanted(i)'
  BY DEF Known, Base, StepsInv, SavedInv
<1>. DEFINE Goal == \/ waiting' > 0
                    \/ Pending(i)'
                    \/ lock' = "save" /\ Fresh(i)'
                    \/ lock' = "free" /\ Recalls(i)' = Wanted(i)'
            Now == \/ waiting > 0
                   \/ Pending(i)
                   \/ lock = "save" /\ Fresh(i)
                   \/ lock = "free" /\ Recalls(i) = Wanted(i)
<1>0. phase = "running" /\ i \notin replaced => Now /\ resumed /\ ~closed /\ ~engClosed /\ ~stClosed
                                                /\ lock \in {"free", "save"}
  <2>1. phase = "running" => lock # "resume" /\ lock # "close" /\ resumed
    BY DEF LockInv, CalmInv
  <2>. QED  BY <2>1 DEF SavedInv, CalmInv, Types
<1>1. ASSUME UNCHANGED <<phase, waiting, results, lock, work, eng, recs, replaced>> PROVE Goal
  BY <1>0, <1>1 DEF Pending, Fresh, Wanted, Recalls
<1>2. CASE Resumed
  <2>1. phase = "resuming" /\ work.todo = {} /\ UNCHANGED <<eng, recs, replaced>> /\ lock' = "free"
    BY <1>2 DEF Resumed
  <2>2. i \in minted => Recalls(i) = Wanted(i)
    BY <2>1 DEF ShownInv
  <2>3. i \notin minted => ~eng[i].tracked /\ recs[i] = None
    BY <2>1 DEF RecordInv, Tracked, Recorded
  <2>4. Recalls(i) = Wanted(i)
    BY <2>2, <2>3 DEF Recalls, Wanted
  <2>. QED  BY <2>1, <2>4 DEF Recalls, Wanted
<1>3. ASSUME NEW op \in Ops, NEW j \in Ids, Dispatch(op, j) PROVE Goal
  BY <1>1, <1>3 DEF Dispatch
<1>4. ASSUME NEW c \in cmds, Execute(c) PROVE Goal
  <2>1. phase = "running" /\ UNCHANGED <<waiting, lock, work, recs>>
    BY <1>4, ExecuteTakes
  <2>2. results \subseteq results'
    BY <1>4, ExecuteTakes DEF Fails, Joins, Taken, Adds, Pauses, Unpauses, Removes, Takes
  <2>3. CASE i # c.id \/ Fails(c) \/ Joins(c)
    <3>1. i \notin replaced /\ eng'[i] = eng[i]
      BY <1>4, <2>3, OthersStay
    <3>2. Pending(i) => Pending(i)'
      BY <2>2 DEF Pending
    <3>. QED  BY <1>0, <2>1, <3>1, <3>2 DEF Fresh, Wanted, Recalls
  <2>4. CASE i = c.id /\ Taken(c)
    <3>1. c \in results'
      BY <2>4 DEF Taken, Adds, Pauses, Unpauses, Removes, Takes
    <3>. QED  BY <2>4, <3>1 DEF Pending
  <2>. QED  BY <1>4, <2>3, <2>4, ExecuteTakes
<1>5. ASSUME NEW c \in results, Handle(c) PROVE Goal
  BY <1>5 DEF Handle, Types
<1>6. CASE SaveBegins
  <2>1. phase = "running" /\ UNCHANGED <<eng, recs, replaced, results>>
    BY <1>6 DEF SaveBegins
  <2>2. List("save")
    BY <1>0, <1>6, <2>1 DEF SaveBegins, Saves
  <2>. QED  BY <2>1, <2>2, ListsFresh DEF List
<1>7. ASSUME NEW j \in Ids, SaveReads(j) PROVE Goal
  <2>1. phase = "running" /\ lock = "save" /\ UNCHANGED <<waiting, results, lock, replaced>>
    BY <1>0, <1>7 DEF SaveReads
  <2>. QED  BY <1>0, <1>7, <2>1, ReadsFresh DEF Pending
<1>8. CASE SaveWrites
  <2>1. phase = "running" /\ lock = "save" /\ UNCHANGED <<waiting, results, lock, replaced>>
    BY <1>0, <1>8 DEF SaveWrites
  <2>. QED  BY <1>0, <1>8, <2>1, WritesFresh DEF Pending
<1>9. CASE SavePrunes
  <2>1. phase = "running" /\ lock = "save" /\ lock' = "free" /\ UNCHANGED <<waiting, results, replaced>>
    BY <1>0, <1>9 DEF SavePrunes
  <2>. QED  BY <1>0, <1>9, <2>1, PrunesFresh DEF Pending
<1>10. CASE Flush
  BY <1>1, <1>10 DEF Flush
<1>11. ~RestoreNext /\ ~ResumeFails /\ ~Quit /\ ~Shutdown /\ ~Restart
  BY DEF RestoreNext, ResumeFails, Quit, BeginShutdown, Shutdown, PauseAll, CloseBegins, FlushStep,
         CloseEngine, CloseStore, NextStep, Running, Restart, Start
<1>12. CASE UNCHANGED vars
  BY <1>1, <1>12 DEF vars
<1>. QED
  BY <1>2, <1>3, <1>4, <1>5, <1>6, <1>7, <1>8, <1>9, <1>10, <1>11, <1>12 DEF Next, Command, Save

\* Those shown are recorded by the shutdown's own Save, and stay so.
LEMMA StopStep == Known /\ ShownInv /\ StopInv /\ [Next]_vars => StopInv'
<1>. SUFFICES ASSUME Types, LockInv, RecordInv, CalmInv, OrderInv, ShownInv, StopInv, [Next]_vars,
                     phase' \in {"stopping", "down"}
              PROVE  /\ \A c \in cmds' : c.id \in lost'
                     /\ resumed' => \A i \in Untouched' : shown'[i] = Wanted(i)'
                     /\ resumed' /\ ~late' => \A i \in Untouched' :
                          /\ lock' = "close" => Fresh(i)'
                          /\ ran'["save"] = "done" => Recalls(i)' = shown'[i]
  BY DEF Known, Base, StepsInv, StopInv
<1>. DEFINE Goal == /\ \A c \in cmds' : c.id \in lost'
                    /\ resumed' => \A i \in Untouched' : shown'[i] = Wanted(i)'
                    /\ resumed' /\ ~late' => \A i \in Untouched' :
                         /\ lock' = "close" => Fresh(i)'
                         /\ ran'["save"] = "done" => Recalls(i)' = shown'[i]
<1>0. /\ lock = "close" /\ ~late /\ phase = "stopping" => ~engClosed /\ ~stClosed
      /\ Saving /\ ~late /\ phase = "stopping" => ran["save"] # "done"
  <2>1. lock = "close" /\ ~late /\ phase = "stopping" => step = "save" /\ ran["save"] = "running"
    BY DEF OrderInv, Steps
  <2>2. Before["save"] = {"pause"} /\ "engine" \in Steps /\ "store" \in Steps
    BY DEF Before, Steps
  <2>3. Saving => resumed /\ lock # "free"
    BY DEF LockInv, Saving
  <2>. QED  BY <2>1, <2>2, <2>3 DEF OrderInv
<1>1. ASSUME UNCHANGED <<phase, cmds, lost, replaced, resumed, late, lock, eng, recs, shown, work>>,
             ran'["save"] = "done" => ran["save"] = "done"
      PROVE  Goal
  BY <1>1 DEF StopInv, Untouched, Fresh, Wanted, Recalls
<1>2. CASE ResumeFails
  <2>1. phase = "resuming" /\ UNCHANGED <<cmds, resumed>>
    BY <1>2 DEF ResumeFails
  <2>. QED  BY <2>1 DEF LockInv
<1>3. CASE Quit
  <2>1. /\ phase = "running" /\ lost' = {c.id : c \in cmds \cup results} /\ ran' = [ran EXCEPT !["pause"] = "running"]
        /\ UNCHANGED <<cmds, results, replaced, resumed, late, lock, eng, recs, shown, work>>
    BY <1>3 DEF Quit, BeginShutdown
  <2>2. lock # "close" /\ ran'["save"] = "idle"
    BY <2>1 DEF CalmInv, Steps, Types
  <2>3. ASSUME NEW i \in Untouched' PROVE shown[i] = Wanted(i)
    <3>1. i \in Ids \ replaced /\ ~Pending(i)
      BY <2>1 DEF Untouched, Pending
    <3>2. ShownRight(i) /\ \A op : ~Result(op, i)
      BY <2>1, <3>1 DEF ShownInv, Pending, Result
    <3>. QED  BY <3>2 DEF ShownRight, Wanted
  <2>. QED  BY <2>1, <2>2, <2>3 DEF Wanted
<1>4. ASSUME NEW c \in cmds, Execute(c) PROVE Goal
  <2>1. phase = "stopping" /\ UNCHANGED <<lost, resumed, late, lock, recs, shown, work, ran>> /\ cmds' = cmds \ {c}
    BY <1>4, ExecuteTakes
  <2>2. c.id \in lost
    BY <2>1 DEF StopInv
  <2>3. ASSUME NEW i \in Untouched' PROVE i \in Untouched /\ eng'[i] = eng[i]
    <3>1. i \in Ids /\ i # c.id /\ i \notin replaced' /\ i \notin lost
      BY <2>1, <2>2 DEF Untouched
    <3>. QED  BY <1>4, <3>1, OthersStay DEF Untouched
  <2>. QED  BY <2>1, <2>3 DEF StopInv, Fresh, Wanted, Recalls
<1>5. CASE SaveBegins
  <2>1. lock' # "close" \/ lock' = lock
    BY <1>5 DEF SaveBegins, List
  <2>2. lock = "free"
    BY <1>5 DEF SaveBegins
  <2>3. phase' = phase /\ UNCHANGED <<cmds, lost, replaced, resumed, late, eng, recs, shown, ran>>
    BY <1>5 DEF SaveBegins
  <2>. QED  BY <2>1, <2>2, <2>3 DEF StopInv, Untouched, Wanted, Recalls
<1>6. ASSUME NEW j \in Ids, SaveReads(j) PROVE Goal
  <2>1. phase = "stopping" /\ phase' = phase
        /\ UNCHANGED <<cmds, lost, replaced, resumed, late, lock, eng, recs, shown, ran>>
    BY <1>6 DEF SaveReads, Alive
  <2>. QED  BY <1>0, <1>6, <2>1, ReadsFresh DEF StopInv, Untouched, Wanted, Recalls
<1>7. CASE SaveWrites
  <2>1. phase = "stopping" /\ phase' = phase /\ Saving
        /\ UNCHANGED <<cmds, lost, replaced, resumed, late, lock, eng, shown, ran>>
    BY <1>7 DEF SaveWrites, Alive, Saving
  <2>. QED  BY <1>0, <1>7, <2>1, WritesFresh DEF StopInv, Untouched, Wanted
<1>8. CASE SavePrunes
  <2>1. phase = "stopping" /\ phase' = phase /\ Saving /\ lock' = "free"
        /\ UNCHANGED <<cmds, lost, replaced, resumed, late, eng, shown>>
        /\ (lock # "close" => ran' = ran)
    BY <1>8 DEF SavePrunes, Alive, Saving
  <2>2. ASSUME resumed, ~late, NEW i \in Untouched, ran'["save"] = "done" PROVE Recalls(i)' = shown[i]
    <3>1. lock = "close" /\ Fresh(i) /\ shown[i] = Wanted(i) /\ ~stClosed
      BY <1>0, <2>1, <2>2 DEF StopInv
    <3>. QED  BY <1>8, <3>1, PrunesFresh DEF Untouched
  <2>. QED  BY <2>1, <2>2 DEF StopInv, Untouched, Wanted
<1>9. CASE Flush \/ FlushStep \/ CloseEngine \/ CloseStore
  <2>1. ran'["save"] = "done" => ran["save"] = "done"
    BY <1>9 DEF Flush, FlushStep, CloseEngine, CloseStore, Finish, Types, Steps
  <2>. QED  BY <1>1, <1>9, <2>1 DEF Flush, FlushStep, CloseEngine, CloseStore
<1>10. CASE PauseAll
  <2>1. /\ phase = "stopping" /\ phase' = phase
        /\ UNCHANGED <<cmds, lost, replaced, resumed, late, lock, recs, shown, work>>
    BY <1>10 DEF PauseAll, Running
  <2>2. ran'["save"] = ran["save"]
    BY <1>10 DEF PauseAll, Finish, Types, Steps
  <2>3. \A i \in Ids : (eng'[i].tracked <=> eng[i].tracked) /\ eng'[i].user = eng[i].user
    BY <1>10 DEF PauseAll, Types, Entries
  <2>4. \A i \in Ids : Wanted(i)' = Wanted(i) /\ Recalls(i)' = Recalls(i)
    BY <2>1, <2>3 DEF Wanted, Recalls
  <2>5. \A i \in Ids : Fresh(i)' <=> Fresh(i)
    BY <2>1, <2>3, <2>4 DEF Fresh
  <2>. QED  BY <2>1, <2>2, <2>4, <2>5 DEF StopInv, Untouched
<1>11. CASE CloseBegins
  <2>1. /\ phase = "stopping" /\ phase' = phase /\ Running("save") /\ lock = "free"
        /\ UNCHANGED <<cmds, lost, replaced, resumed, late, eng, recs, shown>>
    BY <1>11 DEF CloseBegins, Running
  <2>2. CASE Saves
    <3>1. List("close") /\ ran' = ran
      BY <1>11, <2>2 DEF CloseBegins
    <3>2. \A i \in Ids : Fresh(i)'
      BY <2>1, <3>1, ListsFresh
    <3>. QED  BY <2>1, <3>1, <3>2 DEF StopInv, Untouched, Wanted, Recalls, Running
  <2>3. CASE ~Saves
    <3>1. ~resumed \/ late
      BY <2>1, <2>3 DEF Saves, OrderInv, Running
    <3>. QED  BY <2>1, <3>1 DEF StopInv, Untouched, Wanted
  <2>. QED  BY <2>2, <2>3
<1>12. CASE NextStep
  <2>1. /\ phase = "stopping"
        /\ UNCHANGED <<cmds, lost, replaced, resumed, lock, eng, recs, shown, work>>
    BY <1>12 DEF NextStep
  <2>2. ~late' => ~late
    BY <1>12 DEF NextStep
  <2>3. ran'["save"] = "done" => ran["save"] = "done"
    BY <1>12 DEF NextStep, After, Types, Steps
  <2>. QED  BY <2>1, <2>2, <2>3 DEF StopInv, Untouched, Fresh, Wanted, Recalls
<1>13. ~RestoreNext /\ ~Resumed /\ ~(\E op \in Ops, i \in Ids : Dispatch(op, i)) /\ ~(\E c \in results : Handle(c)) /\ ~Restart
  BY DEF RestoreNext, Resumed, Dispatch, Handle, Restart, Start
<1>14. CASE UNCHANGED vars
  BY <1>1, <1>14 DEF vars
<1>. QED
  BY <1>2, <1>3, <1>4, <1>5, <1>6, <1>7, <1>8, <1>9, <1>10, <1>11, <1>12, <1>13, <1>14 DEF Next, Command, Save, Shutdown

(***************************************************************************)
(* "A pause or resume that took is saved": whenever the saves the commands *)
(* asked for are done and the store has flushed, and after a shutdown none *)
(* of whose steps timed out, the file says of every torrent what the user  *)
(* was shown - but for one whose result is still to come, or whose place   *)
(* another of its infohash took. It holds for any torrents and commands,   *)
(* in whatever order results are handled and saves run (handleAddResult,   *)
(* saveSessionCmd, Session.Save and Shutdown).                             *)
(***************************************************************************)
THEOREM FileSaysWhatWasShown == Spec => []SavedAsShown
<1>1. Init => Known /\ AgreeInv
  <2>. SUFFICES ASSUME Init PROVE Known /\ AgreeInv
    OBVIOUS
  <2>1. \A i \in Ids : eng[i] = Absent /\ shown[i] = "none"
    BY DEF Init
  <2>2. ~Absent.tracked /\ ~Absent.paused /\ ~Absent.user
    BY DEF Absent
  <2>3. ShownInv
    BY <2>1, <2>2 DEF Init, ShownInv, Wanted
  <2>4. SavedInv /\ StopInv
    BY DEF Init, SavedInv, StopInv
  <2>. QED  BY <2>3, <2>4, BaseInit, RecordInit, StepsInit DEF Known, AgreeInv
<1>2. Known /\ AgreeInv /\ [Next]_vars => (Known /\ AgreeInv)'
  BY BaseStep, RecordStep, OrderStep, ShownStep, SavedStep, StopStep DEF Known, AgreeInv
<1>3. Known /\ AgreeInv => SavedAsShown
  <2>. SUFFICES ASSUME Types, LockInv, OrderInv, ShownInv, SavedInv, StopInv PROVE SavedAsShown
    BY DEF Known, Base, StepsInv, AgreeInv
  <2>1. disk = recs => \A i \in Ids : Says(i) = Recalls(i)
    BY DEF Says, Recalls
  <2>2. ASSUME phase = "down", ~late, resumed, NEW i \in Ids \ (lost \cup replaced) PROVE Says(i) = shown[i]
    <3>1. ran["store"] = "done" /\ step = "store" /\ "save" \in Before["store"]
      BY <2>2 DEF OrderInv, Before, Steps
    <3>2. disk = recs /\ ran["save"] = "done"
      BY <2>2, <3>1 DEF OrderInv
    <3>. QED  BY <2>1, <2>2, <3>2 DEF StopInv, Untouched
  <2>3. ASSUME Quiet, NEW i \in Ids \ replaced, \A c \in cmds \cup results : c.id # i PROVE Says(i) = shown[i]
    <3>1. phase = "running" /\ waiting = 0 /\ lock = "free" /\ disk = recs
      BY <2>3 DEF Quiet
    <3>2. ~Pending(i) /\ \A op : ~Result(op, i)
      BY <2>3 DEF Pending, Result
    <3>3. Recalls(i) = Wanted(i)
      BY <3>1, <3>2 DEF SavedInv
    <3>4. shown[i] = Wanted(i)
      BY <3>1, <3>2 DEF ShownInv, ShownRight, Wanted
    <3>. QED  BY <2>1, <3>1, <3>3, <3>4
  <2>. QED  BY <2>2, <2>3 DEF SavedAsShown, CleanExit, SavedWhenQuiet
<1>. QED  BY <1>1, <1>2, <1>3, PTL DEF Spec
=============================================================================

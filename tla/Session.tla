------------------------------ MODULE Session ------------------------------
(***************************************************************************)
(* The session (internal/lifecycle): Resume puts the recorded torrents     *)
(* back into the engine at startup, Save records what the engine tracks,   *)
(* SetTorrent records what the add flow knows, and Shutdown runs its steps *)
(* - pause, save, flush, close - each with a timeout after which the step  *)
(* is left running. The TUI's commands call the engine on goroutines of    *)
(* their own and hand their results to the Update goroutine, which saves.  *)
(*                                                                         *)
(* The engine and the store are seen through their ports: the torrents the *)
(* engine tracks with the pauses the user asked for, the records in the    *)
(* store's memory and those in its file. The process may end at any step.  *)
(***************************************************************************)
EXTENDS Naturals, FiniteSets

CONSTANTS
    Ids,          \* torrent ids
    Hashings,     \* which torrents may share an infohash: see hashOf
    None,
    Saved,        \* records the first start may find in the file
    Calls,        \* subset of CallKinds
    MaxCommands,  \* bound on the commands the user gives
    MaxStarts     \* bound on the times the program starts

\* TorrentRecord: Paused, and whether it has what only the add flow knows (the
\* result's title and origin).
Records == [paused : BOOLEAN, mine : BOOLEAN]

CallKinds == {"add", "pause", "remove", "restorefails", "resumefails", "timeouts", "crash"}

ASSUME NoneAssumption == None \notin Ids \cup Records
ASSUME SavedAssumption == Saved \subseteq Records
ASSUME HashingsAssumption == \A h \in Hashings : DOMAIN h = Ids
ASSUME CallsAssumption == Calls \subseteq CallKinds
ASSUME BoundsAssumption == MaxCommands \in Nat /\ MaxStarts \in Nat

VARIABLES
    phase,      \* of the process: see Phases
    eng,        \* eng[i]: what the engine tracks under i
    engClosed,
    recs,       \* recs[i]: the record in the store's memory
    disk,       \* disk[i]: the record in its file
    stClosed,   \* the store is closed
    lock,       \* who holds Session.mu
    resumed,    \* Session.resumed
    closed,     \* Session.closed
    work,       \* the Resume or Save that holds the lock: see Work
    waiting,    \* Save commands waiting for the lock
    cmds,       \* commands on their way to the engine
    results,    \* their results, on their way to Update
    step,       \* the step Shutdown has reached
    ran,        \* ran[s]: what became of step s
    minted,     \* ids this process has used
    commands, starts,
    hashOf,     \* hashOf[i]: the infohash of torrent i, or None for a URL
    shown,      \* what Update last told the user of i
    pausedByUser, removed, replaced, lost, late

\* shown to late are ghosts: pausedByUser, removed and replaced name torrents
\* the user ever paused, removed, or whose place another of the same infohash
\* took; lost those with a command in flight when the user quit; late is set
\* once a step has timed out.

session == <<lock, resumed, closed, work, waiting>>
ui      == <<cmds, results, commands, shown, pausedByUser>>
store   == <<recs, disk, stClosed>>
engine  == <<eng, engClosed, minted>>
ending  == <<step, ran, lost, late>>
given   == <<starts, hashOf>>
forgotten == <<removed, replaced>>
vars    == <<phase, session, ui, store, engine, ending, given, forgotten>>

Phases == {"resuming", "running", "stopping", "down"}

\* Engine: tracked or not, refused, paused, and whether by the user (userPaused).
Absent == [tracked |-> FALSE, refused |-> FALSE, paused |-> FALSE, user |-> FALSE]

Steps == {"pause", "save", "flush", "engine", "store"}

Tracked == {i \in Ids : eng[i].tracked}
Recorded(r) == {i \in Ids : r[i] # None}

\* What is left to do for the holder of the lock: the ids to restore or to
\* save, the record read for one, those seen as tracked, those that failed.
Idle == [todo |-> {}, cur |-> None, rec |-> None, tracked |-> {}, failed |-> {}]

----------------------------------------------------------------------------
(* Starting. *)

\* What the file may hold is what an earlier session left there.
Start(d) ==
    /\ phase' = "resuming"
    /\ eng' = [i \in Ids |-> Absent]
    /\ engClosed' = FALSE /\ stClosed' = FALSE /\ resumed' = FALSE /\ closed' = FALSE
    /\ recs' = d
    /\ lock' = "resume"
    /\ work' = [Idle EXCEPT !.todo = Recorded(d)]
    /\ waiting' = 0
    /\ cmds' = {} /\ results' = {} /\ lost' = {} /\ minted' = {}
    /\ step' = "none"
    /\ ran' = [s \in Steps |-> "idle"]
    /\ late' = FALSE
    /\ shown' = [i \in Ids |-> "none"]
    /\ pausedByUser' = {i \in Recorded(d) : d[i].paused}

Init ==
    /\ phase = "resuming"
    /\ eng = [i \in Ids |-> Absent]
    /\ engClosed = FALSE /\ stClosed = FALSE /\ resumed = FALSE /\ closed = FALSE
    /\ disk \in [Ids -> Saved \cup {None}]
    /\ recs = disk
    /\ lock = "resume"
    /\ work = [Idle EXCEPT !.todo = Recorded(disk)]
    /\ waiting = 0
    /\ cmds = {} /\ results = {} /\ lost = {} /\ minted = {}
    /\ step = "none"
    /\ ran = [s \in Steps |-> "idle"]
    /\ late = FALSE
    /\ shown = [i \in Ids |-> "none"]
    /\ pausedByUser = {i \in Recorded(disk) : disk[i].paused}
    /\ hashOf \in Hashings /\ commands = 0 /\ starts = 1 /\ removed = {} /\ replaced = {}

\* The program is started again, after it ended or crashed.
Restart ==
    /\ starts < MaxStarts
    /\ phase = "down" \/ "crash" \in Calls
    /\ starts' = starts + 1
    /\ Start(disk)
    /\ UNCHANGED <<disk, commands, hashOf, forgotten>>

----------------------------------------------------------------------------
(* Resume. *)

\* Entries the engine holds for i's infohash: live ones, and refused ones a
\* restore of it untracks.
Alike(i) == {j \in Tracked \ {i} : hashOf[i] # None /\ hashOf[j] = hashOf[i]}
Live(i)  == {j \in Alike(i) : ~eng[j].refused}

Told(paused) == IF paused THEN "paused" ELSE "running"

\* One record restored as it was.
Restored(i) ==
    /\ Live(i) = {}
    /\ LET p == recs[i].paused
       IN /\ eng' = [j \in Ids |->
                IF j = i THEN [tracked |-> TRUE, refused |-> FALSE, paused |-> p, user |-> p]
                ELSE IF j \in Alike(i) THEN Absent ELSE eng[j]]
          /\ shown' = [j \in Ids |-> IF j = i THEN Told(p) ELSE IF j \in Alike(i) THEN "none" ELSE shown[j]]
    /\ replaced' = replaced \cup Alike(i)
    /\ UNCHANGED <<recs, removed>>

\* Its data or its destination is missing: tracked as errored.
RestoredErrored(i) ==
    /\ "restorefails" \in Calls
    /\ eng' = [eng EXCEPT ![i] = [tracked |-> TRUE, refused |-> TRUE,
                                  paused |-> recs[i].paused, user |-> recs[i].paused]]
    /\ shown' = [shown EXCEPT ![i] = Told(recs[i].paused)]
    /\ UNCHANGED <<recs, forgotten>>

\* The engine handed back a torrent this pass has restored: the record goes.
DropDuplicate(i) ==
    /\ Live(i) # {}
    /\ recs' = [recs EXCEPT ![i] = None]
    /\ replaced' = replaced \cup {i}
    /\ UNCHANGED <<eng, shown, removed>>

RestoreNext ==
    /\ phase = "resuming"
    /\ \E i \in work.todo :
        /\ Restored(i) \/ RestoredErrored(i) \/ DropDuplicate(i)
        /\ work' = [work EXCEPT !.todo = @ \ {i}]
        /\ minted' = minted \cup {i}
    /\ UNCHANGED <<phase, lock, resumed, closed, waiting, cmds, results, commands, pausedByUser,
                   disk, stClosed, engClosed, ending, given>>

\* Shutdown begins with its first step.
BeginShutdown ==
    /\ phase' = "stopping"
    /\ step' = "pause"
    /\ ran' = [ran EXCEPT !["pause"] = "running"]
    /\ lost' = {c.id : c \in cmds \cup results}
    /\ UNCHANGED late

Resumed ==
    /\ phase = "resuming"
    /\ work.todo = {}
    /\ phase' = "running"
    /\ resumed' = TRUE
    /\ lock' = "free"
    /\ work' = Idle
    /\ UNCHANGED <<closed, waiting, ui, store, engine, ending, given, forgotten>>

\* The context is over, or the engine closed: New fails, and closes the App.
ResumeFails ==
    /\ "resumefails" \in Calls
    /\ phase = "resuming"
    /\ lock' = "free"
    /\ work' = Idle
    /\ BeginShutdown
    /\ UNCHANGED <<resumed, closed, waiting, ui, store, engine, given, forgotten>>

----------------------------------------------------------------------------
(* The user's commands: dispatched by Update, run by a goroutine of their  *)
(* own, their result handled by Update.                                    *)

Dispatch(op, i) ==
    /\ phase = "running"
    /\ commands < MaxCommands
    /\ commands' = commands + 1
    /\ CASE op = "add"    -> "add" \in Calls /\ i \notin minted /\ recs[i] = None
         [] op \in {"pause", "resume"} ->
              /\ "pause" \in Calls /\ i \in Tracked /\ ~eng[i].refused
              /\ \A c \in cmds \cup results : c.id = i => c.op \notin {"pause", "resume"}
         [] op = "remove" -> "remove" \in Calls /\ i \in Tracked
    /\ cmds' = cmds \cup {[op |-> op, id |-> i]}
    /\ pausedByUser' = IF op = "pause" THEN pausedByUser \cup {i} ELSE pausedByUser
    /\ UNCHANGED <<phase, results, shown, session, store, engine, ending, given, forgotten>>

\* The call into the engine. One that fails has a result Update only shows. An
\* Add of a live infohash hands back the entry there is.
Execute(c) ==
    /\ c \in cmds
    /\ phase \in {"running", "stopping"}
    /\ cmds' = cmds \ {c}
    /\ LET i == c.id
           known == c.op = "add" /\ Live(i) # {}
           ok == ~engClosed /\ (IF c.op = "add" THEN i \notin minted ELSE i \in Tracked)
       IN /\ eng' = IF ~ok \/ known THEN eng ELSE
                CASE c.op = "add" ->
                       [j \in Ids |-> IF j = i THEN [Absent EXCEPT !.tracked = TRUE]
                                      ELSE IF j \in Alike(i) THEN Absent ELSE eng[j]]
                  [] c.op = "pause" ->
                       IF eng[i].paused THEN eng ELSE [eng EXCEPT ![i].paused = TRUE, ![i].user = TRUE]
                  [] c.op = "resume" -> [eng EXCEPT ![i].paused = FALSE, ![i].user = FALSE]
                  [] c.op = "remove" -> [eng EXCEPT ![i] = Absent]
          /\ results' = IF ~ok THEN results
                        ELSE IF known THEN results \cup {[op |-> "add", id |-> j] : j \in Live(i)}
                        ELSE results \cup {c}
          /\ minted' = IF ok /\ ~known THEN minted \cup {i} ELSE minted
          /\ removed' = IF ok /\ c.op = "remove" THEN removed \cup {i} ELSE removed
          /\ replaced' = IF ok /\ c.op = "add" /\ ~known THEN replaced \cup Alike(i) ELSE replaced
    /\ UNCHANGED <<phase, commands, shown, pausedByUser, session, store, engClosed, ending, given>>

\* What the user sees once a command has taken: the engine's list, and of the
\* command's own torrent what the command made of it.
Sees(c) ==
    [j \in Ids |->
        IF j \notin Tracked THEN "none"
        ELSE IF j # c.id THEN shown[j]
        ELSE CASE c.op = "pause"  -> "paused"
               [] c.op = "resume" -> "running"
               [] OTHER           -> IF shown[j] = "none" THEN "running" ELSE shown[j]]

(***************************************************************************)
(* handleAddResult records the torrent, under the session's lock; every    *)
(* handler then has the session saved.                                     *)
(***************************************************************************)
Handle(c) ==
    /\ phase = "running"
    /\ c \in results
    /\ c.op = "add" => lock = "free"
    /\ results' = results \ {c}
    /\ IF c.op = "add" /\ ~stClosed
       THEN recs' = [recs EXCEPT ![c.id] = [paused |-> FALSE, mine |-> TRUE]]
       ELSE UNCHANGED recs
    /\ shown' = Sees(c)
    /\ waiting' = waiting + 1
    /\ UNCHANGED <<phase, cmds, commands, pausedByUser, lock, resumed, closed, work, disk, stClosed,
                   engine, ending, given, forgotten>>

----------------------------------------------------------------------------
(* Save. *)

Alive == phase \in {"running", "stopping"}

\* Neither closed nor never resumed.
Saves == resumed /\ ~closed

\* saveLocked lists the engine.
List(who) ==
    /\ lock' = who
    /\ work' = [Idle EXCEPT !.todo = Tracked]

\* A waiting Save takes the lock.
SaveBegins ==
    /\ Alive
    /\ waiting > 0
    /\ lock = "free"
    /\ waiting' = waiting - 1
    /\ IF Saves THEN List("save") ELSE UNCHANGED <<lock, work>>
    /\ UNCHANGED <<phase, resumed, closed, ui, store, engine, ending, given, forgotten>>

\* ResumeData and the record there is; no resume data for a torrent removed
\* since, nor from an engine that is closed.
SaveReads(i) ==
    /\ Alive
    /\ lock \in {"save", "close"}
    /\ work.cur = None
    /\ i \in work.todo
    /\ work' = IF engClosed \/ i \notin Tracked
               THEN [work EXCEPT !.todo = @ \ {i}, !.failed = @ \cup {i}]
               ELSE [work EXCEPT !.todo = @ \ {i}, !.tracked = @ \cup {i}, !.cur = i,
                        !.rec = [paused |-> eng[i].user, mine |-> recs[i] # None /\ recs[i].mine]]
    /\ UNCHANGED <<phase, lock, resumed, closed, waiting, ui, store, engine, ending, given, forgotten>>

\* mergeRecord, SetTorrent. A closed store refuses it.
SaveWrites ==
    /\ Alive
    /\ lock \in {"save", "close"}
    /\ work.cur # None
    /\ recs' = IF stClosed THEN recs ELSE [recs EXCEPT ![work.cur] = work.rec]
    /\ work' = [work EXCEPT !.cur = None, !.rec = None]
    /\ UNCHANGED <<phase, lock, resumed, closed, waiting, ui, disk, stClosed, engine, ending, given, forgotten>>

\* Mutant: a torrent whose resume data failed is pruned although still tracked.
KeptNone == work.tracked

\* Those still listed when the engine is listed again keep their record.
Kept == work.tracked \cup (work.failed \cap Tracked)

\* The others' records go, and the lock is released. Close is then done.
SavePrunes ==
    /\ Alive
    /\ lock \in {"save", "close"}
    /\ work.todo = {} /\ work.cur = None
    /\ recs' = IF stClosed THEN recs ELSE [i \in Ids |-> IF i \in Kept THEN recs[i] ELSE None]
    /\ lock' = "free"
    /\ work' = Idle
    /\ closed' = (closed \/ lock = "close")
    /\ ran' = IF lock = "close" THEN [ran EXCEPT !["save"] = "done"] ELSE ran
    /\ UNCHANGED <<phase, resumed, waiting, ui, disk, stClosed, engine, step, lost, late, given, forgotten>>

----------------------------------------------------------------------------
(* The store's periodic flush. *)

Flush ==
    /\ ~stClosed
    /\ phase # "down"
    /\ disk # recs
    /\ disk' = recs
    /\ UNCHANGED <<phase, session, ui, recs, stClosed, engine, ending, given, forgotten>>

----------------------------------------------------------------------------
(* Shutdown. *)

Quit ==
    /\ phase = "running"
    /\ BeginShutdown
    /\ UNCHANGED <<session, ui, store, engine, given, forgotten>>

Running(s) == phase = "stopping" /\ ran[s] = "running"

Finish(s) == ran' = [ran EXCEPT ![s] = "done"]

\* Mutant: shutdown pauses as the user does (before T-952).
PauseAllAsUser ==
    /\ Running("pause")
    /\ eng' = IF engClosed THEN eng ELSE [i \in Ids |-> [eng[i] EXCEPT !.paused = eng[i].tracked, !.user = eng[i].tracked]]
    /\ Finish("pause")
    /\ UNCHANGED <<phase, session, ui, store, engClosed, minted, step, lost, late, given, forgotten>>

\* PauseForShutdown.
PauseAll ==
    /\ Running("pause")
    /\ eng' = IF engClosed THEN eng ELSE [i \in Ids |-> [eng[i] EXCEPT !.paused = eng[i].tracked]]
    /\ Finish("pause")
    /\ UNCHANGED <<phase, session, ui, store, engClosed, minted, step, lost, late, given, forgotten>>

\* Session.Close takes the lock: it saves, or finds itself sealed or not resumed.
CloseBegins ==
    /\ Running("save")
    /\ lock = "free"
    /\ IF Saves
       THEN List("close") /\ UNCHANGED <<closed, ran>>
       ELSE closed' = TRUE /\ Finish("save") /\ UNCHANGED <<lock, work>>
    /\ UNCHANGED <<phase, resumed, waiting, ui, store, engine, step, lost, late, given, forgotten>>

FlushStep ==
    /\ Running("flush")
    /\ disk' = IF stClosed THEN disk ELSE recs
    /\ Finish("flush")
    /\ UNCHANGED <<phase, session, ui, recs, stClosed, engine, step, lost, late, given, forgotten>>

CloseEngine ==
    /\ Running("engine")
    /\ engClosed' = TRUE
    /\ Finish("engine")
    /\ UNCHANGED <<phase, session, ui, store, eng, minted, step, lost, late, given, forgotten>>

\* Store.Close flushes once more.
CloseStore ==
    /\ Running("store")
    /\ disk' = recs
    /\ stClosed' = TRUE
    /\ Finish("store")
    /\ UNCHANGED <<phase, session, ui, recs, engine, step, lost, late, given, forgotten>>

\* Mutant: the engine is closed before the session is saved.
AfterEngine == [pause |-> "engine", engine |-> "save", save |-> "flush", flush |-> "store"]

After == [pause |-> "save", save |-> "flush", flush |-> "engine", engine |-> "store"]

(***************************************************************************)
(* runStep returns when the step is done or its time is up; the session is *)
(* sealed after its step. After the last step the process ends.            *)
(***************************************************************************)
NextStep ==
    /\ phase = "stopping"
    /\ \/ ran[step] = "done" /\ UNCHANGED late
       \/ "timeouts" \in Calls /\ ran[step] = "running" /\ late' = TRUE
    /\ closed' = (closed \/ step = "save")
    /\ IF step = "store"
       THEN phase' = "down" /\ UNCHANGED <<step, ran>>
       ELSE /\ step' = After[step]
            /\ ran' = [ran EXCEPT ![After[step]] = "running"]
            /\ UNCHANGED phase
    /\ UNCHANGED <<lock, resumed, work, waiting, ui, store, engine, lost, given, forgotten>>

----------------------------------------------------------------------------

Ops == {"add", "pause", "resume", "remove"}

Command ==
    \/ \E op \in Ops, i \in Ids : Dispatch(op, i)
    \/ \E c \in cmds : Execute(c)
    \/ \E c \in results : Handle(c)

Save == SaveBegins \/ (\E i \in Ids : SaveReads(i)) \/ SaveWrites \/ SavePrunes

Shutdown == PauseAll \/ CloseBegins \/ FlushStep \/ CloseEngine \/ CloseStore \/ NextStep

Next ==
    \/ RestoreNext \/ Resumed \/ ResumeFails
    \/ Command \/ Save \/ Flush
    \/ Quit \/ Shutdown \/ Restart

Spec == Init /\ [][Next]_vars

----------------------------------------------------------------------------
(* What the session promises. *)

TypeOK ==
    /\ phase \in Phases
    /\ eng \in [Ids -> [tracked : BOOLEAN, refused : BOOLEAN, paused : BOOLEAN, user : BOOLEAN]]
    /\ recs \in [Ids -> Records \cup {None}] /\ disk \in [Ids -> Records \cup {None}]
    /\ lock \in {"free", "resume", "save", "close"}
    /\ waiting \in 0..MaxCommands
    /\ ran \in [Steps -> {"idle", "running", "done"}]

(***************************************************************************)
(* A session that could not be resumed is not saved over, a torrent whose  *)
(* resume data fails keeps its record, a Save never prunes what the add    *)
(* flow just recorded: a record leaves the file only if its torrent was    *)
(* removed, added again or dropped as a duplicate - across failed starts,  *)
(* steps that time out and crashes.                                        *)
(***************************************************************************)
KeepsRecords == [][\A i \in Recorded(disk) : i \in Recorded(disk') \/ i \in removed \cup replaced]_vars

(***************************************************************************)
(* "A Save in flight can neither overwrite nor prune a record the add flow *)
(* writes through SetTorrent meanwhile" (T-994): what only the add flow    *)
(* knows stays in the record for as long as there is one.                  *)
(***************************************************************************)
AddFlowKept ==
    [][\A i \in Recorded(recs) \cap Recorded(recs') : recs[i].mine => recs'[i].mine \/ starts' # starts]_vars

(***************************************************************************)
(* Neither a record nor what the add flow put in it is lost to a Save, a   *)
(* Shutdown or a start that ran beside it.                                 *)
(***************************************************************************)
RecordsKept == KeepsRecords /\ AddFlowKept

(***************************************************************************)
(* T-952: only the pauses the user asked for are recorded, although        *)
(* shutdown pauses every torrent and its steps may overtake one another.   *)
(***************************************************************************)
OnlyUserPauses == \A i \in Recorded(disk) : disk[i].paused => i \in pausedByUser

\* What the file says of i.
Says(i) == IF disk[i] = None THEN "none" ELSE Told(disk[i].paused)

(***************************************************************************)
(* After a shutdown in which every step ended in time, the file holds the  *)
(* torrents the user was shown, paused as they were shown - but for those  *)
(* with a command still in flight when the user quit.                      *)
(***************************************************************************)
CleanExit ==
    phase = "down" /\ ~late /\ resumed => \A i \in Ids \ (lost \cup replaced) : Says(i) = shown[i]

(***************************************************************************)
(* "A pause or resume that took is saved, so a restart after a crash still *)
(* brings the torrent back as the user left it": while the program runs,   *)
(* once the saves its commands asked for are done and the store has        *)
(* flushed, the file agrees with what the user was shown - in whatever     *)
(* order results were handled and saves ran.                               *)
(***************************************************************************)
Quiet == phase = "running" /\ waiting = 0 /\ lock = "free" /\ disk = recs
SavedWhenQuiet ==
    Quiet => \A i \in Ids \ replaced : (\A c \in cmds \cup results : c.id # i) => Says(i) = shown[i]

(***************************************************************************)
(* The file ends as the user was shown: while the program runs and after it *)
(* has shut down.                                                          *)
(***************************************************************************)
SavedAsShown == CleanExit /\ SavedWhenQuiet

(***************************************************************************)
(* ResumeReport.Restored: "every recorded torrent stays visible in the     *)
(* downloads list". A torrent Resume has restored and whose record it has  *)
(* not dropped is tracked.                                                 *)
(***************************************************************************)
RestoredIsVisible == phase = "resuming" => \A i \in minted : recs[i] # None => i \in Tracked

=============================================================================

------------------------------ MODULE Downloads ------------------------------
(***************************************************************************)
(* The downloads screen (internal/tui/downloads.go, download_actions.go)   *)
(* over the engine's port. The engine's snapshots and the results of its   *)
(* calls come back to Update in any order; a pause or resume is shown      *)
(* before the engine has made it, and laid over every snapshot until then. *)
(*                                                                         *)
(* Left out: what a row says, rates, which error is expanded, opening      *)
(* files and pages, and the session saves a result asks for (Session).     *)
(***************************************************************************)
EXTENDS Integers, Sequences

CONSTANTS
    Ids,      \* torrents
    Unset,
    Starts,   \* what the engine may hold when the screen opens
    Windows,  \* heights a terminal may have
    MaxKeys,  \* bound: engine calls the user makes
    MaxWork   \* bound: steps the engine makes by itself

States == {"downloading", "seeding", "paused", "errored"}
Status == [id : Ids, state : States, done : BOOLEAN]
Guess  == [optimistic : States, prev : States, settled : BOOLEAN]

\* The engine lists a torrent once.
Once(statuses) == \A m, n \in DOMAIN statuses : statuses[m].id = statuses[n].id => m = n

ASSUME UnsetAssumption == Unset \notin Guess
ASSUME StartsAssumption == \A statuses \in Starts : statuses \in Seq(Status) /\ Once(statuses)
ASSUME BoundsAssumption == Windows \subseteq Nat \ {0} /\ MaxKeys \in Nat /\ MaxWork \in Nat

VARIABLES
    engine,   \* Engine.List: the torrents in the order they were added
    work,     \* steps it has made by itself
    mail,     \* the snapshot waitForEngineUpdate has received, if any
    call,     \* call[k]: the engine call of the k-th command, until Update has its result
    shown,    \* Model.torrentStatuses
    pending,  \* downloadsModel.pending
    cursor,   \* downloadsModel.cursor, counted from 1
    dialog,   \* removeConfirm and removeTarget
    onScreen, \* whether this is the current screen
    height,   \* of the terminal; 0 before the first WindowSizeMsg
    scroll    \* downloadsModel.scroll

engineVars == <<engine, work>>
viewVars == <<shown, cursor, onScreen, height, scroll>>
downloadsVars == <<engine, work, mail, call, shown, pending, cursor, dialog, onScreen, height, scroll>>

Larger(a, b)  == IF a > b THEN a ELSE b
Smaller(a, b) == IF a < b THEN a ELSE b

Has(statuses, i) == \E n \in DOMAIN statuses : statuses[n].id = i
At(statuses, i)  == CHOOSE n \in DOMAIN statuses : statuses[n].id = i
Of(statuses, i)  == statuses[At(statuses, i)]
Without(statuses, i) ==
    SubSeq(statuses, 1, At(statuses, i) - 1) \o SubSeq(statuses, At(statuses, i) + 1, Len(statuses))

\* withTorrentState.
WithState(statuses, i, st) ==
    [n \in DOMAIN statuses |-> IF statuses[n].id = i THEN [statuses[n] EXCEPT !.state = st] ELSE statuses[n]]

----------------------------------------------------------------------------
(* Rows and their layout. *)

\* isDownloadComplete.
Complete(s) == s.state = "seeding" \/ (s.state = "paused" /\ s.done)

\* partitionDownloads.
Active(statuses)    == SelectSeq(statuses, LAMBDA s : ~Complete(s))
Completed(statuses) == SelectSeq(statuses, Complete)

\* downloadRows.
Rows(statuses) == Active(statuses) \o Completed(statuses)

\* moveCursor, and clampCursor for delta 0.
MovedCursor(c, delta, count) == IF count = 0 THEN 1 ELSE Smaller(Larger(c + delta, 1), count)

\* renderDownloadRow: four lines, and one more for the seed policy or an error.
Tall(s) == Complete(s) \/ s.state = "errored"
RowHeight(s) == IF Tall(s) THEN 5 ELSE 4

\* The lines of rows, each with the blank above it.
Lines(rows) == 5 * Len(rows) + Len(SelectSeq(rows, Tall))

\* A section's title and rows; with a blank above, if lines came before.
SectionLines(rows) == IF rows = <<>> THEN 0 ELSE 1 + Lines(rows)

\* downloadsLayout: where each title and row begins, and the selected row.
\* head is its title if it is its section's first row.
Layout(statuses, c) ==
    LET active == Active(statuses)
        rows   == Rows(statuses)
        second == IF active = <<>> THEN 0 ELSE SectionLines(active) + 1
        base(n) == IF n <= Len(active) THEN 0 ELSE second
        first(n) == n \in {1, Len(active) + 1}
        start(n) == base(n) + 2 + Lines(IF n <= Len(active) THEN SubSeq(active, 1, n - 1)
                                         ELSE SubSeq(rows, Len(active) + 1, n - 1))
    IN [lines |-> IF Len(rows) = Len(active) THEN SectionLines(active)
                  ELSE second + SectionLines(Completed(statuses)),
        starts |-> {start(n) : n \in DOMAIN rows} \cup {base(n) : n \in DOMAIN rows},
        start |-> IF c \in DOMAIN rows THEN start(c) ELSE -1,
        end   |-> IF c \in DOMAIN rows THEN start(c) + RowHeight(rows[c]) ELSE -1,
        head  |-> IF c \notin DOMAIN rows THEN -1 ELSE IF first(c) THEN base(c) ELSE start(c)]

\* bodyBudget, with the tabs and no banner.
BodyBudget(h) == IF h = 0 THEN 0 ELSE Larger(h - 4, 3)

\* blockStartAtOrAfter, blockStartAtOrBefore.
StartFrom(starts, n) ==
    LET from == {st \in starts : st >= n}
    IN IF from = {} THEN n ELSE CHOOSE st \in from : \A o \in from : st <= o
StartUpTo(starts, n) ==
    LET upTo == {st \in starts : st <= n}
    IN IF upTo = {} THEN 0 ELSE CHOOSE st \in upTo : \A o \in upTo : st >= o

\* Mutant: rounds to the block before, where it must skip to the one after.
NextScrollShort(offset, l, budget) ==
    IF budget <= 0 \/ l.lines <= budget THEN 0
    ELSE LET clamped == StartUpTo(l.starts, Smaller(offset, StartFrom(l.starts, l.lines - budget)))
             down == IF l.end > clamped + budget THEN StartUpTo(l.starts, l.end - budget) ELSE clamped
             head == IF l.end - l.head > budget THEN l.start ELSE l.head
         IN IF l.start >= 0 THEN Smaller(down, head) ELSE down

\* nextScrollOffset: pulled back to the last full window and to a block, then
\* down to show the selected row's end, then up to show its head.
NextScroll(offset, l, budget) ==
    IF budget <= 0 \/ l.lines <= budget THEN 0
    ELSE LET clamped == StartUpTo(l.starts, Smaller(offset, StartFrom(l.starts, l.lines - budget)))
             down == IF l.end > clamped + budget THEN StartFrom(l.starts, l.end - budget) ELSE clamped
             head == IF l.end - l.head > budget THEN l.start ELSE l.head
         IN IF l.start >= 0 THEN Smaller(down, head) ELSE down

\* Update's last step, syncDownloadsScroll.
Synced ==
    IF onScreen' THEN \E l \in {Layout(shown', cursor')} : scroll' = NextScroll(scroll, l, BodyBudget(height'))
    ELSE UNCHANGED scroll

----------------------------------------------------------------------------

Closed == [open |-> FALSE, option |-> "cancel", target |-> Unset, named |-> Unset]

DownloadsInit ==
    /\ engine \in Starts /\ work = 0
    /\ mail = Unset /\ call = <<>>
    /\ shown = <<>> /\ pending = [i \in Ids |-> Unset]
    /\ cursor = 1 /\ dialog = Closed
    /\ onScreen = FALSE /\ height = 0 /\ scroll = 0

(* The engine, through its port. *)

\* A download completes or fails, a seeding one has met the seed policy.
Works ==
    /\ work < MaxWork
    /\ \E n \in DOMAIN engine :
        \/ engine[n].state = "downloading" /\ ~engine[n].done
           /\ engine' = [engine EXCEPT ![n].state = "seeding", ![n].done = TRUE]
        \/ engine[n].state \in {"downloading", "seeding"} /\ engine' = [engine EXCEPT ![n].state = "errored"]
        \/ engine[n].state = "seeding" /\ engine' = [engine EXCEPT ![n].state = "paused"]
    /\ work' = work + 1
    /\ UNCHANGED <<mail, call, pending, dialog, viewVars>>

\* waitForEngineUpdate receives the latest snapshot.
Receive ==
    /\ mail = Unset
    /\ mail' = engine
    /\ UNCHANGED <<engineVars, call, pending, dialog, viewVars>>

Resumed(s) == IF s.done THEN "seeding" ELSE "downloading"

\* What a call leaves of the engine's torrents.
Effect(k) ==
    LET c == call[k]
        s == Of(engine, c.id)
    IN CASE c.kind = "pause"  -> IF s.state = "errored" THEN engine ELSE WithState(engine, c.id, "paused")
         [] c.kind = "resume" -> IF s.state = "paused" THEN WithState(engine, c.id, Resumed(s)) ELSE engine
         [] OTHER -> Without(engine, c.id)

\* pauseResumeCmd, removeCmd: the call is made. It fails for a torrent that is
\* gone, and may fail otherwise.
Called(k) ==
    /\ call[k].at = "run"
    /\ \/ Has(engine, call[k].id) /\ engine' = Effect(k) /\ call' = [call EXCEPT ![k].at = "ok"]
       \/ UNCHANGED engine /\ call' = [call EXCEPT ![k].at = "failed"]
    /\ UNCHANGED <<work, mail, pending, dialog, viewVars>>

----------------------------------------------------------------------------
(* Update. *)

\* Mutant: an entry the snapshot already agrees with is dropped.
KeptOnSight(p, statuses, i) == p # Unset /\ Has(statuses, i) /\ ~p.settled /\ Of(statuses, i).state # p.optimistic

\* Mutant: a settled entry stays.
KeptSettled(p, statuses, i) == p # Unset /\ Has(statuses, i)

\* reconcilePending: what stays pending after a snapshot.
Kept(p, statuses, i) == p # Unset /\ Has(statuses, i) /\ ~p.settled

\* engineUpdateMsg.
Snapshot ==
    /\ mail # Unset
    /\ pending' = [i \in Ids |-> IF Kept(pending[i], mail, i) THEN pending[i] ELSE Unset]
    /\ shown' = [n \in DOMAIN mail |->
                    IF pending'[mail[n].id] = Unset THEN mail[n]
                    ELSE [mail[n] EXCEPT !.state = pending'[mail[n].id].optimistic]]
    /\ cursor' = MovedCursor(cursor, 0, Len(shown'))
    /\ mail' = Unset
    /\ UNCHANGED <<engineVars, call, dialog, onScreen, height>>
    /\ Synced

\* The keys of the screen act on it unless the dialog is open over it.
Listening == onScreen /\ ~dialog.open
HasRow    == cursor \in DOMAIN Rows(shown)

\* selectedDownload: the cursor is on the row of shown[n].
Selects(n) == HasRow /\ Rows(shown)[cursor] = shown[n]

MoveCursor(delta) ==
    /\ Listening
    /\ cursor' = MovedCursor(cursor, delta, Len(shown))
    /\ UNCHANGED <<engineVars, mail, call, shown, pending, dialog, onScreen, height>>
    /\ Synced

Over == [kind |-> "none", id |-> Unset, at |-> "over"]

\* Its call has not returned.
InFlight(p) == p # Unset /\ ~p.settled

Issue(kind, i) ==
    /\ Len(call) < MaxKeys
    /\ call' = Append(call, [kind |-> kind, id |-> i, at |-> "run"])

\* handlePauseResume: shown at once, unless the row has errored or its previous
\* call is still in flight.
PauseResume(n) ==
    LET s == shown[n]
        optimistic == IF s.state = "paused" THEN Resumed(s) ELSE "paused"
    IN /\ Listening /\ Selects(n)
       /\ s.state # "errored"
       /\ ~InFlight(pending[s.id])
       /\ Issue(IF s.state = "paused" THEN "resume" ELSE "pause", s.id)
       /\ pending' = [pending EXCEPT ![s.id] = [optimistic |-> optimistic, prev |-> s.state, settled |-> FALSE]]
       /\ shown' = WithState(shown, s.id, optimistic)
       /\ UNCHANGED <<engineVars, mail, cursor, dialog, onScreen, height>>
       /\ Synced

\* handlePauseResumeResult.
PauseResumeResult(k) ==
    LET i == call[k].id
        p == pending[i]
    IN /\ call[k].kind \in {"pause", "resume"}
       /\ \/ call[k].at = "ok" /\ UNCHANGED shown
             /\ pending' = [pending EXCEPT ![i] = IF @ = Unset THEN Unset ELSE [@ EXCEPT !.settled = TRUE]]
          \/ call[k].at = "failed" /\ pending' = [pending EXCEPT ![i] = Unset]
             /\ shown' = IF p # Unset /\ Has(shown, i) THEN WithState(shown, i, p.prev) ELSE shown
       /\ call' = [call EXCEPT ![k] = Over]
       /\ UNCHANGED <<engineVars, mail, cursor, dialog, onScreen, height>>
       /\ Synced

\* handleRemove: the dialog names the selected torrent and asks.
HandleRemove(n) ==
    /\ Listening /\ Selects(n) /\ Len(call) < MaxKeys
    /\ dialog' = [open |-> TRUE, option |-> "cancel", target |-> shown[n].id, named |-> shown[n].id]
    /\ UNCHANGED <<engineVars, mail, call, shown, pending, cursor, onScreen, height>>
    /\ Synced

Options == <<"keep", "delete", "cancel">>
OptionAt(o) == CHOOSE n \in DOMAIN Options : Options[n] = o

\* MoveNext, MovePrev: they wrap around.
DialogMove(delta) ==
    /\ dialog.open
    /\ dialog' = [dialog EXCEPT !.option = Options[((OptionAt(@) - 1 + delta) % Len(Options)) + 1]]
    /\ UNCHANGED <<engineVars, mail, call, shown, pending, cursor, onScreen, height>>
    /\ Synced

DialogCancel ==
    /\ dialog.open
    /\ dialog' = Closed
    /\ UNCHANGED <<engineVars, mail, call, shown, pending, cursor, onScreen, height>>
    /\ Synced

\* Mutant: the row selected now is removed.
DialogConfirmSelected ==
    /\ dialog.open
    /\ IF dialog.option = "cancel" \/ ~HasRow THEN UNCHANGED call
       ELSE Issue(IF dialog.option = "keep" THEN "remove" ELSE "delete", Rows(shown)[cursor].id)
    /\ dialog' = Closed
    /\ UNCHANGED <<engineVars, mail, shown, pending, cursor, onScreen, height>>
    /\ Synced

\* handleRemoveConfirmAction: the torrent it named, if that is still listed.
DialogConfirm ==
    /\ dialog.open
    /\ IF dialog.option = "cancel" \/ ~Has(shown, dialog.target) THEN UNCHANGED call
       ELSE Issue(IF dialog.option = "keep" THEN "remove" ELSE "delete", dialog.target)
    /\ dialog' = Closed
    /\ UNCHANGED <<engineVars, mail, shown, pending, cursor, onScreen, height>>
    /\ Synced

\* handleRemoveResult; a remove that kept the data of another download is one
\* that took.
RemoveResult(k) ==
    /\ call[k].kind \in {"remove", "delete"} /\ call[k].at \in {"ok", "failed"}
    /\ pending' = IF call[k].at = "ok" THEN [pending EXCEPT ![call[k].id] = Unset] ELSE pending
    /\ call' = [call EXCEPT ![k] = Over]
    /\ UNCHANGED <<engineVars, mail, shown, cursor, dialog, onScreen, height>>
    /\ Synced

\* WindowSizeMsg, and the keys that switch screens.
Resize(h) ==
    /\ height' = h
    /\ UNCHANGED <<engineVars, mail, call, shown, pending, cursor, dialog, onScreen>>
    /\ Synced
SwitchScreen ==
    /\ ~dialog.open
    /\ onScreen' = ~onScreen
    /\ UNCHANGED <<engineVars, mail, call, shown, pending, cursor, dialog, height>>
    /\ Synced

User ==
    \/ \E d \in {-1, 1} : MoveCursor(d) \/ DialogMove(d)
    \/ \E n \in DOMAIN shown : PauseResume(n) \/ HandleRemove(n)
    \/ DialogCancel \/ DialogConfirm \/ SwitchScreen
    \/ \E h \in Windows : Resize(h)

Results == \E k \in DOMAIN call : PauseResumeResult(k) \/ RemoveResult(k)

DownloadsNext == Works \/ Receive \/ Snapshot \/ User \/ Results \/ \E k \in DOMAIN call : Called(k)

DownloadsSpec == DownloadsInit /\ [][DownloadsNext]_downloadsVars

----------------------------------------------------------------------------
(* What the screen promises. *)

(***************************************************************************)
(* handlePauseResume: two calls for one torrent would run "on separate     *)
(* goroutines with no ordering guarantee". Whatever snapshots come between *)
(* two presses, the first call has been made before the second is asked -  *)
(* unless the torrent is gone: a remove's answer forgets a pause still in  *)
(* flight, and the row stays until the next snapshot (handleRemoveResult). *)
(***************************************************************************)
Toggle(c) == c.kind \in {"pause", "resume"}
InOrder ==
    \A j \in DOMAIN call : \A k \in j + 1..Len(call) :
        Toggle(call[j]) /\ Toggle(call[k]) /\ call[j].id = call[k].id /\ Has(engine, call[j].id) =>
            call[j].at # "run"

(***************************************************************************)
(* DEC-160: the selected row is on screen whenever it fits, after any      *)
(* snapshot, resize, move or visit elsewhere, and the body begins at a     *)
(* title or a row, never inside one.                                       *)
(***************************************************************************)
Visible ==
    onScreen /\ height > 0 =>
        \E l \in {Layout(shown, cursor)} :
            /\ scroll = 0 \/ scroll \in l.starts
            /\ l.start >= 0 => scroll <= l.start
            /\ l.start >= 0 /\ l.end - l.start <= BodyBudget(height) => l.end <= scroll + BodyBudget(height)

(***************************************************************************)
(* Removing is irreversible: what is removed is the torrent the dialog     *)
(* named when it opened, however the rows moved meanwhile, and its data    *)
(* goes only if that was chosen.                                           *)
(***************************************************************************)
RemovesWhatItNamed ==
    [][\A k \in DOMAIN call' \ DOMAIN call :
        call'[k].kind \in {"remove", "delete"} =>
            /\ dialog.open /\ call'[k].id = dialog.named
            /\ dialog.option = IF call'[k].kind = "delete" THEN "delete" ELSE "keep"]_downloadsVars

(***************************************************************************)
(* pendingToggle: a guess is shown "until a snapshot confirms it". No      *)
(* guess outlives its call: once the calls about a torrent have been       *)
(* answered, the next snapshot's state of it is the one shown, whatever    *)
(* order calls, failures and snapshots came in.                            *)
(***************************************************************************)
NoGuessOutlivesItsCall ==
    [][mail # Unset /\ mail' = Unset =>
        \A n \in DOMAIN mail :
            (\A k \in DOMAIN call : call[k].id = mail[n].id => call[k].kind \notin {"pause", "resume"})
                => shown'[n] = mail[n]]_downloadsVars
=============================================================================

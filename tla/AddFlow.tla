------------------------------- MODULE AddFlow -------------------------------
(***************************************************************************)
(* Adding a result (internal/tui/details.go, destination.go): enter on a   *)
(* result asks its source for a link if it has none, then opens the        *)
(* destination picker, which checks each candidate folder on disk and hands *)
(* the torrent and the folder to the engine. Everything that takes time is *)
(* a command on its own goroutine, and its result a later message.         *)
(*                                                                         *)
(* Left out: how a typed path is expanded (the constant Expands), what the *)
(* picker draws, and the status line.                                      *)
(***************************************************************************)
EXTENDS Integers, Sequences, FiniteSets

CONSTANTS
    Listed,     \* results the screens list: [title, source, hash, link, size]
    Resolves(_),\* what a source may make of a result
    Registered, \* the sources that still are
    Folders,    \* absolute paths
    Above,      \* Above[p]: the folders above p that may not exist, nearest first
    Default,    \* downloadDir
    SavedDests, \* savedDestinations, in their configured order
    Inputs,     \* what the user may type in the path field; "" to begin with
    Expands,    \* expandDestination: Expands[i] is the folder, or None
    Margin,     \* minFreeSpace
    Space,      \* bytes free at the start
    None,
    MaxFetches, \* bound: resolves started
    MaxAdds,    \* bound: adds confirmed
    MaxDisk,    \* bound: changes on disk made by others
    MaxChecks   \* bound: checks of a folder under way

ASSUME FoldersAssumption == Default \in Folders /\ Above \in [Folders -> Seq(Folders)] /\ SavedDests \in Seq(Folders)
ASSUME InputsAssumption == "" \in Inputs /\ Expands \in [Inputs -> Folders \cup {None}] /\ Expands[""] = None
ASSUME AddBoundsAssumption == {Margin, Space, MaxFetches, MaxAdds, MaxDisk, MaxChecks} \subseteq Nat

VARIABLES
    screen,   \* Model.screen
    details,  \* detailsModel.result
    resolve,  \* resolveCancel # nil, and resolveGen
    fetches,  \* resolve commands, and their results on their way
    dest,     \* destPicker
    checks,   \* check commands, and their results on their way
    adds,     \* add commands, in the order they were confirmed
    used,     \* usedDestinations
    tracked,  \* infohashes the engine tracks
    roots,    \* the engine's destination roots
    disk,     \* disk[p]: what is at p
    free,     \* bytes free
    changes,  \* changes made on disk so far
    asked     \* ghost: the folder and result the user was last asked to create for

fsVars  == <<disk, free, changes>>
addVars == <<screen, details, resolve, fetches, dest, checks, adds, used, tracked, roots, fsVars, asked>>

NoCheck == [path |-> None, size |-> 0, problem |-> FALSE, exists |-> FALSE, writable |-> FALSE, free |-> 0]
NoPicker == [open |-> FALSE, result |-> None, entries |-> <<>>, cursor |-> 1, input |-> "",
             check |-> NoCheck, creating |-> FALSE]

AddInit ==
    /\ screen = "search" /\ details = None
    /\ resolve = [on |-> FALSE, gen |-> 0] /\ fetches = {}
    /\ dest = NoPicker /\ checks = {} /\ adds = <<>> /\ used = <<>>
    /\ tracked = {} /\ roots = {}
    /\ disk = [p \in Folders |-> IF p = Default THEN "dir" ELSE "none"]
    /\ free = Space /\ changes = 0
    /\ asked = None

----------------------------------------------------------------------------
(* Folders on disk. *)

\* nearestExistingDir: what is nearest above p; the drive is always there.
Nearest(p) ==
    LET there == SelectSeq(Above[p], LAMBDA q : disk[q] # "none")
    IN IF there = <<>> THEN "dir" ELSE disk[there[1]]

\* checkDestination.
CheckDestination(c) ==
    LET at == IF disk[c.path] = "none" THEN Nearest(c.path) ELSE disk[c.path]
    IN [path |-> c.path, size |-> c.size, problem |-> at = "file", exists |-> disk[c.path] \in {"dir", "readonly"},
        writable |-> at = "dir", free |-> free]

Need(c) == IF c.size <= 0 THEN 0 ELSE c.size + Margin

\* blockReason.
Blocks(c) == c.problem \/ ~c.writable \/ c.free < Need(c)

\* savedByRecency: the saved destinations that were used, most recent first,
\* then the others.
SavedByRecency ==
    LET isSaved(p) == \E i \in DOMAIN SavedDests : SavedDests[i] = p
        isUsed(p) == \E i \in DOMAIN used : used[i] = p
    IN SelectSeq(used, isSaved) \o SelectSeq(SavedDests, LAMBDA p : ~isUsed(p))

MaxRecent == 3

\* destinationEntries: the default, the saved and the recent ones, each once.
Entries ==
    LET saved  == SelectSeq(SavedByRecency, LAMBDA p : p # Default)
        other  == SelectSeq(used, LAMBDA p : p # Default /\ \A i \in DOMAIN saved : saved[i] # p)
    IN <<Default>> \o saved \o SubSeq(other, 1, IF Len(other) < MaxRecent THEN Len(other) ELSE MaxRecent)

OnField(d) == d.cursor > Len(d.entries)

\* destCandidate; None is an error.
Candidate(d) == IF OnField(d) THEN Expands[d.input] ELSE d.entries[d.cursor]

----------------------------------------------------------------------------
(* Enter on a result. *)

\* revalidateDestination, for the picker d.
Revalidate(d) ==
    /\ Cardinality(checks) < MaxChecks
    /\ dest' = [d EXCEPT !.creating = FALSE]
    /\ checks' = IF Candidate(d) = None THEN checks
                 ELSE checks \cup {[at |-> "run", check |-> [NoCheck EXCEPT !.path = Candidate(d), !.size = d.result.size]]}

\* Mutant: the open picker is filled in place.
OpenPickerInPlace(r) ==
    /\ dest' = [dest EXCEPT !.open = TRUE, !.result = r, !.entries = Entries]
    /\ checks' = checks \cup {[at |-> "run", check |-> [NoCheck EXCEPT !.path = Default, !.size = r.size]]}

\* openDestinationPicker.
OpenPicker(r) == Revalidate([NoPicker EXCEPT !.open = TRUE, !.result = r, !.entries = Entries])

\* duplicateTorrentID.
Duplicate(r) == r.hash # None /\ r.hash \in tracked

\* finishAdd: a duplicate selects the torrent there is; Validate refuses a
\* result without a link.
FinishAdd(r) ==
    CASE Duplicate(r)     -> screen' = "downloads" /\ UNCHANGED <<dest, checks>>
      [] ~Duplicate(r) /\ r.link = "none" -> UNCHANGED <<screen, dest, checks>>
      [] OTHER            -> OpenPicker(r) /\ UNCHANGED screen

\* The context of the resolve that is waited for is cancelled.
Cancelled(fs) == {[f EXCEPT !.cancelled = @ \/ (resolve.on /\ f.gen = resolve.gen)] : f \in fs}

\* startAdd.
StartAdd(r) ==
    /\ IF ~Duplicate(r) /\ r.link # "magnet"
       THEN IF r.source \in Registered
            THEN /\ resolve.gen < MaxFetches
                 /\ resolve' = [on |-> TRUE, gen |-> resolve.gen + 1]
                 /\ fetches' = Cancelled(fetches) \cup {[gen |-> resolve'.gen, of |-> r, cancelled |-> FALSE]}
                 /\ UNCHANGED <<screen, dest, checks>>
            ELSE UNCHANGED <<screen, resolve, fetches, dest, checks>>
       ELSE FinishAdd(r) /\ UNCHANGED <<resolve, fetches>>
    /\ UNCHANGED <<details, adds, used, tracked, roots, fsVars, asked>>

\* handleOpenDetails.
OpenDetails(r) ==
    /\ details' = r /\ screen' = "details"
    /\ UNCHANGED <<resolve, fetches, dest, checks, adds, used, tracked, roots, fsVars, asked>>

\* Mutant: the generation stays, so the late result still counts.
CancelResolveKeepsGen ==
    /\ resolve.on
    /\ fetches' = Cancelled(fetches)
    /\ resolve' = [resolve EXCEPT !.on = FALSE]
    /\ UNCHANGED <<screen, details, dest, checks, adds, used, tracked, roots, fsVars, asked>>

\* cancelResolve: esc.
CancelResolve ==
    /\ resolve.on
    /\ fetches' = Cancelled(fetches)
    /\ resolve' = [on |-> FALSE, gen |-> resolve.gen + 1]
    /\ UNCHANGED <<screen, details, dest, checks, adds, used, tracked, roots, fsVars, asked>>

\* resolveCmd and handleResolveResult: f's call has returned r, or failed (None;
\* its context has a deadline). A result of another generation is dropped.
ResolveResult(f, r) ==
    /\ f \in fetches
    /\ fetches' = fetches \ {f}
    /\ IF f.gen # resolve.gen THEN UNCHANGED <<screen, resolve, dest, checks>>
       ELSE /\ resolve' = [resolve EXCEPT !.on = FALSE]
            /\ IF r = None THEN UNCHANGED <<screen, dest, checks>> ELSE FinishAdd(r)
    /\ UNCHANGED <<details, adds, used, tracked, roots, fsVars, asked>>

----------------------------------------------------------------------------
(* The picker. *)

\* checkDestinationCmd looks at the disk.
RunCheck(c) ==
    /\ c \in checks /\ c.at = "run"
    /\ checks' = (checks \ {c}) \cup {[at |-> "done", check |-> CheckDestination(c.check)]}
    /\ UNCHANGED <<screen, details, resolve, fetches, dest, adds, used, tracked, roots, fsVars, asked>>

\* handleDestCheck: dropped unless it is about the candidate.
DestCheck(c) ==
    /\ c \in checks /\ c.at = "done"
    /\ checks' = checks \ {c}
    /\ dest' = IF dest.open /\ Candidate(dest) = c.check.path THEN [dest EXCEPT !.check = c.check] ELSE dest
    /\ UNCHANGED <<screen, details, resolve, fetches, adds, used, tracked, roots, fsVars, asked>>

\* confirmDestination.
ConfirmDestination(create) ==
    LET path == Candidate(dest)
        c    == dest.check
    IN /\ IF path = None \/ c.path # path \/ Blocks(c) THEN UNCHANGED <<dest, adds, asked>>
          ELSE IF ~c.exists /\ ~create
          THEN /\ dest' = [dest EXCEPT !.creating = TRUE]
               /\ asked' = [path |-> path, result |-> dest.result]
               /\ UNCHANGED adds
          ELSE /\ Len(adds) < MaxAdds
               /\ dest' = NoPicker
               /\ adds' = Append(adds, [result |-> dest.result, path |-> path, create |-> ~c.exists, at |-> "run"])
               /\ asked' = None
       /\ UNCHANGED <<screen, details, resolve, fetches, checks, used, tracked, roots, fsVars>>

Picker(d) ==
    /\ dest' = d
    /\ UNCHANGED <<screen, details, resolve, fetches, checks, adds, used, tracked, roots, fsVars, asked>>

\* The cursor moved, or the typed path changed.
Picked(d) ==
    /\ Revalidate(d)
    /\ UNCHANGED <<screen, details, resolve, fetches, adds, used, tracked, roots, fsVars, asked>>

Letters == {"a", "c", "d", "e", "j", "k", "n", "p", "q", "t", "x", "y", "/", "?"}

\* handleDestinationKey: while it asks, only an answer counts; on the path
\* field a letter is typed.
DestinationKey(key) ==
    \/ /\ dest.creating
       /\ \/ key \in {"enter", "y"} /\ ConfirmDestination(TRUE)
          \/ key \in {"esc", "n"} /\ Picker([dest EXCEPT !.creating = FALSE])
    \/ /\ ~dest.creating
       /\ \/ key = "enter" /\ ConfirmDestination(FALSE)
          \/ key = "esc" /\ Picker(NoPicker)
          \/ key = "up" /\ Picked([dest EXCEPT !.cursor = IF @ > 1 THEN @ - 1 ELSE 1])
          \/ key = "down" /\ Picked([dest EXCEPT !.cursor = IF OnField(dest) THEN @ ELSE @ + 1])
          \/ key \in Letters /\ OnField(dest) /\ \E i \in Inputs : Picked([dest EXCEPT !.input = i])

----------------------------------------------------------------------------
(* The add. *)

\* Whether os.MkdirAll(p) succeeds.
CanMake(p) ==
    \/ disk[p] \in {"dir", "readonly"}
    \/ disk[p] = "none" /\ Nearest(p) = "dir"

\* prepareDestination, then Engine.Add: each of its steps may fail.
RunAdd(k) ==
    LET a == adds[k]
        makes == a.create /\ CanMake(a.path)
    IN /\ a.at = "run"
       /\ disk' = IF makes THEN [q \in Folders |-> IF q = a.path \/ \E i \in DOMAIN Above[a.path] : Above[a.path][i] = q
                                                   THEN IF disk[q] = "none" THEN "dir" ELSE disk[q] ELSE disk[q]]
                  ELSE disk
       /\ \/ /\ a.create => makes
             /\ roots' = roots \cup {a.path}
             /\ \/ tracked' = tracked \cup ({a.result.hash} \ {None}) /\ adds' = [adds EXCEPT ![k].at = "added"]
                \/ UNCHANGED tracked /\ adds' = [adds EXCEPT ![k].at = "failed"]
          \/ /\ adds' = [adds EXCEPT ![k].at = "failed"]
             /\ UNCHANGED <<roots, tracked>>
       /\ UNCHANGED <<screen, details, resolve, fetches, dest, checks, used, free, changes, asked>>

\* handleAddResult and recordDestination: most recent first.
AddResult(k) ==
    LET a == adds[k]
    IN /\ a.at \in {"added", "failed"}
       /\ adds' = [adds EXCEPT ![k].at = "over"]
       /\ IF a.at = "added"
          THEN screen' = "downloads" /\ used' = <<a.path>> \o SelectSeq(used, LAMBDA p : p # a.path)
          ELSE UNCHANGED <<screen, used>>
       /\ UNCHANGED <<details, resolve, fetches, dest, checks, tracked, roots, fsVars, asked>>

\* Others make, replace and fill folders.
DiskChanges ==
    /\ changes < MaxDisk
    /\ changes' = changes + 1
    /\ \/ \E p \in Folders, what \in {"dir", "readonly", "file", "none"} :
            /\ what # disk[p]
            /\ what \in {"dir", "readonly"} => Nearest(p) = "dir"
            /\ what = "file" => disk[p] = "none" /\ Nearest(p) = "dir"
            /\ \A q \in Folders : (\E i \in DOMAIN Above[q] : Above[q][i] = p) => disk[q] = "none"
            /\ disk' = [disk EXCEPT ![p] = what]
            /\ UNCHANGED free
       \/ free' = 0 /\ free # 0 /\ UNCHANGED disk
    /\ UNCHANGED <<screen, details, resolve, fetches, dest, checks, adds, used, tracked, roots, asked>>

AddMessage ==
    \/ \E f \in fetches : \E r \in Resolves(f.of) \cup {None} : ResolveResult(f, r)
    \/ \E c \in checks : RunCheck(c) \/ DestCheck(c)
    \/ \E k \in DOMAIN adds : RunAdd(k) \/ AddResult(k)

----------------------------------------------------------------------------
(* What the add flow promises. *)

(***************************************************************************)
(* A hidden promise of "esc cancels": while the screen says a fetch is in  *)
(* flight there is one whose result will end that.                         *)
(***************************************************************************)
ResolvingEnds == resolve.on => \E f \in fetches : f.gen = resolve.gen /\ ~f.cancelled

(***************************************************************************)
(* destination.go: a folder "is created ... only after the user confirms". *)
(* An add that will create a folder creates the one the user was asked     *)
(* about, for the torrent he was asked about, whatever results came        *)
(* between the question and the answer.                                    *)
(***************************************************************************)
CreatesWhatItAsked ==
    [][\A k \in DOMAIN adds' \ DOMAIN adds : adds'[k].create =>
            asked = [path |-> adds'[k].path, result |-> adds'[k].result]]_addVars

(***************************************************************************)
(* The documents say a destination is checked against the torrent's size.  *)
(***************************************************************************)
FitsWhenAdded ==
    [][\A k \in DOMAIN adds' \ DOMAIN adds : dest.check.size = adds'[k].result.size]_addVars
=============================================================================

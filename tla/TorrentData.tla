----------------------------- MODULE TorrentData -----------------------------
(* What the file store promises the torrent library, free of handles, locks
   and directories: data is put only into an open torrent, what a write has
   acknowledged stays readable until the user deletes the file, and a closed
   torrent changes nothing. FileStore implements it (FileStore!DataSpec). *)
CONSTANTS
  Torrents,        \* every torrent that may be opened
  ChunksOf(_)      \* the <<file, piece>> pairs a torrent declares

VARIABLES
  phase,           \* per torrent: "new", "open", "closing" or "closed"
  acked,           \* chunks a write has reported stored
  stored,          \* chunks that are readable on disk
  gone             \* files the user deleted

vars == <<phase, acked, stored, gone>>

Init ==
  /\ phase \in [Torrents -> {"new", "open"}]
  /\ acked = {}
  /\ stored = {}
  /\ gone = {}

Move(t, from, to) ==
  /\ phase[t] = from
  /\ phase' = [phase EXCEPT ![t] = to]
  /\ UNCHANGED <<acked, stored, gone>>

(* A write through an open torrent: the chunk is acknowledged and readable in
   one step. Of a file the user deleted nothing is promised. *)
Put(t, c) ==
  /\ phase[t] = "open"
  /\ IF c[1] \in gone
       THEN /\ UNCHANGED acked
            /\ stored' \in {stored, stored \union {c}}
       ELSE /\ acked' = acked \union {c}
            /\ stored' = stored \union {c}
  /\ UNCHANGED <<phase, gone>>

UserDeletes(f) ==
  /\ gone' = gone \union {f}
  /\ stored' = {c \in stored : c[1] # f}
  /\ acked' = {c \in acked : c[1] # f}
  /\ UNCHANGED phase

Next ==
  \/ \E t \in Torrents :
        \/ Move(t, "new", "open")
        \/ Move(t, "open", "closing")
        \/ Move(t, "closing", "closed")
        \/ \E c \in ChunksOf(t) : Put(t, c)
  \/ \E f \in {c[1] : c \in UNION {ChunksOf(t) : t \in Torrents}} : UserDeletes(f)

Spec == Init /\ [][Next]_vars
==============================================================================

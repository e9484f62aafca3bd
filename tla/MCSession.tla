----------------------------- MODULE MCSession -----------------------------
(* Session for TLC: two torrents, of one infohash or of two. *)
EXTENDS Session, TLC

NonePaused == [paused : {FALSE}, mine : {TRUE}]

\* Every torrent added by a URL of its own, or all magnets of one infohash.
Unknown == [i \in Ids |-> None]
Shared  == [i \in Ids |-> "h"]

Both == {Unknown, Shared}

Symmetry == Permutations(Ids)
=============================================================================

------------------------------- MODULE MCFiles -------------------------------
(* Two torrents with one name at two names of one directory: they share a
   file, and the first has a second file one directory deeper. A third one is
   in the first one's store and is never read nor written: the Close of that
   store goes from the one to the other. One handle per torrent, so that every
   second open evicts. *)
EXTENDS FileStore, TLC

MCPathOf == [a |-> <<<<"d", "n", "f">>, <<"d", "n", "s", "g">>>>,
             b |-> <<<<"e", "n", "f">>>>,
             c |-> <<<<"d", "m">>>>]
MCExtent == [a |-> <<<<1, 2>>>>, b |-> <<<<1>>>>, c |-> <<>>]
MCTarget(dest) == "d"
MCSymmetry == Permutations(Callers)
==============================================================================

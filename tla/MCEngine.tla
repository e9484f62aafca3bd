------------------------------ MODULE MCEngine ------------------------------
(* TLC instances of TorrentEngine. *)
EXTENDS TorrentEngine, TLC

Symmetry == Permutations(Ids) \cup Permutations(Hashes)
=============================================================================

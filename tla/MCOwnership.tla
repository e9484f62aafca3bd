---------------------------- MODULE MCOwnership ----------------------------
(***************************************************************************)
(* Instance of DataOwnership: two torrents that name their data alike, a   *)
(* directory with two paths and another one.                               *)
(***************************************************************************)
EXTENDS DataOwnership, TLC

CONSTANTS x, y, film, home, alias, other, disk1, disk2, c1, c2

MCNameOf == [t \in {x, y} |-> film]
MCCarries == [t \in {x, y} |-> {t = x}]
MCDirOf == [p \in {home, alias, other} |-> IF p = other THEN disk2 ELSE disk1]
MCSymmetry == Permutations({home, alias})
=============================================================================

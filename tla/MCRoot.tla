-------------------------------- MODULE MCRoot --------------------------------
(* Two results: one whose link its source must be asked for, and which turns *)
(* out to be the other, and one with a magnet.                               *)
EXTENDS Root

Unresolved == [title |-> "r1", source |-> "s1", hash |-> None, link |-> "none", size |-> 1]
Magnet     == [title |-> "r2", source |-> "s1", hash |-> "h2", link |-> "magnet", size |-> 2]

MCListed      == {Unresolved, Magnet}
MCResolves(r) == {[Unresolved EXCEPT !.hash = "h2", !.link = "magnet"], Unresolved}
MCAbove       == [p \in Folders |-> IF p = "b" THEN <<"a">> ELSE <<>>]
MCSavedDests  == <<>>
MCExpands     == [i \in Inputs |-> IF i = "" THEN None ELSE "b"]
=============================================================================

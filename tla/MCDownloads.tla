---------------------------- MODULE MCDownloads ----------------------------
(* Downloads for TLC. *)
EXTENDS Downloads
CONSTANTS i1, i2

Row(i, st) == [id |-> i, state |-> st, done |-> st = "seeding"]
One == {<<Row(i1, "seeding"), Row(i2, "downloading")>>}
=============================================================================

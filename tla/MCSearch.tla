------------------------------ MODULE MCSearch ------------------------------
(* SearchScreen for TLC. *)
EXTENDS SearchScreen, TLC

CONSTANTS latest, keyword   \* a query of each mode

Both == {latest, keyword}
OnlyKeyword == {keyword}

\* Sources that find by keyword and do not list the latest.
NoLatest == [q \in Queries |-> IF q = keyword THEN Ids ELSE {}]

\* Every source is replaced once.
OneReplaced == [i \in Ids |-> 2]
=============================================================================

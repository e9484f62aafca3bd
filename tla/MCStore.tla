------------------------------ MODULE MCStore ------------------------------
(* Store for TLC: small sets of records, histories of a few entries. *)
EXTENDS Store
=============================================================================

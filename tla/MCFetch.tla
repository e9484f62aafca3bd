------------------------------ MODULE MCFetch ------------------------------
(* Fetch for TLC. *)
EXTENDS Fetch

Strict  == [creds |-> TRUE, subdomains |-> TRUE, magnets |-> TRUE]
Loose   == [creds |-> FALSE, subdomains |-> TRUE, magnets |-> TRUE]
Both    == {Strict, Loose}

Plain   == [scheme |-> "http", user |-> "none", headers |-> FALSE]
Keyed   == [scheme |-> "http", user |-> "own", headers |-> FALSE]
Asked   == {Plain, Keyed}

To(h, s, u) == [host |-> h, scheme |-> s, user |-> u]
Locations ==
    {To("origin", "http", "none"), To("origin", "https", "none"), To("sub", "https", "none"),
     To("explicit", "http", "own"), To("origin", "http", "theirs"), To("magnet", "http", "none")}
=============================================================================

----------------------------- MODULE MCSettings -----------------------------
EXTENDS Settings

CONSTANTS p, x, scraper

\* Every definition file names the id of its entry.
Named(f) == f = [i \in Sources |-> i]

\* Any configuration with the preferences p.
Any(c, f) == c.prefs = p /\ Named(f)

\* The bundled sources, and one source of the user's own.
OneStart(c, f) ==
    /\ Named(f)
    /\ c.prefs = p /\ c.off = {}
    /\ c.entries = [i \in Sources |-> IF i \in Builtins THEN Absent ELSE [spec |-> scraper, enabled |-> TRUE]]

\* The same, but the user's definition file names an id that is no entry's.
Misnamed(c, f) ==
    /\ OneStart(c, [i \in Sources |-> i])
    /\ \A i \in Sources : f[i] = IF i \in Builtins THEN i ELSE x

\* The user's definition file names its entry, another id, or does not parse.
UsersOwn(i) == IF i \in Builtins THEN {} ELSE {i, x, Absent}
Nothing(i) == {}

=============================================================================

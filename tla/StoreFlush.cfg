SPECIFICATION FairSpec
CONSTANTS
    Torrents = {t1}
    Records = {r1}
    Prefs = {p1}
    Dirs = {d1, d2}
    None = None
    MaxHistory = 2
    Calls = {"torrents", "history", "clear", "prefs", "dirs", "flush", "close", "diskfails"}
    MaxChanges = 3
    MaxCrashes = 1
INVARIANTS
    Durable
    CloseKeepsClear
PROPERTY
    CatchesUp
CHECK_DEADLOCK FALSE

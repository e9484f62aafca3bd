SPECIFICATION Spec
CONSTANTS
    Torrents = {t1}
    Records = {r1}
    Prefs = {p1}
    Dirs = {d1}
    None = None
    MaxHistory = 2
    Calls = {"history", "clear"}
    MaxChanges = 3
    MaxCrashes = 1
INVARIANT
    ClearSurvives
CHECK_DEADLOCK FALSE

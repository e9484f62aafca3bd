\* Three saves of every kind under way at once.
SPECIFICATION SettingsSpec
CONSTANTS
    p = p
    x = x
    scraper = scraper
    Sources = {b, u}
    Names = {b, u, x}
    Builtins = {b}
    Specs = {scraper}
    Scrapers = {scraper}
    Bundled = bundled
    Absent = Absent
    Prefs = {p, q}
    Calls = {"sources", "builtin", "prefs", "reload", "fails"}
    Written <- UsersOwn
    MaxSaves = 3
    Loaded <- OneStart
INVARIANTS InStep ListsTrue
PROPERTY PartsKept
CHECK_DEADLOCK FALSE

\* Two saves of the source list, no failures.
SPECIFICATION SettingsSpec
CONSTANTS
    p = p
    x = x
    scraper = scraper
    Sources = {b, u}
    Names = {b, u}
    Builtins = {b}
    Specs = {scraper, torznab}
    Scrapers = {scraper}
    Bundled = bundled
    Absent = Absent
    Prefs = {p}
    Calls = {"sources"}
    Written <- Nothing
    MaxSaves = 2
    Loaded <- Any
INVARIANT SnapshotIsSaved
CHECK_DEADLOCK FALSE

\* A scraper whose definition file names another id than its entry, one save.
SPECIFICATION SettingsSpec
CONSTANTS
    p = p
    x = x
    scraper = scraper
    Sources = {b, u}
    Names = {b, u, x}
    Builtins = {b}
    Specs = {scraper}
    Scrapers = {scraper}
    Bundled = bundled
    Absent = Absent
    Prefs = {p}
    Calls = {"sources"}
    Written <- Nothing
    MaxSaves = 1
    Loaded <- Misnamed
INVARIANT RegistryIsExact
CHECK_DEADLOCK FALSE

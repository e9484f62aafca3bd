SPECIFICATION Spec
CONSTANTS
    Ids = {i1, i2}
    Hashings <- Both
    None = None
    Saved <- NonePaused
    Calls = {"add", "pause", "remove", "restorefails", "resumefails", "timeouts", "crash"}
    MaxCommands = 2
    MaxStarts = 2
SYMMETRY Symmetry
CHECK_DEADLOCK FALSE
INVARIANTS
    OnlyUserPauses
    SavedAsShown
PROPERTIES
    RecordsKept

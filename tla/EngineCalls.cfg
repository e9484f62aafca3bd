SPECIFICATION Spec
CONSTANTS
    Ids = {i1, i2}
    Hashes = {h1, h2}
    None = None
    MaxActive = 1
    Kinds = {"magnet"}
    Calls = {"pause", "space", "complete", "quit"}
    Restores = 1
SYMMETRY Symmetry
CHECK_DEADLOCK FALSE
INVARIANTS
    QueueSound
    OneEntryPerHash
    GatesFollow
PROPERTY SlotBound

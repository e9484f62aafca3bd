SPECIFICATION FairSpec
CONSTANTS
    Ids = {i1, i2}
    Hashes = {h1}
    None = None
    MaxActive = 1
    Kinds = {"magnet", "url"}
    Calls = {"remove", "complete", "close"}
    Restores = 0
CHECK_DEADLOCK FALSE
INVARIANTS
    NoOrphan
    NoWorkAfterClose
PROPERTIES
    StartsEnd

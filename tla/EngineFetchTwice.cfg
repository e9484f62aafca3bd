SPECIFICATION Spec
CONSTANTS
    Ids = {i1, i2}
    Hashes = {h1}
    None = None
    MaxActive = 2
    Kinds = {"url"}
    Calls = {}
    Restores = 0
SYMMETRY Symmetry
CHECK_DEADLOCK FALSE
INVARIANT OneEntryPerHash

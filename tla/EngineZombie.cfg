SPECIFICATION Spec
CONSTANTS
    Ids = {i1, i2}
    Hashes = {h1, h2}
    None = None
    MaxActive = 1
    Kinds = {"magnet"}
    Calls = {"pause"}
    Restores = 0
SYMMETRY Symmetry
CHECK_DEADLOCK FALSE
INVARIANT RefusedIsErrored

SPECIFICATION Spec
CONSTANTS
    Ids = {i1, i2, i3}
    Hashes = {h1, h2, h3}
    None = None
    MaxActive = 1
    Kinds = {"magnet", "file"}
    Calls = {"move"}
    Restores = 1
SYMMETRY Symmetry
CHECK_DEADLOCK FALSE
PROPERTY QueueOrder

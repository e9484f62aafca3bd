SPECIFICATION DownloadsSpec
CONSTANTS
    i1 = i1
    i2 = i2
    Ids = {i1, i2}
    Unset = Unset
    Starts <- One
    Windows = {9, 12}
    MaxKeys = 2
    MaxWork = 1
CHECK_DEADLOCK FALSE
INVARIANTS
    InOrder
    Visible
PROPERTIES
    RemovesWhatItNamed
    NoGuessOutlivesItsCall

SPECIFICATION ScreenSpec
CONSTANTS
    Ids = {s1}
    None = None
    latest = latest
    keyword = keyword
    Queries <- OnlyKeyword
    Able <- NoLatest
    Fans = {1, 2, 3}
    Interval = 1
    TTL = 2
    MaxTime = 2
    MaxGens <- OneReplaced
CHECK_DEADLOCK FALSE
INVARIANTS
    CacheIsCurrent
    NoneUnseen
PROPERTIES
    FloorKept
    NeverGoesBack
    SearchEnds

SPECIFICATION ScreenSpec
CONSTANTS
    Ids = {s1}
    None = None
    latest = latest
    keyword = keyword
    Queries <- Both
    Able <- NoLatest
    Fans = {1, 2}
    Interval = 1
    TTL = 2
    MaxTime = 1
    MaxGens <- OneReplaced
CHECK_DEADLOCK FALSE
PROPERTIES
    CancelledIsStale

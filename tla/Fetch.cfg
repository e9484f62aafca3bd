SPECIFICATION FairSpec
CONSTANTS
    Calls = {c1, c2}
    Hosts = {h1}
    None = None
    Interval = 2
    RequestTimeout = 4
    AttemptTimeout = 2
    MaxAttempts = 2
    BaseBackoff = 1
    MaxBackoff = 2
    MaxRetryAfter = 2
    MaxDuration = 4
    RetryAfters = {1, 5}
    MaxRedirects = 3
    Clients <- Both
    Requests <- Asked
    Targets <- Locations
    Sizes = {1, 3}
    MaxBody = 1
    MaxTime = 4
CHECK_DEADLOCK FALSE
INVARIANTS
    Spaced
    HonoursRetryAfter
    CredentialsStay
PROPERTY CallsEnd

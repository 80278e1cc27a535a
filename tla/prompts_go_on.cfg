SPECIFICATION FairSpec
CONSTANTS
    fast = fast slow = slow
    Targets = {fast, slow}
    Interval <- MCInterval
    BrandCadence = 2
    Backoff <- MCBackoff
    Hour = 1
    HalfHour = 0
    Expiry = 2
    WebExpiry = 1
    Retries = 0
    Longest = 1
    Period = 2
    Oldest = 3
    Metered = TRUE
    Handlers = {h1}
    h1 = h1 h2 = h2
    Rows = {1, 2, 3, 4}
    MaxOutside = 0
    MaxFaults = 1
PROPERTY KeepsSampling
CHECK_DEADLOCK FALSE

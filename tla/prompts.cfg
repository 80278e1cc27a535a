SPECIFICATION Spec
CONSTANTS
    fast = fast slow = slow
    Targets = {slow}
    Interval <- MCInterval
    BrandCadence = 2
    Backoff <- MCBackoff
    Hour = 1
    HalfHour = 0
    Expiry = 2
    WebExpiry = 1
    Retries = 0
    Longest = 1
    Period = 2
    Oldest = 3
    Metered = FALSE
    Handlers = {h1, h2}
    h1 = h1 h2 = h2
    Rows = {1, 2, 3, 4}
    MaxOutside = 1
    MaxFaults = 1
SYMMETRY MCHandlers
INVARIANTS TypeOK OneChain
PROPERTY OversamplingIsShared
CHECK_DEADLOCK FALSE

SPECIFICATION FairSpec
CONSTANTS
    a1 = a1 a2 = a2
    c1 = c1 c2 = c2 c3 = c3 c4 = c4
    t1 = t1
    i1 = i1 i2 = i2
    NONE = NONE
    Approvals = {a1}
    Targets = {t1}
    TargetOf <- MCTargetOf
    SiteTargets = {}
    Integrations = {i1}
    Carries = {c1, c2, c3}
    MaxAttempts = 2
    MaxFaults = 1
    MaxChanges = 1
INVARIANT VerdictMatchesProvider
PROPERTY QueueDrains
CHECK_DEADLOCK FALSE

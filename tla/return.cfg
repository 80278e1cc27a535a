SPECIFICATION FairSpec
CONSTANTS
    v1 = v1 v2 = v2 post1 = post1 site1 = site1 post2 = post2 w1 = w1 w2 = w2 NONE = NONE
    Versions = {v1}
    Releases = {site1}
    VersionOf <- MCVersionOf
    SiteReleases = {site1}
    Senders = {w1, w2}
    MaxAttempts = 2
    MaxFaults = 3
INVARIANTS TypeOK HeardIsTrue
PROPERTIES ImplementsFeed OutcomesGetThrough
CHECK_DEADLOCK FALSE

SPECIFICATION FairSpec
CONSTANTS
    ru = ru en = en ru1 = ru1 ru2 = ru2 en1 = en1 en2 = en2 OLD = OLD NONE = NONE
    Locales = {ru, en}
    Releases = {ru1, en1, ru2, en2}
    LocaleOf <- MCLocaleOf
    AtOnce = 1
    OwnerInterrupts = FALSE
    MaxCloses = 0
    MaxFaults = 1
INVARIANTS OfferIsWhole AcceptedIsKept
PROPERTY PendingIsSettled
CHECK_DEADLOCK FALSE

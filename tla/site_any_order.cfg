SPECIFICATION Spec
CONSTANTS
    ru = ru en = en ru1 = ru1 ru2 = ru2 en1 = en1 en2 = en2 OLD = OLD NONE = NONE
    Locales = {ru, en}
    Releases = {ru1, en1, ru2}
    LocaleOf <- MCLocaleOf
    AtOnce = 2
    OwnerInterrupts = TRUE
    MaxCloses = 1
    MaxFaults = 1
INVARIANTS TypeOK PublishedWasShown UncrossedIsKept
CHECK_DEADLOCK FALSE

SPECIFICATION FairSpec
CONSTANTS
    r1 = r1 r2 = r2 NONE = NONE
    Assets = {1}
    Rounds = {r1, r2}
    MaxFaults = 2
INVARIANTS TypeOK SubmittedWasScanned ApprovedIsSubmitted
PROPERTIES FinalVerdictStays ScansFinish
CHECK_DEADLOCK FALSE

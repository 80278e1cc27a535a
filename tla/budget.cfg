SPECIFICATION Spec
CONSTANTS
    r1 = r1 r2 = r2 k1 = k1 k2 = k2 k3 = k3 b1 = b1 NONE = NONE
    Brands = {b1}
    Keys = {k1, k2, k3}
    Requests = {r1, r2}
    Budgets <- MCBudgets
    MaxCalls = 2
    Days = 2
    DaysInMonth = 2
    MaxFaults = 2
SYMMETRY MCSymmetry
INVARIANTS TypeOK TracedUnlessUndone PaidWithinCeiling AskedOncePerKey
CHECK_DEADLOCK FALSE

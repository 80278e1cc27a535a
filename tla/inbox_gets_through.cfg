SPECIFICATION FairSpec
CONSTANTS
    m1 = m1 m2 = m2 b1 = b1 b2 = b2 r1 = r1 r2 = r2 x = x y = y NONE = NONE
    Materials = {m1, m2}
    MaxVersion = 2
    Bodies = {x}
    Poison <- MCPoison
    Brands = {b1}
    Receivers = {r1}
    MaxEdits = 0
    MaxChanges = 1
INVARIANT TypeOK
PROPERTY DraftsGetThrough
CHECK_DEADLOCK FALSE

SPECIFICATION Spec
CONSTANTS
    m1 = m1 m2 = m2 b1 = b1 b2 = b2 r1 = r1 r2 = r2 x = x y = y NONE = NONE
    Materials = {m1}
    MaxVersion = 2
    Bodies = {x, y}
    Poison = {}
    Brands = {b1, b2}
    Receivers = {r1, r2}
    MaxEdits = 1
    MaxChanges = 2
SYMMETRY MCSymmetry
INVARIANTS AnswersHold DraftsAreProjections EventHasItsVersion 
PROPERTIES VersionsStay UnracedGoesForward
CHECK_DEADLOCK FALSE

--------------------------- MODULE MCAetherInbox ---------------------------
\* Values of the constants of AetherInbox for TLC.
EXTENDS AetherInbox, TLC

CONSTANTS m1, m2, b1, b2, r1, r2, x, y

MCPoison == {<<m1, 1>>}
MCSymmetry ==
    Permutations(Receivers) \cup Permutations(Bodies) \cup Permutations(Brands)
=============================================================================

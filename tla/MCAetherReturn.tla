--------------------------- MODULE MCAetherReturn ---------------------------
\* Values of the constants of AetherReturn for TLC.
EXTENDS AetherReturn, TLC

CONSTANTS v1, v2, post1, site1, post2, w1, w2

MCVersionOf == [r \in Releases |-> IF r = post2 THEN v2 ELSE v1]
=============================================================================

------------------------- MODULE MCReleasePipeline -------------------------
\* Values of the constants of ReleasePipeline for TLC. Carries and integrations
\* are interchangeable.
EXTENDS ReleaseClaims, TLC

CONSTANTS a1, a2, c1, c2, c3, c4, t1, i1, i2

MCTargetOf == [a \in Approvals |-> t1]
ReleaseSymmetry ==
    Permutations(Carries) \cup Permutations(Integrations)
=============================================================================

------------------------- MODULE MCSitePublication -------------------------
\* Values of the constants of SitePublication for TLC.
EXTENDS SitePublication, TLC

CONSTANTS ru, en, ru1, ru2, en1, en2

MCLocaleOf == [r \in Releases |-> IF r \in {ru1, ru2} THEN ru ELSE en]
=============================================================================

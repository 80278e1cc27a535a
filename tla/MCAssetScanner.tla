--------------------------- MODULE MCAssetScanner ---------------------------
\* Values of the constants of AssetScanner for TLC.
EXTENDS AssetScanner, TLC

CONSTANTS r1, r2

\* Rounds are interchangeable; no run with liveness uses this.
RoundSymmetry == Permutations(Rounds)
=============================================================================

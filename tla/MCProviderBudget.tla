-------------------------- MODULE MCProviderBudget --------------------------
\* Values of the constants of ProviderBudget for TLC: a daily budget that one
\* run fills, and a monthly one, with more calls than cost, that two fill.
EXTENDS ProviderBudget, TLC

CONSTANTS b1, r1, r2, k1, k2, k3

MCBudgets == {[kind |-> "DAY", calls |-> 3, cost |-> 4],
              [kind |-> "MONTH", calls |-> 4, cost |-> 5]}
MCSymmetry == Permutations({r1, r2}) \cup Permutations({k1, k2, k3})
=============================================================================

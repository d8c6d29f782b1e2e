----------------------------- MODULE MCBilling -----------------------------
EXTENDS Billing, TLC
CONSTANTS w1, w2
MCWorkers == {w1, w2}

\* The goroutines differ in name only.
Symmetry == Permutations(MCWorkers)
============================================================================

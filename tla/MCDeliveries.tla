---------------------------- MODULE MCDeliveries ----------------------------
EXTENDS MessageDeliveries, TLC
CONSTANTS w1, a1, a2, h1, d1
OneWorker == {w1}
OneWebhook == {h1}
OneChannel == {d1}
TwoMailers == {a1, a2}

\* The handlers of notices differ in name only.
Symmetry == Permutations(TwoMailers)
============================================================================

------------------------- MODULE MCHeartbeatMonitor -------------------------
EXTENDS HeartbeatMonitor, TLC
CONSTANTS w1, w2
OneWorker == {w1}
TwoWorkers == {w1, w2}

\* The goroutines differ in name only.
Symmetry == Permutations(TwoWorkers)
============================================================================

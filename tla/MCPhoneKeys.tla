----------------------------- MODULE MCPhoneKeys -----------------------------
EXTENDS PhoneKeys, TLC
CONSTANTS w1, w2, k1, k2, n1
TwoWorkers == {w1, w2}
TwoKeys    == {k1, k2}
OneNumber  == {n1}

\* A number whose phone was deleted gets a second one.
SameNumber == [p \in PhoneIDs |-> n1]

\* Workers and keys differ in name only.
Symmetry == Permutations(TwoWorkers) \cup Permutations(TwoKeys)
============================================================================

--------------------------- MODULE MCConversation ---------------------------
EXTENDS Conversation, TLC
CONSTANTS w1, w2, m1, m2, m3
MCWorkers == {w1, w2}
TwoMessages == {m1, m2}
ThreeMessages == {m1, m2, m3}
Symmetry == Permutations(MCWorkers) \cup Permutations(ThreeMessages)
============================================================================

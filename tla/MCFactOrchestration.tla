------------------------- MODULE MCFactOrchestration --------------------------
EXTENDS FactOrchestration, TLC

CONSTANTS w1, w2, t1, t2

Symmetry == Permutations(Workers) \cup Permutations(Tokens)
==============================================================================

----------------------------- MODULE MCStHeapTimer -----------------------------
EXTENDS StHeapTimer, TLC
Symmetry == Permutations(Timer)
=============================================================================

--------------------------- MODULE MCSharedStorage ---------------------------
EXTENDS SharedStorage, TLC

Symmetry == Permutations(Windows) \cup Permutations(Values)
=============================================================================

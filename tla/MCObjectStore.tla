--------------------------- MODULE MCObjectStore ---------------------------
EXTENDS ObjectStore, TLC
Symmetry ==
    Permutations(Drops) \cup Permutations(Objects)
        \cup Permutations(Publishers) \cup Permutations(Collectors)
=============================================================================
